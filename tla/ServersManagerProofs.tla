-------------------------- MODULE ServersManagerProofs --------------------------
(***************************************************************************)
(* Theorems about ServersManager for any threads, URIs and servers, and    *)
(* whichever calls fail.                                                   *)
(***************************************************************************)
EXTENDS ServersManager, TLAPS

\* What a call asks the storage for.
StoreRequest(m) ==
  CASE m.op = "add" -> [op |-> "add", key |-> m.uri, value |-> TextOf(m.server, m.format)]
    [] m.op \in {"get", "remove"} -> [op |-> m.op, key |-> m.uri, value |-> NULL]
    [] OTHER -> [op |-> "iterate", key |-> NULL, value |-> NULL]

\* Which steps belong to which call.
CallInv(t) ==
  /\ pc[t] = "idle" <=> call[t] = NoCall
  /\ pc[t] # "idle" => call[t] \in Calls
  /\ pc[t] \in {"serialise", "stored"} => call[t].op = "add"
  /\ pc[t] \in {"query", "rebuild"} => call[t].op \in {"get", "remove"}
  /\ pc[t] \in {"list", "collect"} => call[t].op = "all"

\* A thread has one call of the storage under way, for the call that it is in.
AskInv(t) ==
  /\ pc[t] \in {"idle", "serialise", "query", "list", "done"} =>
       phase[t] = "idle" /\ ask[t] = NoRequest
  /\ pc[t] \in {"stored", "rebuild", "collect"} =>
       phase[t] \in {"asked", "answered"} /\ ask[t] = StoreRequest(call[t])

MaybeTexts == Texts \cup {NULL}
TextMaps == [Uris -> MaybeTexts]

\* What the storage may answer.
Answered(op) ==
  CASE op = "add" -> [result: BOOLEAN, entries: {NoServers}]
    [] op \in {"get", "remove"} -> [result: MaybeTexts, entries: {NoServers}]
    [] OTHER -> [result: BOOLEAN, entries: TextMaps]

AnswerInv(t) ==
  /\ phase[t] # "answered" => answer[t] = Storage!NoAnswer
  /\ phase[t] = "answered" => answer[t] \in Answered(ask[t].op)

\* What a call may have worked out.
ServerMaps == [Uris -> Servers \cup {NULL}]
Results(op) ==
  CASE op = "add" -> {0, -1}
    [] op = "all" -> [complete: BOOLEAN, servers: ServerMaps]
    [] OTHER -> Servers \cup {NULL}

ResultInv(t) ==
  /\ pc[t] # "done" => result[t] = NULL
  /\ pc[t] = "done" => result[t] \in Results(call[t].op)

ThreadInv(t) == CallInv(t) /\ AskInv(t) /\ AnswerInv(t) /\ ResultInv(t)

\* The variables as functions of the threads.
Shape ==
  /\ fallible \in BOOLEAN /\ contents \in TextMaps
  /\ phase \in [Threads -> {"idle", "asked", "answered"}]
  /\ ask \in [Threads -> StorageRequests \cup {NoRequest}]
  /\ DOMAIN answer = Threads /\ answer = [t \in Threads |-> answer[t]]
  /\ pc \in [Threads -> Steps]
  /\ call \in [Threads -> Calls \cup {NoCall}]
  /\ DOMAIN result = Threads /\ result = [t \in Threads |-> result[t]]

IInv == Shape /\ \A t \in Threads : ThreadInv(t)

-----------------------------------------------------------------------------
LEMMA CallFields ==
  ASSUME NEW m \in Calls
  PROVE  /\ m.op \in {"add", "get", "remove", "all"} /\ m.format \in Formats
         /\ m.op = "add" => m.uri \in Uris /\ m.server \in Servers
         /\ m.op \in {"get", "remove"} => m.uri \in Uris
         /\ m # NoCall
BY DEF Calls, NoCall

LEMMA StoreRequests ==
  ASSUME NEW m \in Calls
  PROVE  /\ StoreRequest(m) \in StorageRequests
         /\ m.op = "add" => StoreRequest(m) = [op |-> "add", key |-> m.uri,
                                               value |-> TextOf(m.server, m.format)]
         /\ m.op \in {"get", "remove"} =>
              StoreRequest(m) = [op |-> m.op, key |-> m.uri, value |-> NULL]
         /\ m.op = "all" => StoreRequest(m) = [op |-> "iterate", key |-> NULL, value |-> NULL]
<1>1. /\ m.op = "add" => StoreRequest(m) = [op |-> "add", key |-> m.uri,
                                            value |-> TextOf(m.server, m.format)]
      /\ m.op \in {"get", "remove"} =>
           StoreRequest(m) = [op |-> m.op, key |-> m.uri, value |-> NULL]
      /\ m.op = "all" => StoreRequest(m) = [op |-> "iterate", key |-> NULL, value |-> NULL]
  BY DEF StoreRequest
<1>2. m.op = "add" => TextOf(m.server, m.format) \in Texts
  BY CallFields DEF TextOf, Texts
<1>3. StoreRequest(m) \in StorageRequests
  BY <1>1, <1>2, CallFields DEF StorageRequests
<1> QED
  BY <1>1, <1>3

LEMMA RequestFields ==
  ASSUME NEW r \in StorageRequests
  PROVE  /\ r.op \in {"add", "get", "remove", "iterate"}
         /\ r.op = "add" => r.key \in Uris /\ r.value \in Texts
         /\ r.op \in {"get", "remove"} => r.key \in Uris
BY DEF StorageRequests

\* A step of one thread has to show what it does to that thread.
LEMMA OneThread ==
  ASSUME IInv, Shape', NEW t \in Threads, ThreadInv(t)',
         \A u \in Threads \ {t} : /\ pc'[u] = pc[u] /\ call'[u] = call[u]
                                 /\ result'[u] = result[u] /\ phase'[u] = phase[u]
                                 /\ ask'[u] = ask[u] /\ answer'[u] = answer[u]
  PROVE  IInv'
<1> SUFFICES ASSUME NEW u \in Threads \ {t} PROVE ThreadInv(u)'
  BY DEF IInv
<1>1. ThreadInv(u)
  BY DEF IInv
<1>2. StoreRequest(call[u])' = StoreRequest(call[u])
  BY DEF StoreRequest
<1> QED
  BY <1>1, <1>2
  DEF ThreadInv, CallInv, AskInv, AnswerInv, ResultInv, Storage!NoAnswer, Storage!Nothing

LEMMA InitIInv == Init => IInv
<1> SUFFICES ASSUME Init PROVE IInv
  OBVIOUS
<1>1. Shape
  BY DEF Init, Storage!Init, Storage!Nothing, Storage!NoAnswer, Shape, TextMaps, MaybeTexts, Steps
<1>2. ASSUME NEW t \in Threads PROVE ThreadInv(t)
  BY DEF Init, Storage!Init, ThreadInv, CallInv, AskInv, AnswerInv, ResultInv
<1> QED
  BY <1>1, <1>2 DEF IInv

LEMMA CallKeepsIInv ==
  ASSUME IInv, NEW t \in Threads, NEW m \in Calls, Call(t, m)
  PROVE  IInv'
<1> USE DEF Goto, storageVars
<1>1. Shape'
  BY DEF IInv, Shape, Call, Steps
<1>2. ThreadInv(t)
  BY DEF IInv
<1>3. ThreadInv(t)'
  <2>1. /\ pc'[t] = (CASE m.op = "add" -> "serialise" [] m.op = "all" -> "list"
                       [] OTHER -> "query")
        /\ call'[t] = m /\ pc[t] = "idle"
        /\ phase'[t] = phase[t] /\ ask'[t] = ask[t] /\ answer'[t] = answer[t]
        /\ result'[t] = result[t]
    BY DEF Call, IInv, Shape
  <2> QED
    BY <1>2, <2>1, CallFields DEF ThreadInv, CallInv, AskInv, AnswerInv, ResultInv
<1> QED
  BY <1>1, <1>3, OneThread DEF Call, IInv, Shape

\* Calls of the storage: asked for, answered, and taken back.
LEMMA AskKeepsIInv ==
  ASSUME IInv, NEW t \in Threads, NEW r \in StorageRequests, Storage!Ask(t, r),
         NEW s \in {"stored", "rebuild", "collect"}, pc' = [pc EXCEPT ![t] = s],
         UNCHANGED <<call, result>>, call[t] \in Calls, pc[t] \in {"serialise", "query", "list"},
         s = "stored" => call[t].op = "add",
         s = "rebuild" => call[t].op \in {"get", "remove"},
         s = "collect" => call[t].op = "all",
         r = StoreRequest(call[t])
  PROVE  IInv'
<1>1. Shape'
  BY DEF IInv, Shape, Storage!Ask, Steps
<1>2. ThreadInv(t)
  BY DEF IInv
<1>3. ThreadInv(t)'
  <2>1. /\ pc'[t] = s /\ call'[t] = call[t] /\ phase'[t] = "asked" /\ ask'[t] = r
        /\ answer'[t] = answer[t] /\ result'[t] = result[t] /\ phase[t] = "idle"
    BY DEF Storage!Ask, IInv, Shape
  <2>2. Storage!NoAnswer' = Storage!NoAnswer
    BY DEF Storage!NoAnswer, Storage!Nothing
  <2>3. StoreRequest(call[t])' = StoreRequest(call[t])
    BY DEF StoreRequest
  <2> QED
    BY <1>2, <2>1, <2>2, <2>3 DEF ThreadInv, CallInv, AskInv, AnswerInv, ResultInv
<1> QED
  BY <1>1, <1>3, OneThread DEF Storage!Ask, IInv, Shape

LEMMA ReplyKeepsIInv ==
  ASSUME IInv, NEW t \in Threads, Storage!Reply(t), UNCHANGED call, call[t] \in Calls,
         NEW r \in Results(call[t].op), Returns(t, r)
  PROVE  IInv'
<1> USE DEF Returns, Goto
<1>1. Shape'
  BY DEF IInv, Shape, Storage!Reply, Steps
<1>2. /\ pc'[t] = "done" /\ call'[t] = call[t] /\ phase'[t] = "idle" /\ ask'[t] = NoRequest
      /\ answer'[t] = Storage!NoAnswer /\ result'[t] = r /\ call[t] # NoCall
  BY CallFields DEF Storage!Reply, IInv, Shape
<1>3. ThreadInv(t)'
  BY <1>2 DEF ThreadInv, CallInv, AskInv, AnswerInv, ResultInv, Storage!NoAnswer, Storage!Nothing
<1> QED
  BY <1>1, <1>3, OneThread DEF Storage!Reply, IInv, Shape

\* A call that fails before it has asked the storage.
LEMMA GiveUpKeepsIInv ==
  ASSUME IInv, NEW t \in Threads, pc[t] \in {"serialise", "list"},
         UNCHANGED <<storageVars, call>>,
         NEW r \in Results(call[t].op), Returns(t, r)
  PROVE  IInv'
<1> USE DEF Returns, Goto, storageVars
<1>1. Shape'
  BY DEF IInv, Shape, Steps
<1>2. ThreadInv(t)
  BY DEF IInv
<1>3. pc'[t] = "done" /\ result'[t] = r /\ call' = call
  BY DEF IInv, Shape
<1>4. ThreadInv(t)'
  BY <1>2, <1>3 DEF ThreadInv, CallInv, AskInv, AnswerInv, ResultInv, Storage!NoAnswer,
                    Storage!Nothing
<1> QED
  BY <1>1, <1>4, OneThread DEF IInv, Shape

LEMMA AddKeepsIInv ==
  ASSUME IInv, NEW t \in Threads, AddExternalServer(t)
  PROVE  IInv'
<1> DEFINE r == [op |-> "add", key |-> call[t].uri,
                 value |-> TextOf(call[t].server, call[t].format)]
<1>1. pc[t] = "serialise" /\ call[t] \in Calls /\ call[t].op = "add" /\ call' = call
  BY DEF AddExternalServer, IInv, ThreadInv, CallInv
<1>2. CASE Storage!Ask(t, r) /\ Goto(t, "stored") /\ UNCHANGED result
  <2>1. r = StoreRequest(call[t]) /\ r \in StorageRequests
    BY <1>1, StoreRequests
  <2> QED
    BY <1>1, <1>2, <2>1, AskKeepsIInv DEF Goto
<1>3. CASE Returns(t, -1) /\ UNCHANGED storageVars
  BY <1>1, <1>3, GiveUpKeepsIInv DEF Results
<1> QED
  BY <1>2, <1>3 DEF AddExternalServer

LEMMA QueryKeepsIInv ==
  ASSUME IInv, NEW t \in Threads, QueryExternalServer(t)
  PROVE  IInv'
<1> DEFINE r == [op |-> call[t].op, key |-> call[t].uri, value |-> NULL]
<1>1. /\ pc[t] = "query" /\ call[t] \in Calls /\ call[t].op \in {"get", "remove"}
      /\ UNCHANGED <<call, result>> /\ Goto(t, "rebuild") /\ Storage!Ask(t, r)
  BY DEF QueryExternalServer, IInv, ThreadInv, CallInv
<1>2. r = StoreRequest(call[t]) /\ r \in StorageRequests
  BY <1>1, StoreRequests
<1> QED
  BY <1>1, <1>2, AskKeepsIInv DEF Goto

LEMMA GetAllKeepsIInv ==
  ASSUME IInv, NEW t \in Threads, GetAllExternalServers(t)
  PROVE  IInv'
<1> DEFINE r == [op |-> "iterate", key |-> NULL, value |-> NULL]
<1>1. pc[t] = "list" /\ call[t] \in Calls /\ call[t].op = "all" /\ call' = call
  BY DEF GetAllExternalServers, IInv, ThreadInv, CallInv
<1>2. CASE Storage!Ask(t, r) /\ Goto(t, "collect") /\ UNCHANGED result
  <2>1. r = StoreRequest(call[t]) /\ r \in StorageRequests
    BY <1>1, StoreRequests
  <2> QED
    BY <1>1, <1>2, <2>1, AskKeepsIInv DEF Goto
<1>3. CASE Returns(t, AllServers(FALSE, NoServers)) /\ UNCHANGED storageVars
  <2>1. AllServers(FALSE, NoServers) \in Results("all")
    BY DEF AllServers, NoServers, Results, ServerMaps
  <2> QED
    BY <1>1, <1>3, <2>1, GiveUpKeepsIInv
<1> QED
  BY <1>2, <1>3 DEF GetAllExternalServers

\* Where a call of the storage is answered, and what it was.
LEMMA AnsweredCall ==
  ASSUME IInv, NEW t \in Threads, pc[t] \in {"stored", "rebuild", "collect"}, Storage!Reply(t)
  PROVE  /\ phase[t] = "answered" /\ call[t] \in Calls
         /\ pc[t] = "stored" => call[t].op = "add" /\ answer[t] \in Answered("add")
         /\ pc[t] = "rebuild" => /\ call[t].op \in {"get", "remove"}
                                 /\ answer[t] \in Answered("get")
         /\ pc[t] = "collect" => call[t].op = "all" /\ answer[t] \in Answered("iterate")
<1>1. CallInv(t) /\ AskInv(t) /\ AnswerInv(t) /\ phase[t] = "answered"
  BY DEF Storage!Reply, IInv, ThreadInv
<1>2. call[t] \in Calls /\ ask[t] = StoreRequest(call[t]) /\ answer[t] \in Answered(ask[t].op)
  BY <1>1 DEF CallInv, AskInv, AnswerInv
<1>3. Answered("get") = Answered("remove")
  BY DEF Answered
<1> QED
  BY <1>1, <1>2, <1>3, StoreRequests DEF CallInv

LEMMA StoredKeepsIInv ==
  ASSUME IInv, NEW t \in Threads, Stored(t)
  PROVE  IInv'
<1>1. call[t] \in Calls /\ call[t].op = "add"
  BY AnsweredCall DEF Stored
<1>2. (IF answer[t].result THEN 0 ELSE -1) \in Results(call[t].op)
  BY <1>1 DEF Results
<1> QED
  BY <1>1, <1>2, ReplyKeepsIInv DEF Stored

\* A text gives the server that it is of, if the one who reads it and the one who
\* wrote it agree on the format.
LEMMA ReadBack ==
  ASSUME fallible \in BOOLEAN, NEW text \in Texts, NEW format
  PROVE  \A server \in ReadAs(text, format) :
           /\ server \in Servers \cup {NULL}
           /\ text.format = format => server = text.server \/ (server = NULL /\ fallible)
<1> DEFINE faults == IF fallible THEN ServerFaults \cap {"rebuild"} ELSE {}
<1> SUFFICES ASSUME NEW server \in ReadAs(text, format)
             PROVE  /\ server \in Servers \cup {NULL}
                    /\ text.format = format =>
                         server = text.server \/ (server = NULL /\ fallible)
  OBVIOUS
<1>1. text.server \in Servers
  BY DEF Texts
<1>2. \/ server \in IF text.format = format THEN {text.server} ELSE {NULL}
      \/ server \in {NULL : fault \in faults}
  BY Zenon DEF ReadAs
<1>3. CASE server \in {NULL : fault \in faults}
  <2>1. PICK fault \in faults : server = NULL
    BY <1>3, Zenon
  <2> QED
    BY <2>1
<1>4. CASE server \in IF text.format = format THEN {text.server} ELSE {NULL}
  BY <1>1, <1>4
<1> QED
  BY <1>2, <1>3, <1>4

LEMMA RebuildKeepsIInv ==
  ASSUME IInv, NEW t \in Threads, Rebuild(t)
  PROVE  IInv'
<1>1. call[t] \in Calls /\ call[t].op \in {"get", "remove"} /\ answer[t] \in Answered("get")
  BY AnsweredCall DEF Rebuild
<1>2. answer[t].result \in MaybeTexts
  BY <1>1 DEF Answered
<1>3. PICK server \in IF answer[t].result = NULL THEN {NULL}
                      ELSE ReadAs(answer[t].result, call[t].format) : Returns(t, server)
  BY DEF Rebuild
<1>4. server \in Servers \cup {NULL}
  BY <1>2, <1>3, ReadBack DEF IInv, Shape, MaybeTexts
<1>5. server \in Results(call[t].op)
  BY <1>1, <1>4 DEF Results
<1> QED
  BY <1>1, <1>3, <1>5, ReplyKeepsIInv DEF Rebuild

LEMMA CollectKeepsIInv ==
  ASSUME IInv, NEW t \in Threads, Collect(t)
  PROVE  IInv'
<1>1. call[t] \in Calls /\ call[t].op = "all" /\ answer[t] \in Answered("iterate")
  BY AnsweredCall DEF Collect
<1>2. answer[t].result \in BOOLEAN
  BY <1>1 DEF Answered
<1>3. PICK servers \in Listed(answer[t].entries) :
        Returns(t, AllServers(answer[t].result, servers))
  BY DEF Collect
<1>4. AllServers(answer[t].result, servers) \in Results("all")
  BY <1>2, <1>3 DEF Listed, AllServers, Results, ServerMaps
<1> QED
  BY <1>1, <1>3, <1>4, ReplyKeepsIInv DEF Collect

LEMMA SubMapsTyped ==
  ASSUME NEW m \in TextMaps, NEW s \in Storage!SubMaps(m)
  PROVE  s \in TextMaps
<1>1. PICK kept \in SUBSET Uris : s = [k \in Uris |-> IF k \in kept THEN m[k] ELSE NULL]
  BY DEF Storage!SubMaps
<1> QED
  BY <1>1 DEF TextMaps, MaybeTexts

\* What the storage answers, with or without a fault, and what it then holds.
LEMMA StorageAnswers ==
  ASSUME contents \in TextMaps, NEW t \in Threads, ask[t] \in StorageRequests,
         Storage!Serve(t) \/ Storage!ServeFaulty(t)
  PROVE  /\ phase[t] = "asked" /\ phase' = [phase EXCEPT ![t] = "answered"]
         /\ ask' = ask /\ fallible' = fallible /\ contents' \in TextMaps
         /\ \E a \in Answered(ask[t].op) : answer' = [answer EXCEPT ![t] = a]
<1> DEFINE k == ask[t].key
           Said(r, e) == answer' = [answer EXCEPT ![t] = [result |-> r, entries |-> e]]
           Answering == \E a \in Answered(ask[t].op) : answer' = [answer EXCEPT ![t] = a]
<1>1. /\ phase[t] = "asked" /\ phase' = [phase EXCEPT ![t] = "answered"]
      /\ ask' = ask /\ fallible' = fallible
  BY DEF Storage!Serve, Storage!ServeFaulty
<1>2. Storage!Nothing = NoServers
  BY DEF Storage!Nothing, NoServers
<1>3. \/ Storage!ServeAdd(t) \/ Storage!ServeGet(t) \/ Storage!ServeRemove(t)
      \/ Storage!ServeIterate(t) \/ Storage!ServeRemoveFaulty(t)
      \/ Storage!ServeIterateFaulty(t)
  BY DEF Storage!Serve, Storage!ServeFaulty
<1>4. CASE Storage!ServeAdd(t)
  <2>1. ask[t].op = "add" /\ k \in Uris /\ ask[t].value \in MaybeTexts
    BY <1>4, RequestFields DEF Storage!ServeAdd, MaybeTexts
  <2>2. PICK r \in BOOLEAN : Said(r, NoServers)
    BY <1>2, <1>4 DEF Storage!ServeAdd, Storage!Answers
  <2>3. [result |-> r, entries |-> NoServers] \in Answered(ask[t].op)
    BY <2>1 DEF Answered
  <2>4. \/ \E kept \in Storage!SubMaps(contents) :
             contents' = [kept EXCEPT ![k] = ask[t].value]
        \/ contents' \in {contents, [contents EXCEPT ![k] = NULL]}
    BY <1>4 DEF Storage!ServeAdd
  <2>5. contents' \in TextMaps
    BY <2>1, <2>4, SubMapsTyped DEF TextMaps, MaybeTexts
  <2> QED
    BY <1>1, <2>2, <2>3, <2>5
<1>5. CASE Storage!ServeGet(t)
  <2>1. ask[t].op = "get" /\ k \in Uris /\ contents' = contents
    BY <1>5, RequestFields DEF Storage!ServeGet
  <2>2. PICK r \in MaybeTexts : Said(r, NoServers)
    BY <1>2, <1>5, <2>1 DEF Storage!ServeGet, Storage!Answers, TextMaps, MaybeTexts
  <2>3. [result |-> r, entries |-> NoServers] \in Answered(ask[t].op)
    BY <2>1 DEF Answered
  <2> QED
    BY <1>1, <2>1, <2>2, <2>3
<1>6. CASE Storage!ServeRemove(t) \/ Storage!ServeRemoveFaulty(t)
  <2>1. ask[t].op = "remove" /\ k \in Uris
    BY <1>6, RequestFields DEF Storage!ServeRemove, Storage!ServeRemoveFaulty
  <2>2. PICK r \in MaybeTexts : Said(r, NoServers)
    BY <1>2, <1>6, <2>1
    DEF Storage!ServeRemove, Storage!ServeRemoveFaulty, Storage!Answers, TextMaps, MaybeTexts
  <2>3. [result |-> r, entries |-> NoServers] \in Answered(ask[t].op)
    BY <2>1 DEF Answered
  <2>4. contents' \in {contents, [contents EXCEPT ![k] = NULL]}
    BY <1>6 DEF Storage!ServeRemove, Storage!ServeRemoveFaulty
  <2>5. contents' \in TextMaps
    BY <2>1, <2>4 DEF TextMaps, MaybeTexts
  <2> QED
    BY <1>1, <2>2, <2>3, <2>5
<1>7. CASE Storage!ServeIterate(t) \/ Storage!ServeIterateFaulty(t)
  <2>1. ask[t].op = "iterate" /\ contents' = contents
    BY <1>7 DEF Storage!ServeIterate, Storage!ServeIterateFaulty
  <2>2. NoServers \in TextMaps
    BY DEF NoServers, TextMaps, MaybeTexts
  <2>3. PICK r \in BOOLEAN, e \in TextMaps : Said(r, e)
    BY <1>2, <1>7, <2>2, SubMapsTyped
    DEF Storage!ServeIterate, Storage!ServeIterateFaulty, Storage!Answers
  <2>4. [result |-> r, entries |-> e] \in Answered(ask[t].op)
    BY <2>1 DEF Answered
  <2> QED
    BY <1>1, <2>1, <2>3, <2>4
<1> QED
  BY <1>3, <1>4, <1>5, <1>6, <1>7

LEMMA ServeKeepsIInv ==
  ASSUME IInv, NEW t \in Threads, StorageServes(t)
  PROVE  IInv'
<1>1. ThreadInv(t) /\ contents \in TextMaps
  BY DEF IInv, Shape
<1>2. phase[t] = "asked" /\ UNCHANGED <<pc, call, result>>
  BY DEF StorageServes, Storage!Serve, Storage!ServeFaulty
<1>3. pc[t] \in {"stored", "rebuild", "collect"} /\ ask[t] \in StorageRequests
  <2>1. pc[t] \in {"stored", "rebuild", "collect"}
    BY <1>1, <1>2 DEF ThreadInv, AskInv, IInv, Shape, Steps
  <2>2. call[t] \in Calls /\ ask[t] = StoreRequest(call[t])
    BY <1>1, <2>1 DEF ThreadInv, CallInv, AskInv
  <2> QED
    BY <2>1, <2>2, StoreRequests
<1>4. /\ phase' = [phase EXCEPT ![t] = "answered"] /\ ask' = ask
      /\ fallible' = fallible /\ contents' \in TextMaps
  BY <1>1, <1>3, StorageAnswers DEF StorageServes
<1>5. PICK a \in Answered(ask[t].op) : answer' = [answer EXCEPT ![t] = a]
  BY <1>1, <1>3, StorageAnswers DEF StorageServes
<1>6. Shape'
  BY <1>2, <1>4, <1>5 DEF IInv, Shape
<1>7. phase'[t] = "answered" /\ answer'[t] = a /\ ask'[t] = ask[t]
  BY <1>4, <1>5 DEF IInv, Shape
<1>8. Answered(ask[t].op)' = Answered(ask[t].op)
  BY <1>4
<1>9. ThreadInv(t)'
  BY <1>1, <1>2, <1>3, <1>7, <1>8
  DEF ThreadInv, CallInv, AskInv, AnswerInv, ResultInv, StoreRequest
<1> QED
  BY <1>2, <1>4, <1>5, <1>6, <1>9, OneThread DEF IInv, Shape

\* The thread is through with its call, or its process has been killed.
LEMMA EndKeepsIInv ==
  ASSUME IInv, NEW t \in Threads, Return(t) \/ Crash(t)
  PROVE  IInv'
<1> USE DEF Goto
<1>1. ThreadInv(t)
  BY DEF IInv
<1>2. /\ pc' = [pc EXCEPT ![t] = "idle"] /\ call' = [call EXCEPT ![t] = NoCall]
      /\ result' = [result EXCEPT ![t] = NULL]
      /\ contents' = contents /\ fallible' = fallible
  BY DEF Return, Crash, Storage!Abandon, storageVars
<1>3. \/ UNCHANGED <<phase, ask, answer>> /\ phase[t] = "idle"
      \/ /\ phase' = [phase EXCEPT ![t] = "idle"] /\ ask' = [ask EXCEPT ![t] = NoRequest]
         /\ answer' = [answer EXCEPT ![t] = Storage!NoAnswer]
  BY <1>1 DEF Return, Crash, Storage!Abandon, storageVars, ThreadInv, AskInv
<1>4. Shape'
  BY <1>2, <1>3 DEF IInv, Shape, Steps
<1>5. /\ pc'[t] = "idle" /\ call'[t] = NoCall /\ result'[t] = NULL /\ phase'[t] = "idle"
      /\ ask'[t] = NoRequest /\ answer'[t] = Storage!NoAnswer
  <2>1. pc'[t] = "idle" /\ call'[t] = NoCall /\ result'[t] = NULL
    BY <1>2 DEF IInv, Shape
  <2>2. CASE UNCHANGED <<phase, ask, answer>> /\ phase[t] = "idle"
    <3>1. pc[t] \notin {"stored", "rebuild", "collect"}
      BY <1>1, <2>2 DEF ThreadInv, AskInv
    <3>2. ask[t] = NoRequest /\ answer[t] = Storage!NoAnswer
      BY <1>1, <2>2, <3>1 DEF ThreadInv, AskInv, AnswerInv, IInv, Shape, Steps
    <3> QED
      BY <2>1, <2>2, <3>2
  <2>3. CASE /\ phase' = [phase EXCEPT ![t] = "idle"] /\ ask' = [ask EXCEPT ![t] = NoRequest]
             /\ answer' = [answer EXCEPT ![t] = Storage!NoAnswer]
    BY <2>1, <2>3 DEF IInv, Shape
  <2> QED
    BY <1>3, <2>2, <2>3
<1>6. ThreadInv(t)'
  BY <1>5 DEF ThreadInv, CallInv, AskInv, AnswerInv, ResultInv, Storage!NoAnswer, Storage!Nothing
<1> QED
  BY <1>2, <1>3, <1>4, <1>6, OneThread DEF IInv, Shape

LEMMA NextKeepsIInv == IInv /\ [Next]_vars => IInv'
<1> SUFFICES ASSUME IInv, [Next]_vars PROVE IInv'
  OBVIOUS
<1>1. CASE UNCHANGED vars
  <2>1. Shape'
    BY <1>1 DEF IInv, Shape, vars
  <2>2. ASSUME NEW t \in Threads PROVE ThreadInv(t)'
    BY <1>1 DEF IInv, vars, ThreadInv, CallInv, AskInv, AnswerInv, ResultInv,
                Storage!NoAnswer, Storage!Nothing, StoreRequest
  <2> QED
    BY <2>1, <2>2 DEF IInv
<1>2. ASSUME NEW t \in Threads, NEW m \in Calls, Call(t, m) PROVE IInv'
  BY <1>2, CallKeepsIInv
<1>3. ASSUME NEW t \in Threads, Proceed(t) \/ Crash(t) PROVE IInv'
  BY <1>3, AddKeepsIInv, StoredKeepsIInv, QueryKeepsIInv, RebuildKeepsIInv, GetAllKeepsIInv,
     CollectKeepsIInv, ServeKeepsIInv, EndKeepsIInv DEF Proceed
<1> QED
  BY <1>1, <1>2, <1>3 DEF Next

LEMMA Invariance == Spec => []IInv
BY InitIInv, NextKeepsIInv, PTL DEF Spec

\* Each thread is at a known step with a call, a request and a result of the kinds
\* that belong to that step: an Add never returns a server, nor a Get a status.
THEOREM TypeCorrect == Spec => []TypeOK
<1>1. IInv => TypeOK
  <2> SUFFICES ASSUME IInv PROVE TypeOK
    OBVIOUS
  <2>1. ASSUME NEW t \in Threads
        PROVE  /\ pc[t] # "done" => result[t] = NULL
               /\ pc[t] = "done" =>
                    CASE call[t].op = "add" -> result[t] \in {0, -1}
                      [] call[t].op = "all" -> result[t].servers \in [Uris -> Servers \cup {NULL}]
                      [] OTHER -> result[t] \in Servers \cup {NULL}
    <3>1. ResultInv(t)
      BY DEF IInv, ThreadInv
    <3>2. CASE pc[t] = "done" /\ call[t].op = "all"
      BY <3>1, <3>2 DEF ResultInv, Results, ServerMaps
    <3>3. CASE pc[t] = "done" /\ call[t].op # "all"
      BY <3>1, <3>3 DEF ResultInv, Results
    <3>4. CASE pc[t] # "done"
      BY <3>1, <3>4 DEF ResultInv
    <3> QED
      BY <3>2, <3>3, <3>4
  <2> QED
    BY <2>1 DEF IInv, Shape, TypeOK, TextMaps, MaybeTexts
<1> QED
  BY <1>1, Invariance, PTL

-----------------------------------------------------------------------------
(* The manager implements its registry of servers.                           *)
ContentsBar == ServersOf(contents)
PhaseBar == [t \in Threads |-> CallPhase(t)]
AskBar == [t \in Threads |-> ServerRequest(call[t])]
AnswerBar == [t \in Threads |-> ServerAnswer(t)]
RVars == <<ContentsBar, PhaseBar, AskBar, AnswerBar, fallible>>
RegistryRequests == [op: {"add"}, key: Uris, value: Servers]
                      \cup [op: {"get", "remove"}, key: Uris, value: {NULL}]
                      \cup [op: {"iterate"}, key: {NULL}, value: {NULL}]

Untouched(u) == /\ pc'[u] = pc[u] /\ call'[u] = call[u] /\ result'[u] = result[u]
                /\ phase'[u] = phase[u] /\ answer'[u] = answer[u]

LEMMA ServerRequests ==
  ASSUME NEW m \in Calls
  PROVE  /\ ServerRequest(m) \in RegistryRequests
         /\ m.op = "add" => ServerRequest(m) = [op |-> "add", key |-> m.uri, value |-> m.server]
         /\ m.op \in {"get", "remove"} =>
              ServerRequest(m) = [op |-> m.op, key |-> m.uri, value |-> NULL]
         /\ m.op = "all" => ServerRequest(m) = [op |-> "iterate", key |-> NULL, value |-> NULL]
<1>1. /\ m.op = "add" => ServerRequest(m) = [op |-> "add", key |-> m.uri, value |-> m.server]
      /\ m.op \in {"get", "remove"} =>
           ServerRequest(m) = [op |-> m.op, key |-> m.uri, value |-> NULL]
      /\ m.op = "all" => ServerRequest(m) = [op |-> "iterate", key |-> NULL, value |-> NULL]
  BY DEF ServerRequest
<1>2. ServerRequest(m) \in RegistryRequests
  BY <1>1, CallFields DEF RegistryRequests
<1> QED
  BY <1>1, <1>2

\* What the servers are of an entry that is put in or taken out, and of a part of a map.
LEMMA ServersOfMaps ==
  /\ ServersOf(NoServers) = Registry!Nothing /\ NoServers = Registry!Nothing
  /\ Storage!Nothing = NoServers
  /\ \A m \in TextMaps, u \in Uris, text \in MaybeTexts :
       /\ ServersOf(m)[u] = ServerOf(m[u])
       /\ ServersOf([m EXCEPT ![u] = text]) = [ServersOf(m) EXCEPT ![u] = ServerOf(text)]
  /\ \A m \in TextMaps : \A s \in Storage!SubMaps(m) :
       ServersOf(s) \in Registry!SubMaps(ServersOf(m))
<1> USE DEF ServersOf, ServerOf
<1>1. /\ ServersOf(NoServers) = Registry!Nothing /\ NoServers = Registry!Nothing
      /\ Storage!Nothing = NoServers
  BY DEF NoServers, Registry!Nothing, Storage!Nothing
<1>2. ASSUME NEW m \in TextMaps, NEW u \in Uris, NEW text \in MaybeTexts
      PROVE  /\ ServersOf(m)[u] = ServerOf(m[u])
             /\ ServersOf([m EXCEPT ![u] = text]) = [ServersOf(m) EXCEPT ![u] = ServerOf(text)]
  BY DEF TextMaps
<1>3. ASSUME NEW m \in TextMaps, NEW s \in Storage!SubMaps(m)
      PROVE  ServersOf(s) \in Registry!SubMaps(ServersOf(m))
  <2>1. PICK kept \in SUBSET Uris : s = [k \in Uris |-> IF k \in kept THEN m[k] ELSE NULL]
    BY <1>3 DEF Storage!SubMaps
  <2>2. ServersOf(s) = [k \in Uris |-> IF k \in kept THEN ServersOf(m)[k] ELSE NULL]
    BY <2>1
  <2> QED
    BY <2>2 DEF Registry!SubMaps
<1> QED
  BY <1>1, <1>2, <1>3

LEMMA NothingShown ==
  ASSUME NEW m
  PROVE  Registry!Nothing \in Registry!SubMaps(m)
<1>1. Registry!Nothing = [k \in Uris |-> IF k \in {} THEN m[k] ELSE NULL]
  BY DEF Registry!Nothing
<1> SUFFICES \E kept \in SUBSET Uris :
               Registry!Nothing = [k \in Uris |-> IF k \in kept THEN m[k] ELSE NULL]
  BY DEF Registry!SubMaps
<1> WITNESS {} \in SUBSET Uris
<1> QED
  BY <1>1

\* A step of one thread is a step of its call in the registry alone.
LEMMA StepOfOne ==
  ASSUME NEW t \in Threads, \A u \in Threads \ {t} : Untouched(u)
  PROVE  /\ PhaseBar' = [PhaseBar EXCEPT ![t] = CallPhase(t)']
         /\ AskBar' = [AskBar EXCEPT ![t] = ServerRequest(call[t])']
         /\ AnswerBar' = [AnswerBar EXCEPT ![t] = ServerAnswer(t)']
<1>1. ASSUME NEW u \in Threads \ {t} PROVE CallPhase(u)' = CallPhase(u)
  BY DEF Untouched, CallPhase, Waiting
<1>2. ASSUME NEW u \in Threads \ {t} PROVE ServerRequest(call[u])' = ServerRequest(call[u])
  BY DEF Untouched, ServerRequest
<1>3. ASSUME NEW u \in Threads \ {t} PROVE ServerAnswer(u)' = ServerAnswer(u)
  BY DEF Untouched, ServerAnswer, Waiting, NoServers, ServerOf, ServersOf
<1> QED
  BY <1>1, <1>2, <1>3 DEF PhaseBar, AskBar, AnswerBar

LEMMA HiddenStep ==
  ASSUME NEW t \in Threads, \A u \in Threads \ {t} : Untouched(u),
         CallPhase(t)' = CallPhase(t), call'[t] = call[t], ServerAnswer(t)' = ServerAnswer(t),
         UNCHANGED <<contents, fallible>>
  PROVE  UNCHANGED RVars
<1>1. ServerRequest(call[t])' = ServerRequest(call[t])
  BY DEF ServerRequest
<1>2. ContentsBar' = ContentsBar
  BY DEF ContentsBar, ServersOf, ServerOf
<1> QED
  BY <1>1, <1>2, StepOfOne DEF RVars, PhaseBar, AskBar, AnswerBar

LEMMA InitMaps == Init => Registry!Init
<1> SUFFICES ASSUME Init PROVE Registry!Init
  OBVIOUS
<1>1. ServersOf(contents) = Registry!Nothing
  BY ServersOfMaps DEF Init, Storage!Init
<1> QED
  BY <1>1 DEF Init, Registry!Init, Storage!Init, CallPhase, ServerAnswer, ServerRequest, NoCall,
       Registry!Nothing, Registry!NoAnswer, NoServers

LEMMA CallMaps ==
  ASSUME IInv, NEW t \in Threads, NEW m \in Calls, Call(t, m)
  PROVE  \E r \in RegistryRequests : Registry!Ask(t, r)
<1> USE DEF Goto, storageVars
<1>1. /\ pc[t] = "idle" /\ call'[t] = m /\ UNCHANGED <<storageVars, result>>
      /\ pc'[t] \in {"serialise", "list", "query"}
  BY DEF Call, IInv, Shape
<1>2. \A u \in Threads \ {t} : Untouched(u)
  BY DEF Call, Untouched, IInv, Shape
<1>3. CallPhase(t) = "idle" /\ CallPhase(t)' = "asked"
  BY <1>1 DEF CallPhase, Waiting
<1>4. ServerAnswer(t)' = ServerAnswer(t)
  BY <1>1 DEF ServerAnswer, Waiting, NoServers
<1>5. ServerRequest(call[t])' = ServerRequest(m)
  BY <1>1 DEF ServerRequest
<1>6. ServersOf(contents)' = ServersOf(contents)
  BY <1>1 DEF ServersOf, ServerOf
<1>7. Registry!Ask(t, ServerRequest(m))
  BY <1>1, <1>2, <1>3, <1>4, <1>5, <1>6, StepOfOne
  DEF Registry!Ask, PhaseBar, AskBar, AnswerBar
<1> QED
  BY <1>7, ServerRequests

\* The call asks the storage for what was asked of it.
LEMMA AskHides ==
  ASSUME IInv, NEW t \in Threads, NEW r, Storage!Ask(t, r),
         NEW s \in {"stored", "rebuild", "collect"}, pc' = [pc EXCEPT ![t] = s],
         UNCHANGED <<call, result>>, pc[t] \in {"serialise", "query", "list"}
  PROVE  UNCHANGED RVars
<1>1. pc'[t] = s /\ phase'[t] = "asked" /\ UNCHANGED <<contents, fallible, answer>>
  BY DEF Storage!Ask, IInv, Shape
<1>2. \A u \in Threads \ {t} : Untouched(u)
  BY <1>1 DEF Storage!Ask, Untouched, IInv, Shape
<1>3. CallPhase(t)' = CallPhase(t)
  BY <1>1 DEF CallPhase, Waiting
<1>4. ServerAnswer(t)' = ServerAnswer(t)
  BY <1>1 DEF ServerAnswer, Waiting, NoServers
<1> QED
  BY <1>1, <1>2, <1>3, <1>4, HiddenStep

LEMMA AddMaps ==
  ASSUME IInv, NEW t \in Threads, AddExternalServer(t)
  PROVE  Registry!Serve(t) \/ UNCHANGED RVars
<1>1. pc[t] = "serialise" /\ call[t] \in Calls /\ call[t].op = "add" /\ call' = call
  BY DEF AddExternalServer, IInv, ThreadInv, CallInv
<1>2. CASE /\ Storage!Ask(t, [op |-> "add", key |-> call[t].uri,
                              value |-> TextOf(call[t].server, call[t].format)])
           /\ Goto(t, "stored") /\ UNCHANGED result
  BY <1>1, <1>2, AskHides DEF Goto
<1>3. CASE Returns(t, -1) /\ UNCHANGED storageVars
  <2>1. /\ pc'[t] = "done" /\ result'[t] = -1 /\ UNCHANGED <<contents, phase, answer, fallible>>
        /\ \A u \in Threads \ {t} : Untouched(u)
    BY <1>1, <1>3 DEF Returns, Goto, storageVars, Untouched, IInv, Shape
  <2>2. CallPhase(t) = "asked" /\ CallPhase(t)' = "answered"
    BY <1>1, <2>1 DEF CallPhase, Waiting
  <2>3. ServerAnswer(t)' = [result |-> FALSE, entries |-> Registry!Nothing]
    <3>1. ServerAnswer(t)' = [result |-> result'[t] = 0, entries |-> NoServers]
      BY <1>1, <2>1 DEF ServerAnswer, Waiting, NoServers
    <3>2. (result'[t] = 0) = FALSE
      BY <2>1
    <3> QED
      BY <3>1, <3>2, ServersOfMaps
  <2>4. AskBar' = AskBar /\ AskBar[t].op = "add"
    BY <1>1, ServerRequests DEF AskBar, ServerRequest
  <2>5. ServersOf(contents)' = ServersOf(contents)
    BY <2>1 DEF ServersOf, ServerOf
  <2>6. Registry!ServeAdd(t)
    BY <2>1, <2>3, <2>4, <2>5, StepOfOne DEF Registry!ServeAdd, Registry!Answers, AskBar, AnswerBar
  <2> QED
    BY <2>1, <2>2, <2>4, <2>6, StepOfOne DEF Registry!Serve, PhaseBar, AskBar
<1> QED
  BY <1>2, <1>3 DEF AddExternalServer

LEMMA QueryMaps ==
  ASSUME IInv, NEW t \in Threads, QueryExternalServer(t)
  PROVE  UNCHANGED RVars
BY AskHides DEF QueryExternalServer, Goto

LEMMA GetAllMaps ==
  ASSUME IInv, NEW t \in Threads, GetAllExternalServers(t)
  PROVE  Registry!Serve(t) \/ UNCHANGED RVars
<1>1. pc[t] = "list" /\ call[t] \in Calls /\ call[t].op = "all" /\ call' = call
  BY DEF GetAllExternalServers, IInv, ThreadInv, CallInv
<1>2. CASE /\ Storage!Ask(t, [op |-> "iterate", key |-> NULL, value |-> NULL])
           /\ Goto(t, "collect") /\ UNCHANGED result
  BY <1>1, <1>2, AskHides DEF Goto
<1>3. CASE fallible /\ Returns(t, AllServers(FALSE, NoServers)) /\ UNCHANGED storageVars
  <2>1. /\ pc'[t] = "done" /\ result'[t] = AllServers(FALSE, NoServers)
        /\ UNCHANGED <<contents, phase, answer, fallible>>
        /\ \A u \in Threads \ {t} : Untouched(u)
    BY <1>1, <1>3 DEF Returns, Goto, storageVars, Untouched, IInv, Shape
  <2>2. CallPhase(t) = "asked" /\ CallPhase(t)' = "answered"
    BY <1>1, <2>1 DEF CallPhase, Waiting
  <2>3. ServerAnswer(t)' = [result |-> FALSE, entries |-> Registry!Nothing]
    <3>1. ServerAnswer(t)' = [result |-> FALSE, entries |-> NoServers]
      BY <1>1, <2>1 DEF ServerAnswer, Waiting, AllServers
    <3> QED
      BY <3>1, ServersOfMaps
  <2>4. AskBar' = AskBar /\ AskBar[t].op = "iterate"
    BY <1>1, ServerRequests DEF AskBar, ServerRequest
  <2>5. Registry!Nothing \in Registry!SubMaps(ServersOf(contents))
    BY NothingShown
  <2>6. ServersOf(contents)' = ServersOf(contents)
    BY <2>1 DEF ServersOf, ServerOf
  <2>7. Registry!ServeIterate(t)
    BY <1>3, <2>1, <2>3, <2>4, <2>5, <2>6, StepOfOne
    DEF Registry!ServeIterate, Registry!Answers, AskBar, AnswerBar
  <2> QED
    BY <2>1, <2>2, <2>4, <2>7, StepOfOne DEF Registry!Serve, PhaseBar, AskBar
<1> QED
  BY <1>2, <1>3 DEF GetAllExternalServers

\* What an answered call of the storage is an answer of the registry to.
LEMMA AnswerShown ==
  ASSUME NEW t \in Threads, pc[t] \in {"stored", "rebuild", "collect"}, phase[t] = "answered"
  PROVE  /\ CallPhase(t) = "answered"
         /\ ServerAnswer(t) = [result |-> IF call[t].op \in {"get", "remove"}
                                          THEN ServerOf(answer[t].result) ELSE answer[t].result,
                               entries |-> ServersOf(answer[t].entries)]
BY DEF CallPhase, Waiting, ServerAnswer

LEMMA ReplyMoves ==
  ASSUME IInv, NEW t \in Threads, Storage!Reply(t), UNCHANGED call, NEW r, Returns(t, r),
         pc[t] \in {"stored", "rebuild", "collect"}
  PROVE  /\ pc'[t] = "done" /\ result'[t] = r /\ call'[t] = call[t]
         /\ UNCHANGED <<contents, fallible>> /\ \A u \in Threads \ {t} : Untouched(u)
         /\ CallPhase(t) = "answered" /\ CallPhase(t)' = "answered" /\ phase[t] = "answered"
<1> USE DEF Returns, Goto
<1>1. phase[t] = "answered" /\ pc'[t] = "done" /\ result'[t] = r
  BY DEF Storage!Reply, IInv, Shape
<1>2. UNCHANGED <<contents, fallible>> /\ \A u \in Threads \ {t} : Untouched(u)
  BY DEF Storage!Reply, Untouched, IInv, Shape
<1> QED
  BY <1>1, <1>2 DEF CallPhase, Waiting

LEMMA StoredMaps ==
  ASSUME IInv, NEW t \in Threads, Stored(t)
  PROVE  UNCHANGED RVars
<1> DEFINE status == IF answer[t].result THEN 0 ELSE -1
<1>1. pc[t] = "stored" /\ call[t].op = "add" /\ answer[t] \in Answered("add")
  BY AnsweredCall DEF Stored
<1>2. answer[t].result \in BOOLEAN /\ answer[t].entries = NoServers
  BY <1>1 DEF Answered
<1>3. /\ pc'[t] = "done" /\ result'[t] = status /\ call'[t] = call[t]
      /\ UNCHANGED <<contents, fallible>> /\ \A u \in Threads \ {t} : Untouched(u)
      /\ CallPhase(t)' = CallPhase(t) /\ phase[t] = "answered"
  BY <1>1, ReplyMoves DEF Stored
<1>4. ServerAnswer(t) = [result |-> answer[t].result, entries |-> NoServers]
  BY <1>1, <1>2, <1>3, AnswerShown, ServersOfMaps
<1>5. ServerAnswer(t)' = [result |-> result'[t] = 0, entries |-> NoServers]
  BY <1>1, <1>3 DEF ServerAnswer, Waiting, NoServers
<1>6. (result'[t] = 0) = answer[t].result
  BY <1>2, <1>3
<1> QED
  BY <1>3, <1>4, <1>5, <1>6, HiddenStep

\* An answer that is passed on as it came, or lost as Lose has it.
LEMMA PassedOn ==
  ASSUME NEW t \in Threads, CallPhase(t) = "answered", CallPhase(t)' = "answered",
         call'[t] = call[t], UNCHANGED <<contents, fallible>>,
         \A u \in Threads \ {t} : Untouched(u),
         \/ ServerAnswer(t)' = ServerAnswer(t)
         \/ /\ fallible
            /\ \/ /\ ServerRequest(call[t]).op \in {"get", "remove"}
                  /\ ServerAnswer(t)' = [result |-> NULL, entries |-> Registry!Nothing]
               \/ /\ ServerRequest(call[t]).op = "iterate"
                  /\ \E shown \in Registry!SubMaps(ServerAnswer(t).entries) :
                       ServerAnswer(t)' = [result |-> ServerAnswer(t).result, entries |-> shown]
  PROVE  Registry!Lose(t) \/ UNCHANGED RVars
<1>1. CASE ServerAnswer(t)' = ServerAnswer(t)
  BY <1>1, HiddenStep
<1>2. CASE ServerAnswer(t)' # ServerAnswer(t)
  <2>1. ServerRequest(call[t])' = ServerRequest(call[t])
    BY DEF ServerRequest
  <2>2. PhaseBar' = PhaseBar /\ AskBar' = AskBar /\ PhaseBar[t] = "answered"
    BY <2>1, StepOfOne DEF PhaseBar, AskBar
  <2>3. /\ AnswerBar[t] = ServerAnswer(t)
        /\ AnswerBar' = [AnswerBar EXCEPT ![t] = ServerAnswer(t)']
        /\ AskBar[t] = ServerRequest(call[t])
    BY StepOfOne DEF AnswerBar, AskBar
  <2>4. ServersOf(contents)' = ServersOf(contents)
    BY DEF ServersOf, ServerOf
  <2>5. CASE /\ ServerRequest(call[t]).op \in {"get", "remove"}
             /\ ServerAnswer(t)' = [result |-> NULL, entries |-> Registry!Nothing]
    BY <1>2, <2>2, <2>3, <2>4, <2>5
    DEF Registry!Lose, Registry!Answers, PhaseBar, AskBar, AnswerBar
  <2>6. CASE /\ ServerRequest(call[t]).op = "iterate"
             /\ \E shown \in Registry!SubMaps(ServerAnswer(t).entries) :
                  ServerAnswer(t)' = [result |-> ServerAnswer(t).result, entries |-> shown]
    BY <1>2, <2>2, <2>3, <2>4, <2>6
    DEF Registry!Lose, Registry!Answers, PhaseBar, AskBar, AnswerBar
  <2> QED
    BY <1>2, <2>5, <2>6
<1> QED
  BY <1>1, <1>2

LEMMA JSONTexts ==
  ASSUME Formats = {"json"}, NEW text \in Texts
  PROVE  text.format = "json" /\ text.server \in Servers /\ text # NULL /\ text.server # NULL
BY ServersAssumption DEF Texts

LEMMA RebuildMaps ==
  ASSUME Formats = {"json"}, IInv, NEW t \in Threads, Rebuild(t)
  PROVE  Registry!Lose(t) \/ UNCHANGED RVars
<1> DEFINE text == answer[t].result
<1>1. /\ pc[t] = "rebuild" /\ call[t] \in Calls /\ call[t].op \in {"get", "remove"}
      /\ answer[t] \in Answered("get")
  BY AnsweredCall DEF Rebuild
<1>2. text \in MaybeTexts /\ answer[t].entries = NoServers
  BY <1>1 DEF Answered
<1>3. call[t].format = "json" /\ ServerRequest(call[t]).op \in {"get", "remove"}
  BY <1>1, CallFields, ServerRequests
<1>4. PICK server \in IF text = NULL THEN {NULL} ELSE ReadAs(text, call[t].format) :
        Returns(t, server)
  BY DEF Rebuild
<1>5. /\ pc'[t] = "done" /\ result'[t] = server /\ call'[t] = call[t]
      /\ UNCHANGED <<contents, fallible>> /\ \A u \in Threads \ {t} : Untouched(u)
      /\ CallPhase(t) = "answered" /\ CallPhase(t)' = "answered" /\ phase[t] = "answered"
  BY <1>1, <1>4, ReplyMoves DEF Rebuild
<1>6. ServerAnswer(t) = [result |-> ServerOf(text), entries |-> Registry!Nothing]
  BY <1>1, <1>2, <1>5, AnswerShown, ServersOfMaps
<1>7. ServerAnswer(t)' = [result |-> server, entries |-> Registry!Nothing]
  <2>1. ServerAnswer(t)' = [result |-> server, entries |-> NoServers]
    BY <1>1, <1>5 DEF ServerAnswer, Waiting, NoServers
  <2> QED
    BY <2>1, ServersOfMaps
<1>8. server = ServerOf(text) \/ (fallible /\ server = NULL)
  <2>1. CASE text = NULL
    BY <1>4, <2>1 DEF ServerOf
  <2>2. CASE text # NULL
    <3>1. text \in Texts
      BY <1>2, <2>2 DEF MaybeTexts
    <3> QED
      BY <1>3, <1>4, <2>2, <3>1, ReadBack, JSONTexts DEF ServerOf, IInv, Shape
  <2> QED
    BY <2>1, <2>2
<1> QED
  BY <1>3, <1>5, <1>6, <1>7, <1>8, PassedOn

\* A list of servers is a part of those that were shown, and all of them if nothing
\* can fail.
LEMMA ListedEntries ==
  ASSUME ~Compressing, Formats = {"json"}, fallible \in BOOLEAN, NEW entries \in TextMaps,
         NEW servers \in Listed(entries)
  PROVE  /\ servers \in Registry!SubMaps(ServersOf(entries))
         /\ ~fallible => servers = ServersOf(entries)
<1> DEFINE kept == {k \in Uris : servers[k] # NULL}
<1>1. servers \in [Uris -> Servers \cup {NULL}]
  BY DEF Listed
<1>2. ASSUME NEW k \in Uris
      PROVE  /\ servers[k] = IF k \in kept THEN ServersOf(entries)[k] ELSE NULL
             /\ ~fallible => servers[k] = ServersOf(entries)[k]
  <2>1. /\ servers[k] \in IF entries[k] = NULL THEN {NULL} ELSE ReadAs(entries[k], "json")
        /\ ServersOf(entries)[k] = ServerOf(entries[k])
    BY DEF Listed, ServersOf
  <2>2. CASE entries[k] = NULL
    BY <2>1, <2>2 DEF ServerOf
  <2>3. CASE entries[k] # NULL
    <3>1. entries[k] \in Texts
      BY <2>3 DEF TextMaps, MaybeTexts
    <3> QED
      BY <2>1, <2>3, <3>1, ReadBack, JSONTexts DEF ServerOf
  <2> QED
    BY <2>2, <2>3
<1>3. servers = [k \in Uris |-> IF k \in kept THEN ServersOf(entries)[k] ELSE NULL]
  BY <1>1, <1>2
<1>4. servers \in Registry!SubMaps(ServersOf(entries))
  BY <1>3 DEF Registry!SubMaps
<1>5. ~fallible => servers = ServersOf(entries)
  BY <1>1, <1>2 DEF ServersOf
<1> QED
  BY <1>4, <1>5

LEMMA CollectMaps ==
  ASSUME ~Compressing, Formats = {"json"}, IInv, NEW t \in Threads, Collect(t)
  PROVE  Registry!Lose(t) \/ UNCHANGED RVars
<1> DEFINE entries == answer[t].entries
<1>1. pc[t] = "collect" /\ call[t] \in Calls /\ call[t].op = "all" /\ answer[t] \in Answered("iterate")
  BY AnsweredCall DEF Collect
<1>2. entries \in TextMaps /\ ServerRequest(call[t]).op = "iterate"
  BY <1>1, ServerRequests DEF Answered
<1>3. PICK servers \in Listed(entries) : Returns(t, AllServers(answer[t].result, servers))
  BY DEF Collect
<1>4. /\ pc'[t] = "done" /\ result'[t] = AllServers(answer[t].result, servers)
      /\ call'[t] = call[t] /\ UNCHANGED <<contents, fallible>>
      /\ \A u \in Threads \ {t} : Untouched(u)
      /\ CallPhase(t) = "answered" /\ CallPhase(t)' = "answered" /\ phase[t] = "answered"
  BY <1>1, <1>3, ReplyMoves DEF Collect
<1>5. ServerAnswer(t) = [result |-> answer[t].result, entries |-> ServersOf(entries)]
  BY <1>1, <1>4, AnswerShown
<1>6. ServerAnswer(t)' = [result |-> answer[t].result, entries |-> servers]
  BY <1>1, <1>4 DEF ServerAnswer, Waiting, AllServers
<1>7. servers \in Registry!SubMaps(ServersOf(entries))
      /\ (~fallible => servers = ServersOf(entries))
  BY <1>2, <1>3, ListedEntries DEF IInv, Shape
<1>8. fallible \/ ServerAnswer(t)' = ServerAnswer(t)
  BY <1>5, <1>6, <1>7 DEF IInv, Shape
<1> QED
  BY <1>2, <1>4, <1>5, <1>6, <1>7, <1>8, PassedOn

\* The instant at which the storage serves a call is the one at which it takes effect.
LEMMA ServeMaps ==
  ASSUME IInv, NEW t \in Threads, StorageServes(t)
  PROVE  Registry!Serve(t) \/ Registry!ServeFaulty(t)
<1>1. ThreadInv(t) /\ contents \in TextMaps
  BY DEF IInv, Shape
<1>2. phase[t] = "asked" /\ UNCHANGED <<pc, call, result>>
  BY DEF StorageServes, Storage!Serve, Storage!ServeFaulty
<1>3. pc[t] \in {"stored", "rebuild", "collect"}
  BY <1>1, <1>2 DEF ThreadInv, AskInv, IInv, Shape, Steps
<1>4. /\ call[t] \in Calls /\ ask[t] = StoreRequest(call[t])
      /\ ask[t] \in StorageRequests
  BY <1>1, <1>3, StoreRequests DEF ThreadInv, CallInv, AskInv
<1>5. /\ phase' = [phase EXCEPT ![t] = "answered"] /\ UNCHANGED <<ask, fallible>>
      /\ \E a \in Answered(ask[t].op) : answer' = [answer EXCEPT ![t] = a]
  BY <1>1, <1>4, StorageAnswers DEF StorageServes
<1>6. \A u \in Threads \ {t} : Untouched(u)
  BY <1>2, <1>5 DEF Untouched, IInv, Shape
<1>7. /\ AskBar' = AskBar /\ AskBar[t].op = ask[t].op
      /\ ask[t].op \in {"add", "get", "remove"} => AskBar[t].key = ask[t].key
      /\ ask[t].op = "add" => AskBar[t].value = ask[t].value.server
      /\ ask[t].op \in {"get", "remove"} <=> call[t].op \in {"get", "remove"}
  <2>1. AskBar' = AskBar
    BY <1>2 DEF AskBar, ServerRequest
  <2>2. AskBar[t] = ServerRequest(call[t])
    BY DEF AskBar
  <2> QED
    BY <1>4, <2>1, <2>2, CallFields, StoreRequests, ServerRequests DEF TextOf
<1> DEFINE k == ask[t].key
<1>8. ask[t].op \in {"add", "get", "remove"} => k \in Uris
  BY <1>4, RequestFields
<1>9. /\ PhaseBar[t] = "asked" /\ PhaseBar' = [PhaseBar EXCEPT ![t] = "answered"]
  <2>1. CallPhase(t) = "asked" /\ CallPhase(t)' = "answered"
    BY <1>2, <1>3, <1>5 DEF CallPhase, Waiting, IInv, Shape
  <2> QED
    BY <1>6, <2>1, StepOfOne DEF PhaseBar
\* An answer of the storage, as its caller has it.
<1>10. ASSUME NEW r, NEW e, Storage!Answers(t, r, e)
       PROVE  Registry!Answers(t, IF ask[t].op \in {"get", "remove"} THEN ServerOf(r) ELSE r,
                               ServersOf(e))
  <2>1. answer'[t] = [result |-> r, entries |-> e] /\ pc'[t] = pc[t] /\ phase'[t] = "answered"
        /\ call'[t] = call[t]
    BY <1>2, <1>5, <1>10 DEF Storage!Answers, IInv, Shape
  <2>2. ServerAnswer(t)' = [result |-> IF call[t].op \in {"get", "remove"}
                                       THEN ServerOf(r) ELSE r,
                            entries |-> ServersOf(e)]
    BY <1>3, <2>1 DEF ServerAnswer, Waiting, ServerOf, ServersOf
  <2> QED
    BY <1>6, <1>7, <2>2, StepOfOne DEF Registry!Answers, AnswerBar
<1>11. ServersOf(contents)' = ServersOf(contents')
  BY DEF ServersOf, ServerOf
<1>12. CASE Storage!ServeAdd(t)
  <2>1. ask[t].op = "add" /\ k \in Uris /\ ask[t].value \in Texts
    BY <1>4, <1>12, RequestFields DEF Storage!ServeAdd
  <2>2. ask[t].value # NULL /\ ServerOf(ask[t].value) = ask[t].value.server
    BY <2>1, ServersAssumption DEF Texts, ServerOf
  <2>3. ASSUME /\ Storage!Answers(t, TRUE, Storage!Nothing)
               /\ \E kept \in Storage!SubMaps(contents) :
                    contents' = [kept EXCEPT ![k] = ask[t].value]
        PROVE  Registry!ServeAdd(t)
    <3>1. PICK kept \in Storage!SubMaps(contents) : contents' = [kept EXCEPT ![k] = ask[t].value]
      BY <2>3
    <3>4. kept \in TextMaps /\ ask[t].value \in MaybeTexts
      BY <1>1, <2>1, SubMapsTyped DEF MaybeTexts
    <3>5. ServersOf(kept) \in Registry!SubMaps(ServersOf(contents))
      BY <1>1, ServersOfMaps
    <3>6. ServersOf(contents') = [ServersOf(kept) EXCEPT ![k] = ask[t].value.server]
      <4>1. ServersOf([kept EXCEPT ![k] = ask[t].value]) =
              [ServersOf(kept) EXCEPT ![k] = ServerOf(ask[t].value)]
        BY <2>1, <3>4, ServersOfMaps
      <4> QED
        BY <2>2, <3>1, <4>1
    <3>2. \E s \in Registry!SubMaps(ServersOf(contents)) :
            ServersOf(contents)' = [s EXCEPT ![AskBar[t].key] = AskBar[t].value]
      BY <1>7, <1>11, <2>1, <3>5, <3>6
    <3>3. Registry!Answers(t, TRUE, Registry!Nothing)
      BY <1>10, <2>1, <2>3, ServersOfMaps
    <3> QED
      BY <1>7, <2>1, <3>2, <3>3 DEF Registry!ServeAdd, AskBar
  <2>4. ASSUME /\ Storage!Answers(t, FALSE, Storage!Nothing)
               /\ contents' \in {contents, [contents EXCEPT ![k] = NULL]}
        PROVE  Registry!ServeAdd(t)
    <3>1. ServersOf(contents)' \in
            {ServersOf(contents), [ServersOf(contents) EXCEPT ![AskBar[t].key] = NULL]}
      <4>1. ServersOf([contents EXCEPT ![k] = NULL]) = [ServersOf(contents) EXCEPT ![k] = NULL]
        BY <1>1, <2>1, ServersOfMaps DEF MaybeTexts, ServerOf
      <4> QED
        BY <1>7, <1>11, <2>1, <2>4, <4>1
    <3>2. Registry!Answers(t, FALSE, Registry!Nothing)
      BY <1>10, <2>1, <2>4, ServersOfMaps
    <3> QED
      BY <1>7, <2>1, <3>1, <3>2 DEF Registry!ServeAdd, AskBar
  <2>5. Registry!ServeAdd(t)
    <3>1. \/ /\ Storage!Answers(t, TRUE, Storage!Nothing)
             /\ \E kept \in Storage!SubMaps(contents) :
                  contents' = [kept EXCEPT ![k] = ask[t].value]
          \/ /\ Storage!Answers(t, FALSE, Storage!Nothing)
             /\ contents' \in {contents, [contents EXCEPT ![k] = NULL]}
      BY <1>12 DEF Storage!ServeAdd
    <3> QED
      BY <2>3, <2>4, <3>1
  <2> QED
    BY <1>5, <1>7, <1>9, <2>5 DEF Registry!Serve, PhaseBar, AskBar
<1>13. CASE Storage!ServeGet(t)
  <2>1. ask[t].op = "get" /\ k \in Uris /\ contents' = contents
    BY <1>8, <1>13 DEF Storage!ServeGet
  <2>2. \/ Registry!Answers(t, ServersOf(contents)[k], Registry!Nothing)
        \/ fallible /\ Registry!Answers(t, NULL, Registry!Nothing)
    BY <1>10, <1>13, <2>1, ServersOfMaps DEF Storage!ServeGet, ServersOf, ServerOf
  <2>3. Registry!ServeGet(t)
    BY <1>7, <1>11, <2>1, <2>2 DEF Registry!ServeGet, AskBar
  <2> QED
    BY <1>5, <1>7, <1>9, <2>3 DEF Registry!Serve, PhaseBar, AskBar
<1>14. CASE Storage!ServeRemove(t) \/ Storage!ServeRemoveFaulty(t)
  <2>1. ask[t].op = "remove" /\ k \in Uris
    BY <1>8, <1>14 DEF Storage!ServeRemove, Storage!ServeRemoveFaulty
  <2>2. ServersOf([contents EXCEPT ![k] = NULL]) = [ServersOf(contents) EXCEPT ![k] = NULL]
        /\ ServersOf(contents)[k] = ServerOf(contents[k]) /\ ServerOf(NULL) = NULL
    BY <1>1, <2>1, ServersOfMaps DEF MaybeTexts, ServerOf
  <2>3. \A r : Storage!Answers(t, r, Storage!Nothing) =>
                 Registry!Answers(t, ServerOf(r), Registry!Nothing)
    BY <1>10, <2>1, ServersOfMaps
  <2>4. CASE Storage!ServeRemove(t)
    <3>1. Registry!ServeRemove(t)
      BY <1>7, <1>11, <2>1, <2>2, <2>3, <2>4 DEF Storage!ServeRemove, Registry!ServeRemove, AskBar
    <3> QED
      BY <1>5, <1>7, <1>9, <3>1 DEF Registry!Serve, PhaseBar, AskBar
  <2>5. CASE Storage!ServeRemoveFaulty(t) /\ fallible
    <3>1. Registry!ServeRemoveFaulty(t)
      BY <1>7, <1>11, <2>1, <2>2, <2>3, <2>5
      DEF Storage!ServeRemoveFaulty, Registry!ServeRemoveFaulty, AskBar
    <3> QED
      BY <1>5, <1>7, <1>9, <2>5, <3>1 DEF Registry!ServeFaulty, PhaseBar, AskBar
  <2>6. Storage!ServeRemoveFaulty(t) => Storage!ServeRemove(t) \/ fallible
    BY <2>1 DEF StorageServes, Storage!Serve, Storage!ServeFaulty, Storage!ServeAdd,
                Storage!ServeGet, Storage!ServeIterate
  <2> QED
    BY <1>14, <2>4, <2>5, <2>6
<1>15. CASE Storage!ServeIterate(t)
  <2>1. ask[t].op = "iterate" /\ contents' = contents
    BY <1>15 DEF Storage!ServeIterate
  <2>2. \A r, e : Storage!Answers(t, r, e) => Registry!Answers(t, r, ServersOf(e))
    BY <1>10, <2>1
  <2>3. \A shown \in Storage!SubMaps(contents) :
          ServersOf(shown) \in Registry!SubMaps(ServersOf(contents))
    BY <1>1, ServersOfMaps
  <2>4. Registry!ServeIterate(t)
    BY <1>7, <1>11, <1>15, <2>1, <2>2, <2>3
    DEF Storage!ServeIterate, Registry!ServeIterate, AskBar
  <2> QED
    BY <1>5, <1>7, <1>9, <2>4 DEF Registry!Serve, PhaseBar, AskBar
<1>16. CASE Storage!ServeIterateFaulty(t) /\ fallible
  <2>1. ask[t].op = "iterate" /\ contents' = contents
    BY <1>16 DEF Storage!ServeIterateFaulty
  <2>2. Registry!Answers(t, TRUE, Registry!Nothing)
    BY <1>10, <1>16, <2>1, ServersOfMaps DEF Storage!ServeIterateFaulty
  <2>3. Registry!ServeIterateFaulty(t)
    BY <1>7, <1>11, <2>1, <2>2 DEF Registry!ServeIterateFaulty, AskBar
  <2> QED
    BY <1>5, <1>7, <1>9, <1>16, <2>3 DEF Registry!ServeFaulty, PhaseBar, AskBar
<1> QED
  BY <1>12, <1>13, <1>14, <1>15, <1>16
  DEF StorageServes, Storage!Serve, Storage!ServeFaulty

LEMMA EndMaps ==
  ASSUME IInv, NEW t \in Threads, Return(t) \/ Crash(t)
  PROVE  Registry!Reply(t) \/ Registry!Abandon(t)
<1> USE DEF Goto
<1>1. /\ pc'[t] = "idle" /\ call'[t] = NoCall /\ UNCHANGED <<contents, fallible>>
      /\ \A u \in Threads \ {t} : Untouched(u)
  BY DEF Return, Crash, Storage!Abandon, storageVars, Untouched, IInv, Shape
<1>2. /\ CallPhase(t)' = "idle" /\ ServerRequest(call[t])' = NoRequest
      /\ ServerAnswer(t)' = Registry!NoAnswer
  BY <1>1 DEF CallPhase, ServerRequest, ServerAnswer, NoCall, NoServers,
              Registry!NoAnswer, Registry!Nothing
<1>3. /\ PhaseBar' = [PhaseBar EXCEPT ![t] = "idle"] /\ AskBar' = [AskBar EXCEPT ![t] = NoRequest]
      /\ AnswerBar' = [AnswerBar EXCEPT ![t] = Registry!NoAnswer] /\ PhaseBar[t] = CallPhase(t)
  BY <1>1, <1>2, StepOfOne DEF PhaseBar
<1>4. ServersOf(contents)' = ServersOf(contents)
  BY <1>1 DEF ServersOf, ServerOf
<1>5. CASE Return(t)
  <2>1. CallPhase(t) = "answered"
    BY <1>5 DEF Return, CallPhase, Waiting
  <2> QED
    BY <1>1, <1>3, <1>4, <2>1 DEF Registry!Reply, PhaseBar, AskBar, AnswerBar
<1>6. CASE Crash(t)
  <2>1. CallPhase(t) # "idle" /\ fallible
    BY <1>6 DEF Crash, CallPhase
  <2> QED
    BY <1>1, <1>3, <1>4, <2>1 DEF Registry!Abandon, PhaseBar, AskBar, AnswerBar
<1> QED
  BY <1>5, <1>6

LEMMA StepMaps ==
  ASSUME ~Compressing, Formats = {"json"}, IInv, [Next]_vars
  PROVE  [Registry!LossyNext]_RVars
<1> USE DEF Registry!LossyNext, Registry!FaultyNext, Registry!Next
<1>1. CASE UNCHANGED vars
  BY <1>1 DEF vars, RVars, ContentsBar, PhaseBar, AskBar, AnswerBar, CallPhase, Waiting,
              ServerRequest, ServerAnswer, ServerOf, ServersOf, NoServers
<1>2. ASSUME NEW t \in Threads, NEW m \in Calls, Call(t, m) PROVE Registry!LossyNext
  BY <1>2, CallMaps DEF RegistryRequests
<1>3. ASSUME NEW t \in Threads, Proceed(t) \/ Crash(t)
      PROVE  \/ Registry!Serve(t) \/ Registry!ServeFaulty(t) \/ Registry!Lose(t)
             \/ Registry!Reply(t) \/ Registry!Abandon(t) \/ UNCHANGED RVars
  BY <1>3, AddMaps, StoredMaps, QueryMaps, RebuildMaps, GetAllMaps, CollectMaps, ServeMaps,
     EndMaps DEF Proceed
<1> QED
  BY <1>1, <1>2, <1>3 DEF Next

\* While every caller keeps to the JSON format and the storage is not compressed, the
\* manager is one map from URIs to servers on which each call of any thread takes
\* effect at one instant; under faults a call only misses or loses what is there.
THEOREM ImplementsRegistry ==
  ASSUME ~Compressing, Formats = {"json"}
  PROVE  Spec => RegistrySpec
<1>1. IInv /\ [Next]_vars => [Registry!LossyNext]_RVars
  BY StepMaps
<1>2. [Registry!LossyNext]_RVars => [Registry!LossyNext]_(Registry!vars)
  BY DEF RVars, Registry!vars, ContentsBar, PhaseBar, AskBar, AnswerBar
<1> QED
  BY <1>1, <1>2, InitMaps, Invariance, PTL DEF Spec, RegistrySpec, Registry!LossySpec
=============================================================================
