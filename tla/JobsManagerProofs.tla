--------------------------- MODULE JobsManagerProofs ---------------------------
(***************************************************************************)
(* Theorems about JobsManager for any threads, ids and jobs, and whichever *)
(* calls fail.                                                             *)
(***************************************************************************)
EXTENDS JobsManager, TLAPS

\* Which steps belong to which call.
CallInv(t) ==
  /\ pc[t] = "idle" <=> call[t] = NoCall
  /\ pc[t] # "idle" => call[t] \in Calls
  /\ pc[t] \in {"serialise", "stored"} => call[t].op = "add"
  /\ pc[t] \in {"query", "rebuild"} => call[t].op \in {"get", "remove", "finished"}
  /\ pc[t] \in {"list", "collect"} => call[t].op = "all"

\* A thread has one call of the storage under way, for the call that it is in.
AskInv(t) ==
  /\ pc[t] \in {"idle", "serialise", "query", "list", "done"} =>
       phase[t] = "idle" /\ ask[t] = NoRequest
  /\ pc[t] \in {"stored", "rebuild", "collect"} =>
       /\ phase[t] \in {"asked", "answered"} /\ ask[t] \in StorageRequests
       /\ ask[t].op = JobRequest(call[t]).op
       /\ ~UuidIsArray => ask[t] = JobRequest(call[t])

Texts == Data \cup {NULL}
TextMaps == [Ids -> Texts]

\* What the storage may answer.
Answered(op) ==
  CASE op = "add" -> [result: BOOLEAN, entries: {NoJobs}]
    [] op \in {"get", "remove"} -> [result: Texts, entries: {NoJobs}]
    [] OTHER -> [result: BOOLEAN, entries: TextMaps]

AnswerInv(t) ==
  /\ phase[t] # "answered" => answer[t] = Storage!NoAnswer
  /\ phase[t] = "answered" => answer[t] \in Answered(ask[t].op)

\* What a call may have worked out.
JobMaps == [Ids -> ServiceJobs \cup {NULL}]
Results(op) ==
  CASE op = "add" -> BOOLEAN
    [] op = "all" -> [complete: BOOLEAN, jobs: JobMaps]
    [] OTHER -> ServiceJobs \cup {NULL}

ResultInv(t) ==
  /\ pc[t] # "done" => result[t] = NULL
  /\ pc[t] = "done" => result[t] \in Results(call[t].op)

ThreadInv(t) == CallInv(t) /\ AskInv(t) /\ AnswerInv(t) /\ ResultInv(t)

\* The variables as functions of the threads.
Shape ==
  /\ fallible \in BOOLEAN /\ contents \in TextMaps
  /\ phase \in [Threads -> {"idle", "asked", "answered"}]
  /\ ask \in [Threads -> StorageRequests \cup {NoRequest}]
  /\ DOMAIN answer = Threads /\ answer = [t \in Threads |-> answer[t]]
  /\ pc \in [Threads -> Steps]
  /\ call \in [Threads -> Calls \cup {NoCall}]
  /\ DOMAIN result = Threads /\ result = [t \in Threads |-> result[t]]

IInv == Shape /\ \A t \in Threads : ThreadInv(t)

-----------------------------------------------------------------------------
LEMMA CallFields ==
  ASSUME NEW m \in Calls
  PROVE  /\ m.op \in {"add", "get", "remove", "finished", "all"}
         /\ m.op = "add" => m.id \in Ids /\ m.job \in ServiceJobs /\ m.job.data \in Data
         /\ m.op \in {"get", "remove", "finished"} => m.id \in Ids
         /\ m # NoCall
BY DEF Calls, NoCall, ServiceJobs

LEMMA JobRequests ==
  ASSUME NEW m \in Calls
  PROVE  /\ JobRequest(m) \in StorageRequests
         /\ m.op = "add" => JobRequest(m) = [op |-> "add", key |-> m.id, value |-> m.job.data]
         /\ m.op = "get" => JobRequest(m) = [op |-> "get", key |-> m.id, value |-> NULL]
         /\ m.op \in {"remove", "finished"} =>
              JobRequest(m) = [op |-> "remove", key |-> m.id, value |-> NULL]
         /\ m.op = "all" => JobRequest(m) = [op |-> "iterate", key |-> NULL, value |-> NULL]
<1>1. /\ m.op = "add" => JobRequest(m) = [op |-> "add", key |-> m.id, value |-> m.job.data]
      /\ m.op = "get" => JobRequest(m) = [op |-> "get", key |-> m.id, value |-> NULL]
      /\ m.op \in {"remove", "finished"} =>
           JobRequest(m) = [op |-> "remove", key |-> m.id, value |-> NULL]
      /\ m.op = "all" => JobRequest(m) = [op |-> "iterate", key |-> NULL, value |-> NULL]
  BY DEF JobRequest, TextOf
<1>2. JobRequest(m) \in StorageRequests
  BY <1>1, CallFields DEF StorageRequests
<1> QED
  BY <1>1, <1>2

\* A step of one thread has to show what it does to that thread.
LEMMA OneThread ==
  ASSUME IInv, Shape', NEW t \in Threads, ThreadInv(t)',
         \A u \in Threads \ {t} : /\ pc'[u] = pc[u] /\ call'[u] = call[u]
                                 /\ result'[u] = result[u] /\ phase'[u] = phase[u]
                                 /\ ask'[u] = ask[u] /\ answer'[u] = answer[u]
  PROVE  IInv'
<1> SUFFICES ASSUME NEW u \in Threads \ {t} PROVE ThreadInv(u)'
  BY DEF IInv
<1>1. ThreadInv(u)
  BY DEF IInv
<1> QED
  BY <1>1 DEF ThreadInv, CallInv, AskInv, AnswerInv, ResultInv, Storage!NoAnswer, Storage!Nothing

LEMMA InitIInv == Init => IInv
<1> SUFFICES ASSUME Init PROVE IInv
  OBVIOUS
<1>1. Shape
  BY DEF Init, Storage!Init, Storage!Nothing, Storage!NoAnswer, Shape, TextMaps, Texts, Steps
<1>2. ASSUME NEW t \in Threads PROVE ThreadInv(t)
  BY DEF Init, Storage!Init, ThreadInv, CallInv, AskInv, AnswerInv, ResultInv
<1> QED
  BY <1>1, <1>2 DEF IInv

LEMMA CallKeepsIInv ==
  ASSUME IInv, NEW t \in Threads, NEW m \in Calls, Call(t, m)
  PROVE  IInv'
<1> USE DEF Goto, storageVars
<1>1. Shape'
  BY DEF IInv, Shape, Call, Steps
<1>2. ThreadInv(t)
  BY DEF IInv
<1>3. ThreadInv(t)'
  <2>1. pc'[t] = (CASE m.op = "add" -> "serialise" [] m.op = "all" -> "list" [] OTHER -> "query")
        /\ call'[t] = m /\ pc[t] = "idle"
        /\ phase'[t] = phase[t] /\ ask'[t] = ask[t] /\ answer'[t] = answer[t]
        /\ result'[t] = result[t]
    BY DEF Call, IInv, Shape
  <2> QED
    BY <1>2, <2>1, CallFields DEF ThreadInv, CallInv, AskInv, AnswerInv, ResultInv
<1> QED
  BY <1>1, <1>3, OneThread DEF Call, IInv, Shape

\* Calls of the storage: asked for, answered, and taken back.
LEMMA AskKeepsIInv ==
  ASSUME IInv, NEW t \in Threads, NEW r \in StorageRequests, Storage!Ask(t, r),
         NEW s \in {"stored", "rebuild", "collect"}, pc' = [pc EXCEPT ![t] = s],
         UNCHANGED <<call, result>>, call[t] \in Calls, pc[t] \in {"serialise", "query", "list"},
         s = "stored" => call[t].op = "add",
         s = "rebuild" => call[t].op \in {"get", "remove", "finished"},
         s = "collect" => call[t].op = "all",
         r.op = JobRequest(call[t]).op, ~UuidIsArray => r = JobRequest(call[t])
  PROVE  IInv'
<1>1. Shape'
  BY DEF IInv, Shape, Storage!Ask, Steps
<1>2. ThreadInv(t)
  BY DEF IInv
<1>3. ThreadInv(t)'
  <2>1. /\ pc'[t] = s /\ call'[t] = call[t] /\ phase'[t] = "asked" /\ ask'[t] = r
        /\ answer'[t] = answer[t] /\ result'[t] = result[t] /\ phase[t] = "idle"
    BY DEF Storage!Ask, IInv, Shape
  <2>2. Storage!NoAnswer' = Storage!NoAnswer
    BY DEF Storage!NoAnswer, Storage!Nothing
  <2>3. JobRequest(call[t])' = JobRequest(call[t])
    BY DEF JobRequest
  <2> QED
    BY <1>2, <2>1, <2>2, <2>3 DEF ThreadInv, CallInv, AskInv, AnswerInv, ResultInv
<1> QED
  BY <1>1, <1>3, OneThread DEF Storage!Ask, IInv, Shape

LEMMA ReplyKeepsIInv ==
  ASSUME IInv, NEW t \in Threads, Storage!Reply(t), UNCHANGED call, call[t] \in Calls,
         NEW r \in Results(call[t].op), Returns(t, r)
  PROVE  IInv'
<1> USE DEF Returns, Goto
<1>1. Shape'
  BY DEF IInv, Shape, Storage!Reply, Steps
<1>2. /\ pc'[t] = "done" /\ call'[t] = call[t] /\ phase'[t] = "idle" /\ ask'[t] = NoRequest
      /\ answer'[t] = Storage!NoAnswer /\ result'[t] = r /\ call[t] # NoCall
  BY CallFields DEF Storage!Reply, IInv, Shape
<1>3. ThreadInv(t)'
  BY <1>2 DEF ThreadInv, CallInv, AskInv, AnswerInv, ResultInv, Storage!NoAnswer, Storage!Nothing
<1> QED
  BY <1>1, <1>3, OneThread DEF Storage!Reply, IInv, Shape

\* A call that fails before it has asked the storage.
LEMMA GiveUpKeepsIInv ==
  ASSUME IInv, NEW t \in Threads, pc[t] \in {"serialise", "list"},
         UNCHANGED <<storageVars, call>>,
         NEW r \in Results(call[t].op), Returns(t, r)
  PROVE  IInv'
<1> USE DEF Returns, Goto, storageVars
<1>1. Shape'
  BY DEF IInv, Shape, Steps
<1>2. ThreadInv(t)
  BY DEF IInv
<1>3. pc'[t] = "done" /\ result'[t] = r /\ call' = call
  BY DEF IInv, Shape
<1>4. ThreadInv(t)'
  BY <1>2, <1>3 DEF ThreadInv, CallInv, AskInv, AnswerInv, ResultInv, Storage!NoAnswer,
                    Storage!Nothing
<1> QED
  BY <1>1, <1>4, OneThread DEF IInv, Shape

LEMMA AddKeepsIInv ==
  ASSUME IInv, NEW t \in Threads, AddServiceJob(t)
  PROVE  IInv'
<1>1. pc[t] = "serialise" /\ call[t] \in Calls /\ call[t].op = "add" /\ call' = call
  BY DEF AddServiceJob, IInv, ThreadInv, CallInv
<1>2. CASE \E key \in KeysFor(call[t].id) :
             /\ Storage!Ask(t, [op |-> "add", key |-> key, value |-> TextOf(call[t].job)])
             /\ Goto(t, "stored") /\ UNCHANGED result
  <2> PICK key \in KeysFor(call[t].id) :
             /\ Storage!Ask(t, [op |-> "add", key |-> key, value |-> TextOf(call[t].job)])
             /\ Goto(t, "stored") /\ UNCHANGED result
    BY <1>2
  <2> DEFINE r == [op |-> "add", key |-> key, value |-> TextOf(call[t].job)]
  <2>1. key \in Ids /\ call[t].job.data \in Data
    BY <1>1, CallFields DEF KeysFor
  <2>2. r \in StorageRequests
    BY <2>1 DEF StorageRequests, TextOf
  <2>3. r.op = JobRequest(call[t]).op /\ (~UuidIsArray => r = JobRequest(call[t]))
    BY <1>1, JobRequests DEF KeysFor, TextOf
  <2> QED
    BY <1>1, <2>2, <2>3, AskKeepsIInv DEF Goto
<1>3. CASE Returns(t, FALSE) /\ UNCHANGED storageVars
  BY <1>1, <1>3, GiveUpKeepsIInv DEF Results
<1> QED
  BY <1>2, <1>3 DEF AddServiceJob

LEMMA QueryKeepsIInv ==
  ASSUME IInv, NEW t \in Threads, QueryServiceJob(t)
  PROVE  IInv'
<1>1. /\ pc[t] = "query" /\ call[t] \in Calls /\ call[t].op \in {"get", "remove", "finished"}
      /\ UNCHANGED <<call, result>> /\ Goto(t, "rebuild")
  BY DEF QueryServiceJob, IInv, ThreadInv, CallInv
<1> PICK key \in KeysFor(call[t].id) :
      Storage!Ask(t, [op |-> IF call[t].op = "get" THEN "get" ELSE "remove",
                      key |-> key, value |-> NULL])
  BY DEF QueryServiceJob
<1> DEFINE r == [op |-> IF call[t].op = "get" THEN "get" ELSE "remove", key |-> key, value |-> NULL]
<1>2. key \in Ids
  BY <1>1, CallFields DEF KeysFor
<1>3. r \in StorageRequests
  BY <1>2 DEF StorageRequests
<1>4. r.op = JobRequest(call[t]).op /\ (~UuidIsArray => r = JobRequest(call[t]))
  BY <1>1, JobRequests DEF KeysFor
<1> QED
  BY <1>1, <1>3, <1>4, AskKeepsIInv DEF Goto

LEMMA GetAllKeepsIInv ==
  ASSUME IInv, NEW t \in Threads, GetAllServiceJobs(t)
  PROVE  IInv'
<1> DEFINE r == [op |-> "iterate", key |-> NULL, value |-> NULL]
<1>1. pc[t] = "list" /\ call[t] \in Calls /\ call[t].op = "all" /\ call' = call
  BY DEF GetAllServiceJobs, IInv, ThreadInv, CallInv
<1>2. CASE Storage!Ask(t, r) /\ Goto(t, "collect") /\ UNCHANGED result
  <2>1. r = JobRequest(call[t]) /\ r \in StorageRequests
    BY <1>1, JobRequests
  <2> QED
    BY <1>1, <1>2, <2>1, AskKeepsIInv DEF Goto
<1>3. CASE Returns(t, AllJobs(FALSE, NoJobs)) /\ UNCHANGED storageVars
  <2>1. AllJobs(FALSE, NoJobs) \in Results("all")
    BY DEF AllJobs, NoJobs, Results, JobMaps
  <2> QED
    BY <1>1, <1>3, <2>1, GiveUpKeepsIInv
<1> QED
  BY <1>2, <1>3 DEF GetAllServiceJobs

LEMMA StoredKeepsIInv ==
  ASSUME IInv, NEW t \in Threads, Stored(t)
  PROVE  IInv'
<1>1. /\ pc[t] = "stored" /\ phase[t] = "answered" /\ call[t] \in Calls
      /\ call[t].op = "add" /\ ask[t].op = JobRequest(call[t]).op
      /\ answer[t] \in Answered(ask[t].op)
  BY DEF Stored, Storage!Reply, IInv, ThreadInv, CallInv, AskInv, AnswerInv
<1>2. ask[t].op = "add"
  BY <1>1, JobRequests
<1>3. answer[t].result \in Results(call[t].op)
  BY <1>1, <1>2 DEF Answered, Results
<1> QED
  BY <1>1, <1>3, ReplyKeepsIInv DEF Stored

LEMMA Rebuilt ==
  ASSUME fallible \in BOOLEAN, NEW text \in Data
  PROVE  \A job \in RebuildServiceJob(text) :
           \/ job \in ServiceJobs /\ job.data = text
           \/ job = NULL /\ fallible
<1> DEFINE whole == [data |-> text, results |-> FALSE]
<1>1. whole \in ServiceJobs /\ whole.data = text
  BY DEF ServiceJobs
<1>2. ASSUME NEW job \in RebuildServiceJob(text) PROVE job = whole \/ (job = NULL /\ fallible)
  <2> DEFINE faults == IF fallible THEN JobFaults \cap {"rebuild"} ELSE {}
  <2>1. job = whole \/ job \in {NULL : fault \in faults}
    BY <1>2, Zenon DEF RebuildServiceJob
  <2>2. CASE job \in {NULL : fault \in faults}
    <3>1. PICK fault \in faults : job = NULL
      BY <2>2, Zenon
    <3> QED
      BY <3>1
  <2> QED
    BY <2>1, <2>2
<1> QED
  BY <1>1, <1>2

LEMMA RebuildKeepsIInv ==
  ASSUME IInv, NEW t \in Threads, Rebuild(t)
  PROVE  IInv'
<1>1. /\ pc[t] = "rebuild" /\ phase[t] = "answered" /\ call[t] \in Calls
      /\ call[t].op \in {"get", "remove", "finished"} /\ ask[t].op = JobRequest(call[t]).op
      /\ answer[t] \in Answered(ask[t].op)
  BY DEF Rebuild, Storage!Reply, IInv, ThreadInv, CallInv, AskInv, AnswerInv
<1>6. ask[t].op \in {"get", "remove"}
  BY <1>1, JobRequests
<1>2. answer[t].result \in Texts
  BY <1>1, <1>6 DEF Answered
<1>3. PICK job \in IF answer[t].result = NULL THEN {NULL}
                   ELSE RebuildServiceJob(answer[t].result) : Returns(t, job)
  BY DEF Rebuild
<1>4. job \in ServiceJobs \cup {NULL}
  BY <1>2, <1>3, Rebuilt DEF IInv, Shape, Texts
<1>5. job \in Results(call[t].op)
  BY <1>1, <1>4 DEF Results
<1> QED
  BY <1>1, <1>3, <1>5, ReplyKeepsIInv DEF Rebuild

LEMMA CollectKeepsIInv ==
  ASSUME IInv, NEW t \in Threads, Collect(t)
  PROVE  IInv'
<1>1. /\ pc[t] = "collect" /\ phase[t] = "answered" /\ call[t] \in Calls
      /\ call[t].op = "all" /\ ask[t].op = JobRequest(call[t]).op
      /\ answer[t] \in Answered(ask[t].op)
  BY DEF Collect, Storage!Reply, IInv, ThreadInv, CallInv, AskInv, AnswerInv
<1>6. ask[t].op = "iterate"
  BY <1>1, JobRequests
<1>2. answer[t].result \in BOOLEAN
  BY <1>1, <1>6 DEF Answered
<1>3. PICK jobs \in Listed(answer[t].entries) : Returns(t, AllJobs(answer[t].result, jobs))
  BY DEF Collect
<1>4. AllJobs(answer[t].result, jobs) \in Results("all")
  BY <1>2, <1>3 DEF Listed, AllJobs, Results, JobMaps
<1> QED
  BY <1>1, <1>3, <1>4, ReplyKeepsIInv DEF Collect

LEMMA RequestFields ==
  ASSUME NEW r \in StorageRequests
  PROVE  /\ r.op \in {"add", "get", "remove", "iterate"}
         /\ r.op = "add" => r.key \in Ids /\ r.value \in Data
         /\ r.op \in {"get", "remove"} => r.key \in Ids
         /\ r # NoRequest
BY DEF StorageRequests, NoRequest

LEMMA SubMapsTyped ==
  ASSUME NEW m \in TextMaps, NEW s \in Storage!SubMaps(m)
  PROVE  s \in TextMaps
<1>1. PICK kept \in SUBSET Ids : s = [k \in Ids |-> IF k \in kept THEN m[k] ELSE NULL]
  BY DEF Storage!SubMaps
<1> QED
  BY <1>1 DEF TextMaps, Texts

\* What the storage answers, with or without a fault, and what it then holds.
LEMMA StorageAnswers ==
  ASSUME contents \in TextMaps, NEW t \in Threads, ask[t] \in StorageRequests,
         Storage!Serve(t) \/ Storage!ServeFaulty(t)
  PROVE  /\ phase[t] = "asked" /\ phase' = [phase EXCEPT ![t] = "answered"]
         /\ ask' = ask /\ fallible' = fallible /\ contents' \in TextMaps
         /\ \E a \in Answered(ask[t].op) : answer' = [answer EXCEPT ![t] = a]
<1> DEFINE k == ask[t].key
           Said(r, e) == answer' = [answer EXCEPT ![t] = [result |-> r, entries |-> e]]
           Answering == \E a \in Answered(ask[t].op) : answer' = [answer EXCEPT ![t] = a]
<1>1. /\ phase[t] = "asked" /\ phase' = [phase EXCEPT ![t] = "answered"]
      /\ ask' = ask /\ fallible' = fallible
  BY DEF Storage!Serve, Storage!ServeFaulty
<1>2. Storage!Nothing = NoJobs
  BY DEF Storage!Nothing, NoJobs
<1>3. \/ Storage!ServeAdd(t) \/ Storage!ServeGet(t) \/ Storage!ServeRemove(t)
      \/ Storage!ServeIterate(t) \/ Storage!ServeRemoveFaulty(t)
      \/ Storage!ServeIterateFaulty(t)
  BY DEF Storage!Serve, Storage!ServeFaulty
<1>4. CASE Storage!ServeAdd(t)
  <2>1. ask[t].op = "add" /\ k \in Ids /\ ask[t].value \in Texts
    BY <1>4, RequestFields DEF Storage!ServeAdd, Texts
  <2>2. PICK r \in BOOLEAN : Said(r, NoJobs)
    BY <1>2, <1>4 DEF Storage!ServeAdd, Storage!Answers
  <2>3. [result |-> r, entries |-> NoJobs] \in Answered(ask[t].op)
    BY <2>1 DEF Answered
  <2>4. \/ \E kept \in Storage!SubMaps(contents) :
             contents' = [kept EXCEPT ![k] = ask[t].value]
        \/ contents' \in {contents, [contents EXCEPT ![k] = NULL]}
    BY <1>4 DEF Storage!ServeAdd
  <2>5. contents' \in TextMaps
    BY <2>1, <2>4, SubMapsTyped DEF TextMaps, Texts
  <2> QED
    BY <1>1, <2>2, <2>3, <2>5
<1>5. CASE Storage!ServeGet(t)
  <2>1. ask[t].op = "get" /\ k \in Ids /\ contents' = contents
    BY <1>5, RequestFields DEF Storage!ServeGet
  <2>2. PICK r \in Texts : Said(r, NoJobs)
    BY <1>2, <1>5, <2>1 DEF Storage!ServeGet, Storage!Answers, TextMaps, Texts
  <2>3. [result |-> r, entries |-> NoJobs] \in Answered(ask[t].op)
    BY <2>1 DEF Answered
  <2> QED
    BY <1>1, <2>1, <2>2, <2>3
<1>6. CASE Storage!ServeRemove(t) \/ Storage!ServeRemoveFaulty(t)
  <2>1. ask[t].op = "remove" /\ k \in Ids
    BY <1>6, RequestFields DEF Storage!ServeRemove, Storage!ServeRemoveFaulty
  <2>2. PICK r \in Texts : Said(r, NoJobs)
    BY <1>2, <1>6, <2>1
    DEF Storage!ServeRemove, Storage!ServeRemoveFaulty, Storage!Answers, TextMaps, Texts
  <2>3. [result |-> r, entries |-> NoJobs] \in Answered(ask[t].op)
    BY <2>1 DEF Answered
  <2>4. contents' \in {contents, [contents EXCEPT ![k] = NULL]}
    BY <1>6 DEF Storage!ServeRemove, Storage!ServeRemoveFaulty
  <2>5. contents' \in TextMaps
    BY <2>1, <2>4 DEF TextMaps, Texts
  <2> QED
    BY <1>1, <2>2, <2>3, <2>5
<1>7. CASE Storage!ServeIterate(t) \/ Storage!ServeIterateFaulty(t)
  <2>1. ask[t].op = "iterate" /\ contents' = contents
    BY <1>7 DEF Storage!ServeIterate, Storage!ServeIterateFaulty
  <2>2. NoJobs \in TextMaps
    BY DEF NoJobs, TextMaps, Texts
  <2>3. PICK r \in BOOLEAN, e \in TextMaps : Said(r, e)
    BY <1>2, <1>7, <2>2, SubMapsTyped
    DEF Storage!ServeIterate, Storage!ServeIterateFaulty, Storage!Answers
  <2>4. [result |-> r, entries |-> e] \in Answered(ask[t].op)
    BY <2>1 DEF Answered
  <2> QED
    BY <1>1, <2>1, <2>3, <2>4
<1> QED
  BY <1>3, <1>4, <1>5, <1>6, <1>7

LEMMA ServeKeepsIInv ==
  ASSUME IInv, NEW t \in Threads, StorageServes(t)
  PROVE  IInv'
<1>1. ThreadInv(t) /\ contents \in TextMaps
  BY DEF IInv, Shape
<1>2. phase[t] = "asked" /\ UNCHANGED <<pc, call, result>>
  BY DEF StorageServes, Storage!Serve, Storage!ServeFaulty
<1>3. pc[t] \in {"stored", "rebuild", "collect"} /\ ask[t] \in StorageRequests
  BY <1>1, <1>2 DEF ThreadInv, AskInv, IInv, Shape, Steps
<1>4. /\ phase' = [phase EXCEPT ![t] = "answered"] /\ ask' = ask
      /\ fallible' = fallible /\ contents' \in TextMaps
  BY <1>1, <1>3, StorageAnswers DEF StorageServes
<1>5. PICK a \in Answered(ask[t].op) : answer' = [answer EXCEPT ![t] = a]
  BY <1>1, <1>3, StorageAnswers DEF StorageServes
<1>6. Shape'
  BY <1>2, <1>4, <1>5 DEF IInv, Shape
<1>7. phase'[t] = "answered" /\ answer'[t] = a /\ ask'[t] = ask[t]
  BY <1>4, <1>5 DEF IInv, Shape
<1>8. Answered(ask[t].op)' = Answered(ask[t].op)
  BY <1>4
<1>9. ThreadInv(t)'
  BY <1>1, <1>2, <1>3, <1>7, <1>8
  DEF ThreadInv, CallInv, AskInv, AnswerInv, ResultInv, JobRequest
<1> QED
  BY <1>2, <1>4, <1>5, <1>6, <1>9, OneThread DEF IInv, Shape

\* The thread is through with its call, or its process has been killed.
LEMMA EndKeepsIInv ==
  ASSUME IInv, NEW t \in Threads, Return(t) \/ Crash(t)
  PROVE  IInv'
<1> USE DEF Goto
<1>1. ThreadInv(t)
  BY DEF IInv
<1>2. /\ pc' = [pc EXCEPT ![t] = "idle"] /\ call' = [call EXCEPT ![t] = NoCall]
      /\ result' = [result EXCEPT ![t] = NULL]
      /\ contents' = contents /\ fallible' = fallible
  BY DEF Return, Crash, Storage!Abandon, storageVars
<1>3. \/ UNCHANGED <<phase, ask, answer>> /\ phase[t] = "idle"
      \/ /\ phase' = [phase EXCEPT ![t] = "idle"] /\ ask' = [ask EXCEPT ![t] = NoRequest]
         /\ answer' = [answer EXCEPT ![t] = Storage!NoAnswer]
  BY <1>1 DEF Return, Crash, Storage!Abandon, storageVars, ThreadInv, AskInv
<1>4. Shape'
  BY <1>2, <1>3 DEF IInv, Shape, Steps
<1>5. /\ pc'[t] = "idle" /\ call'[t] = NoCall /\ result'[t] = NULL /\ phase'[t] = "idle"
      /\ ask'[t] = NoRequest /\ answer'[t] = Storage!NoAnswer
  <2>1. pc'[t] = "idle" /\ call'[t] = NoCall /\ result'[t] = NULL
    BY <1>2 DEF IInv, Shape
  <2>2. CASE UNCHANGED <<phase, ask, answer>> /\ phase[t] = "idle"
    <3>1. pc[t] \notin {"stored", "rebuild", "collect"}
      BY <1>1, <2>2 DEF ThreadInv, AskInv
    <3>2. ask[t] = NoRequest /\ answer[t] = Storage!NoAnswer
      BY <1>1, <2>2, <3>1 DEF ThreadInv, AskInv, AnswerInv, IInv, Shape, Steps
    <3> QED
      BY <2>1, <2>2, <3>2
  <2>3. CASE /\ phase' = [phase EXCEPT ![t] = "idle"] /\ ask' = [ask EXCEPT ![t] = NoRequest]
             /\ answer' = [answer EXCEPT ![t] = Storage!NoAnswer]
    BY <2>1, <2>3 DEF IInv, Shape
  <2> QED
    BY <1>3, <2>2, <2>3
<1>6. ThreadInv(t)'
  BY <1>5 DEF ThreadInv, CallInv, AskInv, AnswerInv, ResultInv, Storage!NoAnswer, Storage!Nothing
<1> QED
  BY <1>2, <1>3, <1>4, <1>6, OneThread DEF IInv, Shape

LEMMA NextKeepsIInv == IInv /\ [Next]_vars => IInv'
<1> SUFFICES ASSUME IInv, [Next]_vars PROVE IInv'
  OBVIOUS
<1>1. CASE UNCHANGED vars
  <2>1. Shape'
    BY <1>1 DEF IInv, Shape, vars
  <2>2. ASSUME NEW t \in Threads PROVE ThreadInv(t)'
    BY <1>1 DEF IInv, vars, ThreadInv, CallInv, AskInv, AnswerInv, ResultInv,
                Storage!NoAnswer, Storage!Nothing, JobRequest
  <2> QED
    BY <2>1, <2>2 DEF IInv
<1>2. ASSUME NEW t \in Threads, NEW m \in Calls, Call(t, m) PROVE IInv'
  BY <1>2, CallKeepsIInv
<1>3. ASSUME NEW t \in Threads, Proceed(t) \/ Crash(t) PROVE IInv'
  BY <1>3, AddKeepsIInv, StoredKeepsIInv, QueryKeepsIInv, RebuildKeepsIInv, GetAllKeepsIInv,
     CollectKeepsIInv, ServeKeepsIInv, EndKeepsIInv DEF Proceed
<1> QED
  BY <1>1, <1>2, <1>3 DEF Next

LEMMA Invariance == Spec => []IInv
BY InitIInv, NextKeepsIInv, PTL DEF Spec

\* Each thread is at a known step with a call, a request and a result of the kinds
\* that belong to that step: an Add never returns a job, nor a Get a truth value.
THEOREM TypeCorrect == Spec => []TypeOK
<1>1. IInv => TypeOK
  <2> SUFFICES ASSUME IInv PROVE TypeOK
    OBVIOUS
  <2>1. ASSUME NEW t \in Threads
        PROVE  /\ pc[t] # "done" => result[t] = NULL
               /\ pc[t] = "done" =>
                    CASE call[t].op = "add" -> result[t] \in BOOLEAN
                      [] call[t].op = "all" -> result[t].jobs \in [Ids -> ServiceJobs \cup {NULL}]
                      [] OTHER -> result[t] \in ServiceJobs \cup {NULL}
    <3>1. ResultInv(t)
      BY DEF IInv, ThreadInv
    <3>2. CASE pc[t] = "done" /\ call[t].op = "all"
      BY <3>1, <3>2 DEF ResultInv, Results, JobMaps
    <3>3. CASE pc[t] = "done" /\ call[t].op # "all"
      BY <3>1, <3>3 DEF ResultInv, Results
    <3>4. CASE pc[t] # "done"
      BY <3>1, <3>4 DEF ResultInv
    <3> QED
      BY <3>2, <3>3, <3>4
  <2> QED
    BY <2>1 DEF IInv, Shape, TypeOK, TextMaps, Texts
<1> QED
  BY <1>1, Invariance, PTL

-----------------------------------------------------------------------------
(* The manager implements its registry of jobs.                              *)
PhaseBar == [t \in Threads |-> CallPhase(t)]
AskBar == [t \in Threads |-> JobRequest(call[t])]
AnswerBar == [t \in Threads |-> JobAnswer(t)]
RVars == <<contents, PhaseBar, AskBar, AnswerBar, fallible>>

Untouched(u) == /\ pc'[u] = pc[u] /\ call'[u] = call[u] /\ result'[u] = result[u]
                /\ phase'[u] = phase[u] /\ answer'[u] = answer[u]

\* A step of one thread is a step of its call in the registry alone.
LEMMA StepOfOne ==
  ASSUME NEW t \in Threads, \A u \in Threads \ {t} : Untouched(u)
  PROVE  /\ PhaseBar' = [PhaseBar EXCEPT ![t] = CallPhase(t)']
         /\ AskBar' = [AskBar EXCEPT ![t] = JobRequest(call[t])']
         /\ AnswerBar' = [AnswerBar EXCEPT ![t] = JobAnswer(t)']
<1>1. ASSUME NEW u \in Threads \ {t} PROVE CallPhase(u)' = CallPhase(u)
  BY DEF Untouched, CallPhase, Waiting
<1>2. ASSUME NEW u \in Threads \ {t} PROVE JobRequest(call[u])' = JobRequest(call[u])
  BY DEF Untouched, JobRequest
<1>3. ASSUME NEW u \in Threads \ {t} PROVE JobAnswer(u)' = JobAnswer(u)
  BY DEF Untouched, JobAnswer, Waiting, Storage!NoAnswer, Storage!Nothing, NoJobs, DataOf
<1> QED
  BY <1>1, <1>2, <1>3 DEF PhaseBar, AskBar, AnswerBar

LEMMA HiddenStep ==
  ASSUME NEW t \in Threads, \A u \in Threads \ {t} : Untouched(u),
         CallPhase(t)' = CallPhase(t), call'[t] = call[t], JobAnswer(t)' = JobAnswer(t),
         UNCHANGED <<contents, fallible>>
  PROVE  UNCHANGED RVars
<1>1. JobRequest(call[t])' = JobRequest(call[t])
  BY DEF JobRequest
<1> QED
  BY <1>1, StepOfOne DEF RVars, PhaseBar, AskBar, AnswerBar

LEMMA NothingShown ==
  ASSUME NEW m
  PROVE  Registry!Nothing \in Registry!SubMaps(m)
<1>1. Registry!Nothing = [k \in Ids |-> IF k \in {} THEN m[k] ELSE NULL]
  BY DEF Registry!Nothing
<1> SUFFICES \E kept \in SUBSET Ids :
               Registry!Nothing = [k \in Ids |-> IF k \in kept THEN m[k] ELSE NULL]
  BY DEF Registry!SubMaps
<1> WITNESS {} \in SUBSET Ids
<1> QED
  BY <1>1

LEMMA InitMaps == Init => Registry!Init
BY DEF Init, Registry!Init, Storage!Init, CallPhase, JobAnswer, JobRequest, NoCall,
       Registry!Nothing, Registry!NoAnswer, Storage!Nothing, Storage!NoAnswer

LEMMA CallMaps ==
  ASSUME IInv, NEW t \in Threads, NEW m \in Calls, Call(t, m)
  PROVE  \E r \in StorageRequests : Registry!Ask(t, r)
<1> USE DEF Goto, storageVars
<1>1. /\ pc[t] = "idle" /\ call'[t] = m /\ UNCHANGED <<storageVars, result>>
      /\ pc'[t] \in {"serialise", "list", "query"}
  BY DEF Call, IInv, Shape
<1>2. \A u \in Threads \ {t} : Untouched(u)
  BY DEF Call, Untouched, IInv, Shape
<1>3. CallPhase(t) = "idle" /\ CallPhase(t)' = "asked"
  BY <1>1 DEF CallPhase, Waiting
<1>4. JobAnswer(t)' = JobAnswer(t)
  BY <1>1 DEF JobAnswer, Waiting, Storage!NoAnswer, Storage!Nothing
<1>5. JobRequest(call[t])' = JobRequest(m)
  BY <1>1 DEF JobRequest
<1>6. Registry!Ask(t, JobRequest(m))
  BY <1>1, <1>2, <1>3, <1>4, <1>5, StepOfOne DEF Registry!Ask, PhaseBar, AskBar, AnswerBar
<1> QED
  BY <1>6, JobRequests

\* The call asks the storage for what was asked of it.
LEMMA AskHides ==
  ASSUME IInv, NEW t \in Threads, NEW r, Storage!Ask(t, r),
         NEW s \in {"stored", "rebuild", "collect"}, pc' = [pc EXCEPT ![t] = s],
         UNCHANGED <<call, result>>, pc[t] \in {"serialise", "query", "list"}
  PROVE  UNCHANGED RVars
<1>1. pc'[t] = s /\ phase'[t] = "asked" /\ UNCHANGED <<contents, fallible, answer>>
  BY DEF Storage!Ask, IInv, Shape
<1>2. \A u \in Threads \ {t} : Untouched(u)
  BY <1>1 DEF Storage!Ask, Untouched, IInv, Shape
<1>3. CallPhase(t)' = CallPhase(t)
  BY <1>1 DEF CallPhase, Waiting
<1>4. JobAnswer(t)' = JobAnswer(t)
  BY <1>1 DEF JobAnswer, Waiting, Storage!NoAnswer, Storage!Nothing
<1> QED
  BY <1>1, <1>2, <1>3, <1>4, HiddenStep

LEMMA AddMaps ==
  ASSUME IInv, NEW t \in Threads, AddServiceJob(t)
  PROVE  Registry!Serve(t) \/ UNCHANGED RVars
<1>1. pc[t] = "serialise" /\ call[t] \in Calls /\ call[t].op = "add" /\ call' = call
  BY DEF AddServiceJob, IInv, ThreadInv, CallInv
<1>2. CASE \E key \in KeysFor(call[t].id) :
             /\ Storage!Ask(t, [op |-> "add", key |-> key, value |-> TextOf(call[t].job)])
             /\ Goto(t, "stored") /\ UNCHANGED result
  BY <1>1, <1>2, AskHides DEF Goto
<1>3. CASE Returns(t, FALSE) /\ UNCHANGED storageVars
  <2>1. /\ pc'[t] = "done" /\ result'[t] = FALSE /\ UNCHANGED <<contents, phase, answer, fallible>>
        /\ \A u \in Threads \ {t} : Untouched(u)
    BY <1>1, <1>3 DEF Returns, Goto, storageVars, Untouched, IInv, Shape
  <2>2. CallPhase(t) = "asked" /\ CallPhase(t)' = "answered"
    BY <1>1, <2>1 DEF CallPhase, Waiting
  <2>3. JobAnswer(t)' = [result |-> FALSE, entries |-> Registry!Nothing]
    BY <1>1, <2>1 DEF JobAnswer, Waiting, NoJobs, Registry!Nothing
  <2>4. AskBar' = AskBar /\ AskBar[t].op = "add"
    BY <1>1, JobRequests DEF AskBar, JobRequest
  <2>5. Registry!ServeAdd(t)
    BY <2>1, <2>3, <2>4, StepOfOne DEF Registry!ServeAdd, Registry!Answers, AskBar, AnswerBar
  <2> QED
    BY <2>1, <2>2, <2>4, <2>5, StepOfOne DEF Registry!Serve, PhaseBar, AskBar
<1> QED
  BY <1>2, <1>3 DEF AddServiceJob

LEMMA QueryMaps ==
  ASSUME IInv, NEW t \in Threads, QueryServiceJob(t)
  PROVE  UNCHANGED RVars
BY AskHides DEF QueryServiceJob, Goto

LEMMA GetAllMaps ==
  ASSUME IInv, NEW t \in Threads, GetAllServiceJobs(t)
  PROVE  Registry!Serve(t) \/ UNCHANGED RVars
<1>1. pc[t] = "list" /\ call[t] \in Calls /\ call[t].op = "all" /\ call' = call
  BY DEF GetAllServiceJobs, IInv, ThreadInv, CallInv
<1>2. CASE /\ Storage!Ask(t, [op |-> "iterate", key |-> NULL, value |-> NULL])
           /\ Goto(t, "collect") /\ UNCHANGED result
  BY <1>1, <1>2, AskHides DEF Goto
<1>3. CASE fallible /\ Returns(t, AllJobs(FALSE, NoJobs)) /\ UNCHANGED storageVars
  <2>1. /\ pc'[t] = "done" /\ result'[t] = AllJobs(FALSE, NoJobs)
        /\ UNCHANGED <<contents, phase, answer, fallible>>
        /\ \A u \in Threads \ {t} : Untouched(u)
    BY <1>1, <1>3 DEF Returns, Goto, storageVars, Untouched, IInv, Shape
  <2>2. CallPhase(t) = "asked" /\ CallPhase(t)' = "answered"
    BY <1>1, <2>1 DEF CallPhase, Waiting
  <2>3. JobAnswer(t)' = [result |-> FALSE, entries |-> Registry!Nothing]
    <3>1. JobAnswer(t)' = [result |-> FALSE, entries |-> [k \in Ids |-> DataOf(NoJobs[k])]]
      BY <1>1, <2>1 DEF JobAnswer, Waiting, AllJobs, DataOf
    <3>2. [k \in Ids |-> DataOf(NoJobs[k])] = Registry!Nothing
      BY DEF NoJobs, DataOf, Registry!Nothing
    <3> QED
      BY <3>1, <3>2
  <2>4. AskBar' = AskBar /\ AskBar[t].op = "iterate"
    BY <1>1, JobRequests DEF AskBar, JobRequest
  <2>5. Registry!Nothing \in Registry!SubMaps(contents)
    BY NothingShown
  <2>6. Registry!ServeIterate(t)
    BY <1>3, <2>1, <2>3, <2>4, <2>5, StepOfOne
    DEF Registry!ServeIterate, Registry!Answers, AskBar, AnswerBar
  <2> QED
    BY <2>1, <2>2, <2>4, <2>6, StepOfOne DEF Registry!Serve, PhaseBar, AskBar
<1> QED
  BY <1>2, <1>3 DEF GetAllServiceJobs

\* What was added is passed on, and what was found is made a job or is lost.
LEMMA ReplyMoves ==
  ASSUME IInv, NEW t \in Threads, Storage!Reply(t), UNCHANGED call, NEW r, Returns(t, r),
         pc[t] \in {"stored", "rebuild", "collect"}
  PROVE  /\ pc'[t] = "done" /\ result'[t] = r /\ call'[t] = call[t]
         /\ UNCHANGED <<contents, fallible>> /\ \A u \in Threads \ {t} : Untouched(u)
         /\ CallPhase(t) = "answered" /\ CallPhase(t)' = "answered"
         /\ phase[t] = "answered" /\ JobAnswer(t) = answer[t]
<1> USE DEF Returns, Goto
<1>1. phase[t] = "answered" /\ pc'[t] = "done" /\ result'[t] = r
  BY DEF Storage!Reply, IInv, Shape
<1>2. UNCHANGED <<contents, fallible>> /\ \A u \in Threads \ {t} : Untouched(u)
  BY DEF Storage!Reply, Untouched, IInv, Shape
<1> QED
  BY <1>1, <1>2 DEF CallPhase, Waiting, JobAnswer

LEMMA StoredMaps ==
  ASSUME IInv, NEW t \in Threads, Stored(t)
  PROVE  UNCHANGED RVars
<1>1. /\ pc[t] = "stored" /\ phase[t] = "answered" /\ call[t] \in Calls
      /\ call[t].op = "add" /\ ask[t].op = JobRequest(call[t]).op
      /\ answer[t] \in Answered(ask[t].op)
  BY DEF Stored, Storage!Reply, IInv, ThreadInv, CallInv, AskInv, AnswerInv
<1>2. ask[t].op = "add"
  BY <1>1, JobRequests
<1>3. answer[t] = [result |-> answer[t].result, entries |-> NoJobs]
  BY <1>1, <1>2 DEF Answered
<1>4. /\ pc'[t] = "done" /\ result'[t] = answer[t].result /\ call'[t] = call[t]
      /\ UNCHANGED <<contents, fallible>> /\ \A u \in Threads \ {t} : Untouched(u)
      /\ CallPhase(t)' = CallPhase(t) /\ JobAnswer(t) = answer[t]
  BY <1>1, ReplyMoves DEF Stored
<1>5. JobAnswer(t)' = [result |-> answer[t].result, entries |-> NoJobs]
  BY <1>1, <1>4 DEF JobAnswer, Waiting, NoJobs
<1> QED
  BY <1>3, <1>4, <1>5, HiddenStep

\* An answer that is passed on as it came, or lost as Lose has it.
LEMMA PassedOn ==
  ASSUME NEW t \in Threads, CallPhase(t) = "answered", CallPhase(t)' = "answered",
         call'[t] = call[t], UNCHANGED <<contents, fallible>>,
         \A u \in Threads \ {t} : Untouched(u),
         \/ JobAnswer(t)' = JobAnswer(t)
         \/ /\ fallible
            /\ \/ /\ JobRequest(call[t]).op \in {"get", "remove"}
                  /\ JobAnswer(t)' = [result |-> NULL, entries |-> Registry!Nothing]
               \/ /\ JobRequest(call[t]).op = "iterate"
                  /\ \E shown \in Registry!SubMaps(JobAnswer(t).entries) :
                       JobAnswer(t)' = [result |-> JobAnswer(t).result, entries |-> shown]
  PROVE  Registry!Lose(t) \/ UNCHANGED RVars
<1>1. CASE JobAnswer(t)' = JobAnswer(t)
  BY <1>1, HiddenStep
<1>2. CASE JobAnswer(t)' # JobAnswer(t)
  <2>1. JobRequest(call[t])' = JobRequest(call[t])
    BY DEF JobRequest
  <2>2. PhaseBar' = PhaseBar /\ AskBar' = AskBar /\ PhaseBar[t] = "answered"
    BY <2>1, StepOfOne DEF PhaseBar, AskBar
  <2>3. /\ AnswerBar[t] = JobAnswer(t) /\ AnswerBar' = [AnswerBar EXCEPT ![t] = JobAnswer(t)']
        /\ AskBar[t] = JobRequest(call[t])
    BY StepOfOne DEF AnswerBar, AskBar
  <2>4. CASE /\ JobRequest(call[t]).op \in {"get", "remove"}
             /\ JobAnswer(t)' = [result |-> NULL, entries |-> Registry!Nothing]
    BY <1>2, <2>2, <2>3, <2>4 DEF Registry!Lose, Registry!Answers, PhaseBar, AskBar, AnswerBar
  <2>5. CASE /\ JobRequest(call[t]).op = "iterate"
             /\ \E shown \in Registry!SubMaps(JobAnswer(t).entries) :
                  JobAnswer(t)' = [result |-> JobAnswer(t).result, entries |-> shown]
    BY <1>2, <2>2, <2>3, <2>5 DEF Registry!Lose, Registry!Answers, PhaseBar, AskBar, AnswerBar
  <2> QED
    BY <1>2, <2>4, <2>5
<1> QED
  BY <1>1, <1>2

LEMMA RebuildMaps ==
  ASSUME IInv, NEW t \in Threads, Rebuild(t)
  PROVE  Registry!Lose(t) \/ UNCHANGED RVars
<1> DEFINE text == answer[t].result
<1>1. /\ pc[t] = "rebuild" /\ phase[t] = "answered" /\ call[t] \in Calls
      /\ call[t].op \in {"get", "remove", "finished"} /\ ask[t].op = JobRequest(call[t]).op
      /\ answer[t] \in Answered(ask[t].op)
  BY DEF Rebuild, Storage!Reply, IInv, ThreadInv, CallInv, AskInv, AnswerInv
<1>2. ask[t].op \in {"get", "remove"} /\ JobRequest(call[t]).op \in {"get", "remove"}
  BY <1>1, JobRequests
<1>3. answer[t] = [result |-> text, entries |-> NoJobs] /\ text \in Texts
  BY <1>1, <1>2 DEF Answered
<1>4. PICK job \in IF text = NULL THEN {NULL} ELSE RebuildServiceJob(text) : Returns(t, job)
  BY DEF Rebuild
<1>5. /\ pc'[t] = "done" /\ result'[t] = job /\ call'[t] = call[t]
      /\ UNCHANGED <<contents, fallible>> /\ \A u \in Threads \ {t} : Untouched(u)
      /\ CallPhase(t) = "answered" /\ CallPhase(t)' = "answered" /\ JobAnswer(t) = answer[t]
  BY <1>1, <1>4, ReplyMoves DEF Rebuild
<1>6. JobAnswer(t)' = [result |-> DataOf(job), entries |-> Registry!Nothing]
  BY <1>1, <1>5 DEF JobAnswer, Waiting, NoJobs, Registry!Nothing, DataOf
<1>7. DataOf(job) = text \/ (fallible /\ DataOf(job) = NULL)
  <2>1. NULL \notin ServiceJobs
    BY JobsAssumption DEF ServiceJobs
  <2> QED
    BY <1>3, <1>4, <2>1, Rebuilt DEF DataOf, Texts, IInv, Shape
<1>8. NoJobs = Registry!Nothing
  BY DEF NoJobs, Registry!Nothing
<1>9. \/ JobAnswer(t)' = JobAnswer(t)
      \/ fallible /\ JobAnswer(t)' = [result |-> NULL, entries |-> Registry!Nothing]
  BY <1>3, <1>5, <1>6, <1>7, <1>8
<1> QED
  BY <1>2, <1>5, <1>9, PassedOn

\* A list of jobs is a part of the entries that were shown, and all of them if
\* nothing can fail.
LEMMA ListedEntries ==
  ASSUME ~Compressing, fallible \in BOOLEAN, NEW entries \in TextMaps,
         NEW jobs \in Listed(entries)
  PROVE  /\ [k \in Ids |-> DataOf(jobs[k])] \in Registry!SubMaps(entries)
         /\ ~fallible => [k \in Ids |-> DataOf(jobs[k])] = entries
<1> DEFINE kept == {k \in Ids : jobs[k] # NULL}
<1>1. NULL \notin ServiceJobs
  BY JobsAssumption DEF ServiceJobs
<1>2. ASSUME NEW k \in Ids
      PROVE  /\ DataOf(jobs[k]) = IF k \in kept THEN entries[k] ELSE NULL
             /\ ~fallible => DataOf(jobs[k]) = entries[k]
  <2>1. jobs[k] \in IF entries[k] = NULL THEN {NULL} ELSE RebuildServiceJob(entries[k])
    BY DEF Listed
  <2>2. CASE entries[k] = NULL
    BY <2>1, <2>2 DEF DataOf
  <2>3. CASE entries[k] # NULL
    <3>1. entries[k] \in Data
      BY <2>3 DEF TextMaps, Texts
    <3> QED
      BY <1>1, <2>1, <2>3, <3>1, Rebuilt DEF DataOf
  <2> QED
    BY <2>2, <2>3
<1>3. [k \in Ids |-> DataOf(jobs[k])] = [k \in Ids |-> IF k \in kept THEN entries[k] ELSE NULL]
  BY <1>2
<1>4. [k \in Ids |-> DataOf(jobs[k])] \in Registry!SubMaps(entries)
  BY <1>3 DEF Registry!SubMaps
<1>5. ~fallible => [k \in Ids |-> DataOf(jobs[k])] = entries
  BY <1>2 DEF TextMaps
<1> QED
  BY <1>4, <1>5

LEMMA CollectMaps ==
  ASSUME ~Compressing, IInv, NEW t \in Threads, Collect(t)
  PROVE  Registry!Lose(t) \/ UNCHANGED RVars
<1> DEFINE entries == answer[t].entries
<1>1. /\ pc[t] = "collect" /\ phase[t] = "answered" /\ call[t] \in Calls
      /\ call[t].op = "all" /\ ask[t].op = JobRequest(call[t]).op
      /\ answer[t] \in Answered(ask[t].op)
  BY DEF Collect, Storage!Reply, IInv, ThreadInv, CallInv, AskInv, AnswerInv
<1>2. ask[t].op = "iterate" /\ JobRequest(call[t]).op = "iterate"
  BY <1>1, JobRequests
<1>3. answer[t] = [result |-> answer[t].result, entries |-> entries] /\ entries \in TextMaps
  BY <1>1, <1>2 DEF Answered
<1>4. PICK jobs \in Listed(entries) : Returns(t, AllJobs(answer[t].result, jobs))
  BY DEF Collect
<1> DEFINE shown == [k \in Ids |-> DataOf(jobs[k])]
<1>5. /\ pc'[t] = "done" /\ result'[t] = AllJobs(answer[t].result, jobs) /\ call'[t] = call[t]
      /\ UNCHANGED <<contents, fallible>> /\ \A u \in Threads \ {t} : Untouched(u)
      /\ CallPhase(t) = "answered" /\ CallPhase(t)' = "answered" /\ JobAnswer(t) = answer[t]
  BY <1>1, <1>4, ReplyMoves DEF Collect
<1>6. JobAnswer(t)' = [result |-> answer[t].result, entries |-> shown]
  BY <1>1, <1>5 DEF JobAnswer, Waiting, AllJobs, DataOf
<1>7. shown \in Registry!SubMaps(entries) /\ (~fallible => shown = entries)
  BY <1>3, <1>4, ListedEntries DEF IInv, Shape
<1>8. fallible \/ JobAnswer(t)' = JobAnswer(t)
  BY <1>3, <1>5, <1>6, <1>7 DEF IInv, Shape
<1> QED
  BY <1>2, <1>5, <1>6, <1>7, <1>8, PassedOn

\* The instant at which the storage serves a call is the one at which it takes effect.
LEMMA ServeMaps ==
  ASSUME ~UuidIsArray, IInv, NEW t \in Threads, StorageServes(t)
  PROVE  Registry!Serve(t) \/ Registry!ServeFaulty(t)
<1>1. ThreadInv(t) /\ contents \in TextMaps
  BY DEF IInv, Shape
<1>2. phase[t] = "asked" /\ UNCHANGED <<pc, call, result>>
  BY DEF StorageServes, Storage!Serve, Storage!ServeFaulty
<1>3. /\ pc[t] \in {"stored", "rebuild", "collect"} /\ ask[t] \in StorageRequests
      /\ ask[t] = JobRequest(call[t])
  BY <1>1, <1>2 DEF ThreadInv, AskInv, IInv, Shape, Steps
<1>4. /\ phase' = [phase EXCEPT ![t] = "answered"] /\ UNCHANGED <<ask, fallible>>
      /\ \E a : answer' = [answer EXCEPT ![t] = a]
  BY <1>1, <1>3, StorageAnswers DEF StorageServes
<1>5. \A u \in Threads \ {t} : Untouched(u)
  BY <1>2, <1>4 DEF Untouched, IInv, Shape
<1>6. /\ CallPhase(t) = "asked" /\ CallPhase(t)' = "answered"
      /\ JobAnswer(t)' = answer'[t]
  <2>1. pc'[t] = pc[t] /\ phase'[t] = "answered"
    BY <1>2, <1>4 DEF IInv, Shape
  <2> QED
    BY <1>2, <1>3, <2>1 DEF CallPhase, Waiting, JobAnswer
<1>7. /\ PhaseBar[t] = "asked" /\ PhaseBar' = [PhaseBar EXCEPT ![t] = "answered"]
      /\ AnswerBar' = [AnswerBar EXCEPT ![t] = answer'[t]]
      /\ AskBar' = AskBar /\ AskBar[t] = ask[t]
  <2>1. AskBar' = AskBar
    BY <1>2 DEF AskBar, JobRequest
  <2> QED
    BY <1>3, <1>5, <1>6, <2>1, StepOfOne DEF PhaseBar, AskBar
<1>8. ASSUME NEW r, NEW e, Storage!Answers(t, r, e)
      PROVE  Registry!Answers(t, r, e)
  <2>1. answer'[t] = [result |-> r, entries |-> e]
    BY <1>8 DEF Storage!Answers, IInv, Shape
  <2> QED
    BY <1>7, <2>1 DEF Registry!Answers, AnswerBar
<1>9. Storage!Nothing = Registry!Nothing
  BY DEF Storage!Nothing, Registry!Nothing
<1>10. \A m : Storage!SubMaps(m) = Registry!SubMaps(m)
  BY DEF Storage!SubMaps, Registry!SubMaps
<1>11. CASE Storage!Serve(t)
  <2>1. Storage!ServeAdd(t) => Registry!ServeAdd(t)
    BY <1>7, <1>8, <1>9, <1>10 DEF Storage!ServeAdd, Registry!ServeAdd, AskBar
  <2>2. Storage!ServeGet(t) => Registry!ServeGet(t)
    BY <1>7, <1>8, <1>9 DEF Storage!ServeGet, Registry!ServeGet, AskBar
  <2>3. Storage!ServeRemove(t) => Registry!ServeRemove(t)
    BY <1>7, <1>8, <1>9 DEF Storage!ServeRemove, Registry!ServeRemove, AskBar
  <2>4. Storage!ServeIterate(t) => Registry!ServeIterate(t)
    BY <1>7, <1>8, <1>10 DEF Storage!ServeIterate, Registry!ServeIterate, AskBar
  <2> QED
    BY <1>4, <1>7, <1>11, <2>1, <2>2, <2>3, <2>4
    DEF Storage!Serve, Registry!Serve, PhaseBar, AskBar
<1>12. CASE Storage!ServeFaulty(t)
  <2>1. Storage!ServeRemoveFaulty(t) => Registry!ServeRemoveFaulty(t)
    BY <1>7, <1>8, <1>9 DEF Storage!ServeRemoveFaulty, Registry!ServeRemoveFaulty, AskBar
  <2>2. Storage!ServeIterateFaulty(t) => Registry!ServeIterateFaulty(t)
    BY <1>7, <1>8, <1>9 DEF Storage!ServeIterateFaulty, Registry!ServeIterateFaulty, AskBar
  <2> QED
    BY <1>4, <1>7, <1>12, <2>1, <2>2
    DEF Storage!ServeFaulty, Registry!ServeFaulty, PhaseBar, AskBar
<1> QED
  BY <1>11, <1>12 DEF StorageServes

LEMMA EndMaps ==
  ASSUME IInv, NEW t \in Threads, Return(t) \/ Crash(t)
  PROVE  Registry!Reply(t) \/ Registry!Abandon(t)
<1> USE DEF Goto
<1>1. /\ pc'[t] = "idle" /\ call'[t] = NoCall /\ UNCHANGED <<contents, fallible>>
      /\ \A u \in Threads \ {t} : Untouched(u)
  BY DEF Return, Crash, Storage!Abandon, storageVars, Untouched, IInv, Shape
<1>2. /\ CallPhase(t)' = "idle" /\ JobRequest(call[t])' = NoRequest
      /\ JobAnswer(t)' = Registry!NoAnswer
  BY <1>1 DEF CallPhase, JobRequest, JobAnswer, NoCall, Storage!NoAnswer, Storage!Nothing,
              Registry!NoAnswer, Registry!Nothing
<1>3. /\ PhaseBar' = [PhaseBar EXCEPT ![t] = "idle"] /\ AskBar' = [AskBar EXCEPT ![t] = NoRequest]
      /\ AnswerBar' = [AnswerBar EXCEPT ![t] = Registry!NoAnswer] /\ PhaseBar[t] = CallPhase(t)
  BY <1>1, <1>2, StepOfOne DEF PhaseBar
<1>4. CASE Return(t)
  <2>1. CallPhase(t) = "answered"
    BY <1>4 DEF Return, CallPhase, Waiting
  <2> QED
    BY <1>1, <1>3, <2>1 DEF Registry!Reply, PhaseBar, AskBar, AnswerBar
<1>5. CASE Crash(t)
  <2>1. CallPhase(t) # "idle" /\ fallible
    BY <1>5 DEF Crash, CallPhase
  <2> QED
    BY <1>1, <1>3, <2>1 DEF Registry!Abandon, PhaseBar, AskBar, AnswerBar
<1> QED
  BY <1>4, <1>5

LEMMA StepMaps ==
  ASSUME ~Compressing, ~UuidIsArray, IInv, [Next]_vars
  PROVE  [Registry!LossyNext]_RVars
<1> USE DEF Registry!LossyNext, Registry!FaultyNext, Registry!Next
<1>1. CASE UNCHANGED vars
  BY <1>1 DEF vars, RVars, PhaseBar, AskBar, AnswerBar, CallPhase, Waiting, JobRequest,
              JobAnswer, DataOf, Storage!NoAnswer, Storage!Nothing
<1>2. ASSUME NEW t \in Threads, NEW m \in Calls, Call(t, m) PROVE Registry!LossyNext
  BY <1>2, CallMaps
<1>3. ASSUME NEW t \in Threads, Proceed(t) \/ Crash(t)
      PROVE  \/ Registry!Serve(t) \/ Registry!ServeFaulty(t) \/ Registry!Lose(t)
             \/ Registry!Reply(t) \/ Registry!Abandon(t) \/ UNCHANGED RVars
  BY <1>3, AddMaps, StoredMaps, QueryMaps, RebuildMaps, GetAllMaps, CollectMaps, ServeMaps,
     EndMaps DEF Proceed
<1> QED
  BY <1>1, <1>2, <1>3 DEF Next

\* However many threads add, get, remove, finish and list jobs at once, the manager
\* is one map of jobs on which each call takes effect at one instant, and under
\* faults a call only misses or loses what is there: the storage must not be
\* compressed and a UUID must not be an array.
THEOREM ImplementsRegistry ==
  ASSUME ~Compressing, ~UuidIsArray
  PROVE  Spec => RegistrySpec
<1>1. IInv /\ [Next]_vars => [Registry!LossyNext]_RVars
  BY StepMaps
<1>2. [Registry!LossyNext]_RVars => [Registry!LossyNext]_(Registry!vars)
  BY DEF RVars, Registry!vars, PhaseBar, AskBar, AnswerBar
<1> QED
  BY <1>1, <1>2, InitMaps, Invariance, PTL DEF Spec, RegistrySpec, Registry!LossySpec
=============================================================================
