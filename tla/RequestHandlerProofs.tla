-------------------------- MODULE RequestHandlerProofs --------------------------
(***************************************************************************)
(* Theorems about RequestHandler for any requests, configs and block size, *)
(* whichever calls fail.                                                   *)
(***************************************************************************)
EXTENDS RequestHandler, SequenceTheorems, WellFoundedInduction, TLAPS

\* The steps before a message can have been made, and those after the dispatch.
Reading == {"start", "post", "method", "user", "body", "read", "decode", "free_buffer",
            "params", "build"}
Handled == {"reply", "release", "done"}

\* Who takes which way.
FlowInv ==
  /\ pc \notin {"start", "done"} => req.for_grassroots
  /\ pc \in {"post", "user", "body", "read", "decode", "free_buffer"} => req.method = "POST"
  /\ pc \in {"params", "build", "find"} => req.method = "GET"
  /\ pc = "method" => req.method \notin {"POST", "GET"}

\* The buffer has the body as far as it was read.
BodyInv ==
  /\ buffer = SubSeq(req.body, 1, taken)
  /\ pc = "decode" /\ ~failed => taken = Len(req.body)
  /\ pc = "free_buffer" => failed

\* How far the message of a GET is: what is owned and what parameters it has.
N == Len(req.params)
ParamsMade(k) == params = SubSeq(req.params, 1, k)

At(s, objects) == step = s /\ owned = objects

ServiceBegun ==
  /\ params = <<>>
  /\ \/ At(1, {}) \/ At(2, {"service"}) \/ At(3, {"service", "parameter_set"})
     \/ At(4, {"service"}) \/ At(5, {"service", "params"})

ServiceParams ==
  \E k \in 0 .. N :
    /\ ParamsMade(k)
    /\ At(6 + 2 * k, {"service"}) \/ (k < N /\ At(7 + 2 * k, {"service", "param"}))

ServiceEnd ==
  /\ ParamsMade(N)
  /\ \/ At(7 + 2 * N, {"service", "message"})
     \/ At(8 + 2 * N, {"service", "message", "services"})
     \/ At(9 + 2 * N, {"service", "message"})
     \/ At(10 + 2 * N, {"message"})

ListStage == At(1, {}) \/ At(2, {"schema_version"}) \/ At(3, {"schema_version", "message"})

InfoStage ==
  \/ At(1, {}) \/ At(2, {"schema_version"}) \/ At(3, {"schema_version", "names"})
  \/ At(4, {"schema_version", "names", "name"}) \/ At(5, {"schema_version", "names"})
  \/ At(6, {"schema_version", "message"})

OtherStage == At(1, {}) \/ At(2, {"schema_version"})

BuildStage ==
  CASE req.path = "service" -> ServiceBegun \/ ServiceParams \/ ServiceEnd
    [] req.path = "list_services" -> ListStage /\ params = <<>>
    [] req.path = "service_info" /\ ServiceAsked(req) # {} -> InfoStage /\ params = <<>>
    [] OTHER -> OtherStage /\ params = <<>>

\* Until the last step is made, what is owned has been made, and what the ends would
\* release of what has been made is owned.
OwnedAreMade ==
  step <= Len(PlanFor(req)) => owned \subseteq Made /\ Released \cap Made \subseteq owned

BuildInv ==
  /\ pc \in {"start", "params"} => step = 1 /\ params = <<>>
  /\ pc = "build" => BuildStage /\ uri = req.root /\ OwnedAreMade

\* The message is what was sent up to one of its ends or nothing, all of it if nothing
\* failed, and it is for the right server.
MessageFits ==
  IF req.method = "POST"
  THEN message \in JSONTexts /\ \E n \in EndsOfBody : message = SubSeq(req.body, 1, n)
  ELSE message = SentMessage

MessageInv ==
  /\ pc \in Reading => message = NULL
  /\ message # NULL =>
       /\ MessageFits
       /\ uri = IF req.method = "POST" THEN req.uri ELSE req.root
       /\ pc # "find" => server = SentTo
  /\ pc \notin Reading /\ ~failed /\ req.for_grassroots /\ SentTo # NULL /\ SentMessage # NULL
       => message = SentMessage

ServerInv ==
  /\ pc \in {"start", "post", "method", "params", "build", "find"} => server = NULL
  /\ pc \in {"user", "body", "read", "decode", "free_buffer"} =>
       uri = req.uri /\ server = SentTo /\ server # NULL
  /\ pc \in {"process", "reply", "release"} => message # NULL /\ server # NULL

UserInv ==
  /\ user \in Senders
  /\ user # NULL => server # NULL
  /\ pc \in {"start", "post", "user", "method", "params", "build", "find"} => user = NULL

Kept == (IF message = NULL THEN {} ELSE {"message"}) \cup (IF user = NULL THEN {} ELSE {"user"})

\* What is owned but for the copy of a forename, which nothing releases.
OwnedInv ==
  /\ pc \in {"start", "post", "method", "user", "params", "body", "find", "dispatch",
             "process", "release"} => owned \ {"forename"} = Kept
  /\ pc \in {"read", "decode", "free_buffer"} => owned \ {"forename"} = Kept \cup {"buffer"}
  /\ pc = "reply" => owned \ {"forename"} = Kept \cup {"result"}
  /\ "forename" \in owned =>
       /\ AuthSystem = "openid" /\ Claim \in FullNames
       /\ pc \notin {"start", "post", "method", "user", "params", "build", "find"}
  /\ pc \notin {"find", "dispatch", "process", "reply", "release", "done"} => again = {}

Outputs == {"error decoding response", "error getting input data",
            "error processing request", "result"}

AnswerInv ==
  /\ output \in Seq(Outputs)
  /\ pc \notin Handled => processed = NULL
  /\ pc \notin Handled /\ (pc # "dispatch" \/ message # NULL) =>
       status = DECLINED /\ output = <<>>
  /\ pc \in {"reply", "release"} =>
       processed = [server |-> SentTo, message |-> message, user |-> user]
       /\ processed # NULL
  /\ pc = "reply" => status = DECLINED /\ output = <<>>
  /\ pc = "release" =>
       \/ status = OK /\ output = <<"result">>
       \/ status = HTTP_BAD_REQUEST /\ output = <<"error processing request">>
       \/ status = HTTP_INTERNAL_SERVER_ERROR /\ failed /\ output = <<>>

DoneInv ==
  pc = "done" => ProcessedAsSent /\ SentIsProcessed /\ AnswerMatches /\ AllReleased

IInv ==
  /\ TypeOK /\ FlowInv /\ BodyInv /\ BuildInv /\ MessageInv /\ ServerInv /\ UserInv
  /\ OwnedInv /\ AnswerInv /\ DoneInv /\ ReleasedOnce

-----------------------------------------------------------------------------
(* The plan for a GET of a service.                                          *)

Items == [do: {"make", "attach", "wrap"},
          object: {"message", "schema_version", "service", "parameter_set", "params", "param",
                   "services", "names", "name"}]

LEMMA AddParamsItems ==
  ASSUME NEW n \in Nat
  PROVE  /\ AddParams(n) \in Seq(Items) /\ Len(AddParams(n)) = 2 * n
         /\ \A k \in 0 .. n - 1 : /\ AddParams(n)[2 * k + 1] = Make("param")
                                 /\ AddParams(n)[2 * k + 2] = Attach("param")
<1>1. \A i \in 1 .. 2 * n : AddParams(n)[i] \in Items
  <2>1. Make("param") \in Items /\ Attach("param") \in Items
    BY DEF Items, Make, Attach
  <2> QED
    BY <2>1 DEF AddParams
<1>2. AddParams(n) \in [1 .. 2 * n -> Items]
  BY <1>1 DEF AddParams
<1>3. AddParams(n) \in Seq(Items) /\ Len(AddParams(n)) = 2 * n
  BY <1>2
<1>4. ASSUME NEW k \in 0 .. n - 1
      PROVE  AddParams(n)[2 * k + 1] = Make("param") /\ AddParams(n)[2 * k + 2] = Attach("param")
  <2>1. 2 * k + 1 \in 1 .. 2 * n /\ 2 * k + 2 \in 1 .. 2 * n
    OBVIOUS
  <2>2. (2 * k + 1) % 2 = 1 /\ (2 * k + 2) % 2 = 0
    OBVIOUS
  <2> QED
    BY <2>1, <2>2 DEF AddParams
<1> QED
  BY <1>3, <1>4

LEMMA ServicePlanItems ==
  ASSUME NEW n \in Nat
  PROVE  /\ Len(ServicePlan(n)) = 9 + 2 * n
         /\ ServicePlan(n)[1] = Make("service")
         /\ ServicePlan(n)[2] = Make("parameter_set")
         /\ ServicePlan(n)[3] = Attach("parameter_set")
         /\ ServicePlan(n)[4] = Make("params")
         /\ ServicePlan(n)[5] = Attach("params")
         /\ \A k \in 0 .. n - 1 : /\ ServicePlan(n)[6 + 2 * k] = Make("param")
                                 /\ ServicePlan(n)[7 + 2 * k] = Attach("param")
         /\ ServicePlan(n)[6 + 2 * n] = Make("message")
         /\ ServicePlan(n)[7 + 2 * n] = Make("services")
         /\ ServicePlan(n)[8 + 2 * n] = Attach("services")
         /\ ServicePlan(n)[9 + 2 * n] = Attach("service")
<1> DEFINE begin == <<Make("service"), Make("parameter_set"), Attach("parameter_set"),
                      Make("params"), Attach("params")>>
           end == <<Make("message"), Make("services"), Attach("services"), Attach("service")>>
           first == begin \o AddParams(n)
<1>1. /\ begin \in Seq(Items) /\ Len(begin) = 5
      /\ end \in Seq(Items) /\ Len(end) = 4
  BY DEF Items, Make, Attach
<1>2. /\ AddParams(n) \in Seq(Items) /\ Len(AddParams(n)) = 2 * n
      /\ \A k \in 0 .. n - 1 : /\ AddParams(n)[2 * k + 1] = Make("param")
                              /\ AddParams(n)[2 * k + 2] = Attach("param")
  BY AddParamsItems
<1>3. /\ first \in Seq(Items) /\ Len(first) = 5 + 2 * n
      /\ \A i \in 1 .. 5 + 2 * n : first[i] = IF i <= 5 THEN begin[i] ELSE AddParams(n)[i - 5]
  <2> HIDE DEF begin
  <2>1. /\ first \in Seq(Items) /\ Len(first) = Len(begin) + Len(AddParams(n))
        /\ \A i \in 1 .. Len(begin) + Len(AddParams(n)) :
             first[i] = IF i <= Len(begin) THEN begin[i] ELSE AddParams(n)[i - Len(begin)]
    BY <1>1, <1>2, ConcatProperties, Zenon
  <2> QED
    BY <1>1, <1>2, <2>1
<1>4. /\ Len(first \o end) = 9 + 2 * n
      /\ \A i \in 1 .. 9 + 2 * n :
           (first \o end)[i] = IF i <= 5 + 2 * n THEN first[i] ELSE end[i - (5 + 2 * n)]
  <2> HIDE DEF first, end
  <2>1. /\ Len(first \o end) = Len(first) + Len(end)
        /\ \A i \in 1 .. Len(first) + Len(end) :
             (first \o end)[i] = IF i <= Len(first) THEN first[i] ELSE end[i - Len(first)]
    BY <1>1, <1>3, ConcatProperties, Zenon
  <2> QED
    BY <1>1, <1>3, <2>1
<1>5. ServicePlan(n) = first \o end
  BY DEF ServicePlan
<1>6. /\ begin[1] = Make("service") /\ begin[2] = Make("parameter_set")
      /\ begin[3] = Attach("parameter_set") /\ begin[4] = Make("params")
      /\ begin[5] = Attach("params")
      /\ end[1] = Make("message") /\ end[2] = Make("services")
      /\ end[3] = Attach("services") /\ end[4] = Attach("service")
  OBVIOUS
<1> HIDE DEF begin, end, first
<1>7. ASSUME NEW k \in 0 .. n - 1
      PROVE  /\ ServicePlan(n)[6 + 2 * k] = Make("param")
             /\ ServicePlan(n)[7 + 2 * k] = Attach("param")
  BY <1>2, <1>3, <1>4, <1>5
<1> QED
  BY <1>3, <1>4, <1>5, <1>6, <1>7

-----------------------------------------------------------------------------
\* The sequences of a request, and the length of what is made of it.
LEMMA RequestTypes ==
  ASSUME NEW r \in Requests
  PROVE  /\ r.body \in Seq({r.body[i] : i \in DOMAIN r.body}) /\ Len(r.body) \in Nat
         /\ r.params \in Seq({r.params[i] : i \in DOMAIN r.params}) /\ Len(r.params) \in Nat
         /\ Len(PlanFor(r)) \in Nat
<1>1. /\ r.body \in Seq({r.body[i] : i \in DOMAIN r.body}) /\ Len(r.body) \in Nat
      /\ r.params \in Seq({r.params[i] : i \in DOMAIN r.params}) /\ Len(r.params) \in Nat
  BY KeyValueAssumption, LenProperties DEF IsSeq
<1>2. Len(ServicePlan(Len(r.params))) \in Nat
  BY <1>1, ServicePlanItems
<1>3. Len(ListPlan) = 2 /\ Len(InfoPlan) = 5 /\ Len(<<Make("schema_version")>>) = 1
  BY DEF ListPlan, InfoPlan
<1> QED
  BY <1>1, <1>2, <1>3 DEF PlanFor

\* What depends on the request and its config alone.
LEMMA SameRequest ==
  ASSUME UNCHANGED <<req, config>>
  PROVE  /\ SentMessage' = SentMessage /\ SentTo' = SentTo /\ Senders' = Senders
         /\ AuthSystem' = AuthSystem /\ Claim' = Claim
         /\ N' = N
<1>1. SentMessage' = SentMessage
  BY DEF SentMessage
<1>2. SentTo' = SentTo
  BY DEF SentTo, ServerAt
<1>3. AuthSystem' = AuthSystem /\ Claim' = Claim
  BY DEF AuthSystem, Claim, ClaimPrefix
<1>4. Senders' = Senders
  BY <1>3 DEF Senders
<1> QED
  BY <1>1, <1>2, <1>3, <1>4 DEF N

\* A message that fits its request goes on to do so: no more ends are lost.
LEMMA SameMessage ==
  ASSUME UNCHANGED <<req, config, message, taken>>, failed \in BOOLEAN, failed' \in BOOLEAN,
         failed => failed', MessageFits
  PROVE  MessageFits'
<1>1. SentMessage' = SentMessage
  BY SameRequest
<1>2. EndsOfBody \subseteq EndsOfBody'
  BY DEF EndsOfBody
<1> QED
  BY <1>1, <1>2 DEF MessageFits

LEMMA Below ==
  ASSUME NEW n \in Nat, NEW k \in 0 .. n
  PROVE  k <= k /\ (k # n => k \in 0 .. n - 1)
  OBVIOUS

LEMMA PrefixOf ==
  ASSUME NEW S, NEW s \in Seq(S), NEW k \in 0 .. Len(s)
  PROVE  SubSeq(s, 1, k) \in Seq(S) /\ Len(SubSeq(s, 1, k)) = k
         /\ \A i \in 1 .. k : SubSeq(s, 1, k)[i] = s[i]
<1>1. k \in Int /\ \A i \in 1 .. k : s[i] \in S
  OBVIOUS
<1> QED
  BY <1>1, SubSeqProperties

\* A prefix of a prefix is one.
LEMMA PrefixTwice ==
  ASSUME NEW S, NEW s \in Seq(S), NEW k \in 0 .. Len(s), NEW n \in 0 .. k
  PROVE  SubSeq(SubSeq(s, 1, k), 1, n) = SubSeq(s, 1, n)
<1> DEFINE a == SubSeq(s, 1, k)  b == SubSeq(a, 1, n)  c == SubSeq(s, 1, n)
<1>1. a \in Seq(S) /\ Len(a) = k /\ \A i \in 1 .. k : a[i] = s[i]
  BY PrefixOf
<1>2. n \in 0 .. Len(s) /\ n \in 0 .. Len(a)
  BY <1>1
<1>3. c \in Seq(S) /\ Len(c) = n /\ \A i \in 1 .. n : c[i] = s[i]
  BY <1>2, PrefixOf
<1> HIDE DEF a
<1>4. b \in Seq(S) /\ Len(b) = n /\ \A i \in 1 .. n : b[i] = a[i]
  BY <1>1, <1>2, PrefixOf
<1> HIDE DEF b, c
<1>5. \A i \in 1 .. n : b[i] = c[i]
  BY <1>1, <1>3, <1>4
<1>6. b = c
  BY <1>3, <1>4, <1>5, SeqEqual
<1> QED
  BY <1>6 DEF a, b, c

LEMMA Smallest ==
  ASSUME NEW T, T \subseteq Nat, T # {}
  PROVE  \E x \in T : \A y \in T : x =< y
<1>1. \E x \in T : \A y \in T : ~(<<y, x>> \in OpToRel(<, Nat))
  BY NatLessThanWellFounded, WFMin, Zenon
<1>2. PICK x \in T : \A y \in T : ~(<<y, x>> \in OpToRel(<, Nat))
  BY <1>1
<1>3. \A y \in T : ~(y < x)
  BY <1>2 DEF OpToRel
<1> QED
  BY <1>3

\* json_loads sees a buffer up to its first Nul.
LEMMA CStringEnds ==
  ASSUME NEW S, NEW b \in Seq(S)
  PROVE  /\ (\A i \in DOMAIN b : b[i] # Nul) => CString(b) = b
         /\ \E n \in 0 .. Len(b) : /\ CString(b) = SubSeq(b, 1, n)
                                   /\ n = Len(b) \/ b[n + 1] = Nul
<1>1. CASE Nuls(b) = {}
  <2>1. CString(b) = b
    BY <1>1 DEF CString
  <2>2. b = SubSeq(b, 1, Len(b)) /\ Len(b) \in 0 .. Len(b)
    BY SubSeqFull
  <2> QED
    BY <2>1, <2>2, Zenon
<1>2. CASE Nuls(b) # {}
  <2>1. FirstNul(b) \in Nuls(b)
    <3>1. Nuls(b) \subseteq Nat
      BY DEF Nuls
    <3>2. \E x \in Nuls(b) : \A y \in Nuls(b) : x =< y
      BY <1>2, <3>1, Smallest, Zenon
    <3> QED
      BY <3>2 DEF FirstNul
  <2>2. CString(b) = SubSeq(b, 1, FirstNul(b) - 1)
    BY <1>2 DEF CString
  <2>3. /\ FirstNul(b) - 1 \in 0 .. Len(b) /\ FirstNul(b) - 1 + 1 = FirstNul(b)
        /\ b[FirstNul(b)] = Nul
    BY <2>1 DEF Nuls
  <2>4. \E n \in 0 .. Len(b) : CString(b) = SubSeq(b, 1, n) /\ b[n + 1] = Nul
    BY <2>2, <2>3
  <2>5. ~\A i \in DOMAIN b : b[i] # Nul
    BY <1>2 DEF Nuls
  <2> QED
    BY <2>4, <2>5
<1> QED
  BY <1>1, <1>2

LEMMA PrefixGrows ==
  ASSUME NEW S, NEW s \in Seq(S), NEW k \in Nat, NEW n \in Nat, k + n <= Len(s)
  PROVE  SubSeq(s, 1, k) \o SubSeq(s, k + 1, k + n) = SubSeq(s, 1, k + n)
<1> DEFINE a == SubSeq(s, 1, k)  b == SubSeq(s, k + 1, k + n)  c == SubSeq(s, 1, k + n)
<1>1. /\ a \in Seq(S) /\ Len(a) = k /\ \A i \in 1 .. k : a[i] = s[i]
      /\ c \in Seq(S) /\ Len(c) = k + n /\ \A i \in 1 .. k + n : c[i] = s[i]
  BY PrefixOf
<1>2. b \in Seq(S) /\ Len(b) = n /\ \A i \in 1 .. n : b[i] = s[k + i]
  <2>1. /\ k + 1 \in Int /\ k + n \in Int
        /\ \A i \in k + 1 .. k + n : s[i] \in S
    OBVIOUS
  <2>2. /\ b \in Seq(S)
        /\ Len(b) = IF k + 1 <= k + n THEN (k + n) - (k + 1) + 1 ELSE 0
        /\ \A i \in 1 .. (k + n) - (k + 1) + 1 : b[i] = s[(k + 1) + i - 1]
    BY <2>1, SubSeqProperties
  <2> QED
    BY <2>2
<1> HIDE DEF a, b, c
<1>3. a \in Seq(S) /\ b \in Seq(S)
  BY <1>1, <1>2
<1>4. /\ a \o b \in Seq(S) /\ Len(a \o b) = Len(a) + Len(b)
      /\ \A i \in 1 .. Len(a) + Len(b) :
           (a \o b)[i] = IF i <= Len(a) THEN a[i] ELSE b[i - Len(a)]
  BY <1>3, ConcatProperties, Zenon
<1>6. ASSUME NEW i \in 1 .. k + n
      PROVE  (a \o b)[i] = c[i]
  <2>1. CASE i <= k
    <3>1. i \in 1 .. k
      BY <2>1
    <3>2. (a \o b)[i] = a[i]
      BY <1>1, <1>2, <1>4, <2>1
    <3> QED
      BY <1>1, <3>1, <3>2
  <2>2. CASE ~(i <= k)
    <3>1. i - k \in 1 .. n /\ k + (i - k) = i
      BY <2>2
    <3>2. (a \o b)[i] = b[i - k]
      BY <1>1, <1>2, <1>4, <2>2
    <3>3. b[i - k] = s[k + (i - k)]
      BY <1>2, <3>1
    <3> QED
      BY <1>1, <3>1, <3>2, <3>3
  <2> QED
    BY <2>1, <2>2
<1>5. a \o b = c
  BY <1>1, <1>2, <1>4, <1>6, SeqEqual
<1> QED
  BY <1>5 DEF a, b, c

LEMMA PrefixNext ==
  ASSUME NEW S, NEW s \in Seq(S), NEW k \in Nat, k + 1 <= Len(s)
  PROVE  Append(SubSeq(s, 1, k), s[Len(SubSeq(s, 1, k)) + 1]) = SubSeq(s, 1, k + 1)
<1> DEFINE a == SubSeq(s, 1, k)  c == SubSeq(s, 1, k + 1)
<1>1. /\ a \in Seq(S) /\ Len(a) = k /\ \A i \in 1 .. k : a[i] = s[i]
      /\ c \in Seq(S) /\ Len(c) = k + 1 /\ \A i \in 1 .. k + 1 : c[i] = s[i]
  BY PrefixOf
<1>2. s[k + 1] \in S
  BY ElementOfSeq
<1> HIDE DEF a, c
<1>3. a \in Seq(S)
  BY <1>1
<1>4. /\ Append(a, s[k + 1]) \in Seq(S) /\ Len(Append(a, s[k + 1])) = Len(a) + 1
      /\ \A i \in 1 .. Len(a) : Append(a, s[k + 1])[i] = a[i]
      /\ Append(a, s[k + 1])[Len(a) + 1] = s[k + 1]
  BY <1>2, <1>3, AppendProperties
<1>5. ASSUME NEW i \in 1 .. k + 1
      PROVE  Append(a, s[k + 1])[i] = c[i]
  <2>1. CASE i = k + 1
    BY <1>1, <1>4, <2>1
  <2>2. CASE i # k + 1
    <3>1. i \in 1 .. k
      BY <2>2
    <3> QED
      BY <1>1, <1>4, <3>1
  <2> QED
    BY <2>1, <2>2
<1>6. Append(a, s[k + 1]) = c
  BY <1>1, <1>4, <1>5, SeqEqual
<1> QED
  BY <1>1, <1>6 DEF a, c

\* A request at its start has all to itself.
LEMMA FreshIInv == Init => IInv
<1> SUFFICES ASSUME Init PROVE IInv
  OBVIOUS
<1>1. Len(req.body) \in Nat /\ Len(req.params) \in Nat /\ Len(PlanFor(req)) \in Nat
      /\ SubSeq(req.body, 1, 0) = <<>> /\ Len(<<>>) = 0
  BY RequestTypes, SubSeqEmpty, EmptySeq DEF Init
<1>2. TypeOK
  <2>1. taken \in 0 .. Len(req.body) /\ Len(buffer) <= taken
    BY <1>1 DEF Init
  <2>2. step \in 1 .. Len(PlanFor(req)) + 1 /\ Len(params) <= Len(req.params)
    BY <1>1 DEF Init
  <2> QED
    BY <2>1, <2>2 DEF Init, TypeOK, Steps
<1>3. FlowInv /\ BodyInv /\ BuildInv
  BY <1>1 DEF Init, FlowInv, BodyInv, BuildInv
<1>4. MessageInv /\ ServerInv /\ UserInv
  BY DEF Init, MessageInv, ServerInv, UserInv, Reading, Senders
<1>5. OwnedInv /\ AnswerInv /\ DoneInv /\ ReleasedOnce
  BY DEF Init, OwnedInv, AnswerInv, DoneInv, ReleasedOnce, Kept, Handled
<1> QED
  BY <1>2, <1>3, <1>4, <1>5 DEF IInv

LEMMA Written ==
  ASSUME NEW x \in Outputs, output \in Seq(Outputs)
  PROVE  /\ Append(output, x) \in Seq(Outputs) /\ Append(output, x) # <<>>
         /\ output = <<>> => Append(output, x) = <<x>>
<1>1. Append(output, x) \in Seq(Outputs) /\ Append(output, x) # <<>>
  BY AppendProperties
<1>2. Append(<<>>, x) = <<x>>
  OBVIOUS
<1> QED
  BY <1>1, <1>2

LEMMA StatusesDiffer ==
  /\ DECLINED # OK /\ DECLINED # HTTP_BAD_REQUEST /\ DECLINED # HTTP_INTERNAL_SERVER_ERROR
  /\ OK # HTTP_BAD_REQUEST /\ OK # HTTP_INTERNAL_SERVER_ERROR
  /\ HTTP_BAD_REQUEST # HTTP_INTERNAL_SERVER_ERROR
  BY DEF DECLINED, OK, HTTP_BAD_REQUEST, HTTP_INTERNAL_SERVER_ERROR

LEMMA StartKeepsIInv ==
  ASSUME IInv, Start
  PROVE  IInv'
<1> USE DEF IInv, Start, handlerVars, Goto
<1>1. /\ SentMessage' = SentMessage /\ SentTo' = SentTo /\ Senders' = Senders
      /\ AuthSystem' = AuthSystem /\ Claim' = Claim
  BY SameRequest
<1>2. TypeOK'
  BY DEF TypeOK, Steps
<1>3. FlowInv' /\ BodyInv' /\ BuildInv'
  BY KeyValueAssumption DEF TypeOK, FlowInv, BodyInv, BuildInv, Methods
<1>4. MessageInv' /\ ServerInv' /\ UserInv'
  BY <1>1 DEF MessageInv, ServerInv, UserInv, Reading
<1>5. OwnedInv' /\ AnswerInv' /\ ReleasedOnce'
  BY <1>1 DEF OwnedInv, AnswerInv, ReleasedOnce, Kept, Handled
<1>6. DoneInv'
  BY <1>1 DEF DoneInv, ProcessedAsSent, SentIsProcessed, AnswerMatches, AllReleased,
              MessageInv, UserInv, OwnedInv, AnswerInv, Reading, Handled, Kept,
              DECLINED, OK, HTTP_BAD_REQUEST, HTTP_INTERNAL_SERVER_ERROR
<1> QED
  BY <1>2, <1>3, <1>4, <1>5, <1>6

LEMMA PostKeepsIInv ==
  ASSUME IInv, Post
  PROVE  IInv'
<1> USE DEF IInv, Post, handlerVars, Goto
<1>1. /\ SentMessage' = SentMessage /\ SentTo' = SentTo /\ Senders' = Senders
      /\ AuthSystem' = AuthSystem /\ Claim' = Claim
  BY SameRequest
<1>2. TypeOK'
  BY DEF TypeOK, Steps
<1>3. FlowInv' /\ BodyInv' /\ BuildInv'
  BY DEF TypeOK, FlowInv, BodyInv, BuildInv
<1>4. MessageInv' /\ ServerInv' /\ UserInv'
  BY <1>1 DEF SentTo, FlowInv, MessageInv, ServerInv, UserInv, Reading
<1>5. OwnedInv' /\ AnswerInv' /\ ReleasedOnce'
  BY <1>1 DEF MessageInv, UserInv, OwnedInv, AnswerInv, ReleasedOnce, Reading, Kept, Handled
<1>6. DoneInv'
  BY DEF DoneInv
<1> QED
  BY <1>2, <1>3, <1>4, <1>5, <1>6

LEMMA FindServerKeepsIInv ==
  ASSUME IInv, FindServer
  PROVE  IInv'
<1> USE DEF IInv, FindServer, handlerVars, Goto
<1>1. /\ SentMessage' = SentMessage /\ SentTo' = SentTo /\ Senders' = Senders
      /\ AuthSystem' = AuthSystem /\ Claim' = Claim
  BY SameRequest
<1>2. TypeOK'
  BY DEF TypeOK, Steps
<1>3. FlowInv' /\ BodyInv' /\ BuildInv'
  BY DEF TypeOK, FlowInv, BodyInv, BuildInv
<1>11. MessageFits => MessageFits'
  BY SameMessage DEF TypeOK
<1>4. MessageInv' /\ ServerInv' /\ UserInv'
  BY <1>1, <1>11, KeyValueAssumption DEF TypeOK, SentTo, FlowInv, MessageInv, ServerInv, UserInv, Reading
<1>5. OwnedInv' /\ AnswerInv' /\ ReleasedOnce'
  BY <1>1 DEF MessageInv, UserInv, OwnedInv, AnswerInv, ReleasedOnce, Reading, Kept, Handled
<1>6. DoneInv'
  BY DEF DoneInv
<1> QED
  BY <1>2, <1>3, <1>4, <1>5, <1>6

LEMMA OtherMethodKeepsIInv ==
  ASSUME IInv, OtherMethod
  PROVE  IInv'
<1> USE DEF IInv, OtherMethod, handlerVars, Goto
<1>1. /\ SentMessage' = SentMessage /\ SentTo' = SentTo /\ Senders' = Senders
      /\ AuthSystem' = AuthSystem /\ Claim' = Claim
  BY SameRequest
<1>2. TypeOK'
  BY DEF TypeOK, Steps
<1>3. FlowInv' /\ BodyInv' /\ BuildInv'
  BY DEF TypeOK, FlowInv, BodyInv, BuildInv
<1>4. MessageInv' /\ ServerInv' /\ UserInv'
  BY <1>1 DEF SentMessage, FlowInv, MessageInv, ServerInv, UserInv, Reading
<1>5. OwnedInv' /\ AnswerInv' /\ ReleasedOnce'
  BY <1>1 DEF MessageInv, UserInv, OwnedInv, AnswerInv, ReleasedOnce, Reading, Kept, Handled
<1>6. DoneInv'
  BY DEF DoneInv
<1> QED
  BY <1>2, <1>3, <1>4, <1>5, <1>6

LEMMA DispatchKeepsIInv ==
  ASSUME IInv, Dispatch
  PROVE  IInv'
<1> USE DEF IInv, Dispatch, handlerVars, Goto
<1>1. /\ SentMessage' = SentMessage /\ SentTo' = SentTo /\ Senders' = Senders
      /\ AuthSystem' = AuthSystem /\ Claim' = Claim
  BY SameRequest
<1>2. TypeOK'
  BY DEF TypeOK, Steps
<1>3. FlowInv' /\ BodyInv' /\ BuildInv'
  BY DEF TypeOK, FlowInv, BodyInv, BuildInv
<1>11. MessageFits => MessageFits'
  BY SameMessage DEF TypeOK
<1>4. MessageInv' /\ ServerInv' /\ UserInv'
  BY <1>1, <1>11 DEF FlowInv, MessageInv, ServerInv, UserInv, Reading
<1>5. OwnedInv' /\ ReleasedOnce'
  BY <1>1 DEF MessageInv, ServerInv, UserInv, OwnedInv, ReleasedOnce, Reading, Kept
<1>7. AnswerInv'
  BY <1>1, Written DEF MessageInv, ServerInv, AnswerInv, Reading, Handled, Outputs
<1>8. message # NULL => uri # NULL
  BY KeyValueAssumption DEF TypeOK, MessageInv
<1>9. message = NULL => output' # <<>>
  BY Written DEF AnswerInv, Outputs
<1>6. DoneInv'
  <2> SUFFICES ASSUME pc' = "done"
               PROVE  (ProcessedAsSent /\ SentIsProcessed /\ AnswerMatches /\ AllReleased)'
    BY DEF DoneInv
  <2>1. ProcessedAsSent'
    BY <1>1 DEF ProcessedAsSent, FlowInv, MessageInv, ServerInv, UserInv, AnswerInv, Handled
  <2>2. SentIsProcessed'
    BY <1>1, <1>8 DEF SentIsProcessed, MessageInv, AnswerInv, Reading
  <2>3. AnswerMatches'
    BY <1>8, <1>9, StatusesDiffer DEF AnswerMatches, AnswerInv, MessageInv, Handled
  <2>4. AllReleased'
    BY <1>1, <1>8 DEF AllReleased, OwnedInv, MessageInv, UserInv, ServerInv, Kept
  <2> QED
    BY <2>1, <2>2, <2>3, <2>4
<1> QED
  BY <1>2, <1>3, <1>4, <1>5, <1>6, <1>7

LEMMA ReplyKeepsIInv ==
  ASSUME IInv, Reply
  PROVE  IInv'
<1> USE DEF IInv, Reply, handlerVars, Goto, Drop, Fails
<1>1. /\ SentMessage' = SentMessage /\ SentTo' = SentTo /\ Senders' = Senders
      /\ AuthSystem' = AuthSystem /\ Claim' = Claim
  BY SameRequest
<1>2. TypeOK'
  BY DEF TypeOK, Steps, Objects, Attached
<1>3. FlowInv' /\ BodyInv' /\ BuildInv'
  BY DEF TypeOK, FlowInv, BodyInv, BuildInv
<1>11. MessageFits => MessageFits'
  BY SameMessage DEF TypeOK
<1>4. MessageInv' /\ ServerInv' /\ UserInv'
  BY <1>1, <1>11 DEF FlowInv, MessageInv, ServerInv, UserInv, Reading
<1>5. OwnedInv' /\ ReleasedOnce'
  BY <1>1 DEF MessageInv, ServerInv, UserInv, OwnedInv, ReleasedOnce, Reading, Kept
<1>7. AnswerInv'
  BY <1>1, Written DEF MessageInv, ServerInv, AnswerInv, Reading, Handled, Outputs
<1>6. DoneInv'
  BY DEF DoneInv
<1> QED
  BY <1>2, <1>3, <1>4, <1>5, <1>6, <1>7

\* What a server was given, until the request is done.
LEMMA ProcessedFits ==
  ASSUME IInv, pc \in {"reply", "release"}
  PROVE  /\ ProcessedAsSent
         /\ processed # NULL /\ processed.message = message
<1> USE DEF IInv
<1>1. /\ req.for_grassroots /\ MessageFits /\ message # NULL
      /\ server = SentTo /\ server # NULL /\ user \in Senders
  BY DEF FlowInv, MessageInv, ServerInv, UserInv
<1>2. processed = [server |-> SentTo, message |-> message, user |-> user] /\ processed # NULL
  BY DEF AnswerInv
<1>3. /\ processed.server = SentTo /\ processed.message = message
      /\ processed.user = user
  BY <1>2
<1> QED
  BY <1>1, <1>2, <1>3 DEF ProcessedAsSent, MessageFits

LEMMA ReleaseKeepsIInv ==
  ASSUME IInv, Release
  PROVE  IInv'
<1> USE DEF IInv, Release, handlerVars, Goto, Drop
<1>1. /\ SentMessage' = SentMessage /\ SentTo' = SentTo /\ Senders' = Senders
      /\ AuthSystem' = AuthSystem /\ Claim' = Claim
  BY SameRequest
<1>2. TypeOK'
  BY DEF TypeOK, Steps, Objects, Attached
<1>3. FlowInv' /\ BodyInv' /\ BuildInv'
  BY DEF TypeOK, FlowInv, BodyInv, BuildInv
<1>11. MessageFits => MessageFits'
  BY SameMessage DEF TypeOK
<1>4. MessageInv' /\ ServerInv' /\ UserInv'
  BY <1>1, <1>11 DEF FlowInv, MessageInv, ServerInv, UserInv, Reading
<1>8. again' = again /\ owned' \subseteq owned
  BY DEF OwnedInv, ServerInv, Kept
<1>5. OwnedInv' /\ AnswerInv' /\ ReleasedOnce'
  BY <1>1, <1>8 DEF MessageInv, UserInv, OwnedInv, AnswerInv, ReleasedOnce, Reading, Kept, Handled
<1>6. DoneInv'
  <2> SUFFICES ASSUME pc' = "done"
               PROVE  (ProcessedAsSent /\ SentIsProcessed /\ AnswerMatches /\ AllReleased)'
    BY DEF DoneInv
  <2>1. ProcessedAsSent'
    BY <1>1, ProcessedFits DEF ProcessedAsSent, EndsOfBody
  <2>2. SentIsProcessed'
    BY <1>1, ProcessedFits DEF SentIsProcessed, MessageInv, Reading
  <2>3. AnswerMatches'
    BY StatusesDiffer DEF AnswerMatches, AnswerInv, MessageInv, Handled
  <2>4. AllReleased'
    BY <1>1 DEF AllReleased, OwnedInv, MessageInv, UserInv, ServerInv, Kept
  <2> QED
    BY <2>1, <2>2, <2>3, <2>4
<1> QED
  BY <1>2, <1>3, <1>4, <1>5, <1>6

LEMMA ProcessKeepsIInv ==
  ASSUME IInv, ProcessServerJSONMessage
  PROVE  IInv'
<1> USE DEF IInv, ProcessServerJSONMessage, handlerVars, Goto
<1>1. /\ SentMessage' = SentMessage /\ SentTo' = SentTo /\ Senders' = Senders
      /\ AuthSystem' = AuthSystem /\ Claim' = Claim
  BY SameRequest
<1>8. processed' \in Exchanges(req) /\ processed' # NULL
  <2>1. server = SentTo /\ server # NULL /\ message # NULL
    BY DEF MessageInv, ServerInv
  <2>2. \E l \in Locations : server = config.servers[l]
    BY <2>1 DEF SentTo, ServerAt
  <2>3. config \in RequestConfigs /\ message \in Messages(req) /\ user \in Users(req) \cup {NULL}
    BY <2>1 DEF TypeOK
  <2>4. server \in UNION {{c.servers[l] : l \in Locations} : c \in RequestConfigs}
    <3>1. server \in {config.servers[l] : l \in Locations}
      BY <2>2
    <3> QED
      BY <2>3, <3>1, Zenon
  <2>5. processed' \in Exchanges(req)
    BY <2>3, <2>4 DEF Exchanges
  <2> QED
    BY <2>5, NullAssumption DEF TypeOK
<1>2. TypeOK'
  BY <1>8 DEF TypeOK, Steps, Objects, Attached
<1>3. FlowInv' /\ BodyInv' /\ BuildInv'
  BY DEF TypeOK, FlowInv, BodyInv, BuildInv
<1>11. MessageFits => MessageFits'
  BY SameMessage DEF TypeOK
<1>4. MessageInv' /\ ServerInv' /\ UserInv'
  BY <1>1, <1>11 DEF FlowInv, MessageInv, ServerInv, UserInv, Reading
<1>5. OwnedInv' /\ ReleasedOnce'
  BY <1>1 DEF MessageInv, ServerInv, UserInv, OwnedInv, ReleasedOnce, Reading, Kept
<1>7. AnswerInv'
  BY <1>1, <1>8, Written DEF MessageInv, ServerInv, AnswerInv, Reading, Handled, Outputs
<1>6. DoneInv'
  BY DEF DoneInv
<1> QED
  BY <1>2, <1>3, <1>4, <1>5, <1>6, <1>7

-----------------------------------------------------------------------------
(* The steps that read the message.                                          *)

LEMMA GetUserKeepsIInv ==
  ASSUME IInv, GetUser
  PROVE  IInv'
<1> USE DEF IInv, GetUser, handlerVars, Goto, NoUser
<1>1. /\ SentMessage' = SentMessage /\ SentTo' = SentTo /\ Senders' = Senders
      /\ AuthSystem' = AuthSystem /\ Claim' = Claim
  BY SameRequest
<1>8. /\ user' \in Users(req) \cup {NULL} /\ user' \in Senders
      /\ owned' \subseteq owned \cup {"user", "forename"}
      /\ owned' \ {"forename"} =
           (owned \ {"forename"}) \cup (IF user' = NULL THEN {} ELSE {"user"})
      /\ "forename" \in owned' => AuthSystem = "openid" /\ Claim \in FullNames
  <2>1. user = NULL /\ "forename" \notin owned
    BY DEF UserInv, OwnedInv
  <2>2. CASE GetUserFromOIDC
    <3>1. PICK copy \in SUBSET (IF Claim \in FullNames THEN {"forename"} ELSE {}) :
            \/ user' = [openid |-> Claim] /\ owned' = owned \cup copy \cup {"user"}
            \/ UNCHANGED user /\ owned' = owned \cup copy
      BY <2>2 DEF GetUserFromOIDC
    <3>2. [openid |-> Claim] \in Users(req) /\ [openid |-> Claim] \in Senders
      BY <2>2 DEF GetUserFromOIDC, Users, Senders, Claim
    <3>3. [openid |-> Claim] # NULL
      BY <3>2, NullAssumption DEF TypeOK
    <3>4. copy \subseteq {"forename"} /\ ("forename" \in copy => Claim \in FullNames)
      BY <3>1
    <3>5. AuthSystem = "openid"
      BY <2>2 DEF GetUserFromOIDC
    <3> HIDE DEF IInv, GetUser
    <3>6. CASE user' = [openid |-> Claim] /\ owned' = owned \cup copy \cup {"user"}
      BY <2>1, <3>2, <3>3, <3>4, <3>5, <3>6
    <3>7. CASE UNCHANGED user /\ owned' = owned \cup copy
      BY <2>1, <3>4, <3>5, <3>7 DEF Senders
    <3> QED
      BY <3>1, <3>6, <3>7
  <2>3. CASE GetUserFromBasicAuth
    <3>1. user' \in Users(req) /\ user' \in Senders
      BY <2>3 DEF GetUserFromBasicAuth, Users, Senders
    <3> QED
      BY <2>1, <2>3, <3>1, NullAssumption DEF GetUserFromBasicAuth, TypeOK
  <2>4. CASE NoUser
    BY <2>1, <2>4 DEF Senders
  <2> QED
    BY <2>2, <2>3, <2>4
<1>2. TypeOK'
  BY <1>8 DEF TypeOK, Steps, Objects, Attached
<1>3. FlowInv' /\ BodyInv' /\ BuildInv'
  BY DEF TypeOK, FlowInv, BodyInv, BuildInv
<1>4. MessageInv' /\ ServerInv' /\ UserInv'
  BY <1>1, <1>8 DEF FlowInv, MessageInv, ServerInv, UserInv, Reading
<1>5. OwnedInv' /\ ReleasedOnce'
  BY <1>1, <1>8 DEF MessageInv, UserInv, OwnedInv, ReleasedOnce, Reading, Kept
<1>6. AnswerInv'
  BY <1>1 DEF MessageInv, AnswerInv, Reading, Handled
<1>7. DoneInv'
  BY DEF DoneInv
<1> QED
  BY <1>2, <1>3, <1>4, <1>5, <1>6, <1>7

LEMMA BodyBeginsKeepsIInv ==
  ASSUME IInv, GetRequestBodyAsJSON, UNCHANGED handlerVars
  PROVE  IInv'
<1> USE DEF IInv, GetRequestBodyAsJSON, handlerVars, Goto, Fails
<1>1. /\ SentMessage' = SentMessage /\ SentTo' = SentTo /\ Senders' = Senders
      /\ AuthSystem' = AuthSystem /\ Claim' = Claim
  BY SameRequest
<1>2. TypeOK'
  BY DEF TypeOK, Steps, Objects, Attached
<1>3. FlowInv' /\ BodyInv' /\ BuildInv'
  BY DEF TypeOK, FlowInv, BodyInv, BuildInv
<1>4. MessageInv' /\ ServerInv' /\ UserInv'
  BY <1>1 DEF SentMessage, FlowInv, MessageInv, ServerInv, UserInv, Reading
<1>5. OwnedInv' /\ ReleasedOnce'
  BY <1>1 DEF MessageInv, UserInv, OwnedInv, ReleasedOnce, Reading, Kept, ServerInv
<1>6. AnswerInv'
  BY <1>1 DEF MessageInv, AnswerInv, Reading, Handled
<1>7. DoneInv'
  BY DEF DoneInv
<1> QED
  BY <1>2, <1>3, <1>4, <1>5, <1>6, <1>7

LEMMA ReadKeepsIInv ==
  ASSUME IInv, ReadRequestBody, UNCHANGED handlerVars
  PROVE  IInv'
<1> USE DEF IInv, ReadRequestBody, handlerVars, Goto
<1>1. /\ SentMessage' = SentMessage /\ SentTo' = SentTo /\ Senders' = Senders
      /\ AuthSystem' = AuthSystem /\ Claim' = Claim
  BY SameRequest
<1>8. /\ taken' \in 0 .. Len(req.body)
      /\ buffer' = SubSeq(req.body, 1, taken')
      /\ Len(buffer') <= taken'
  <2> PICK n \in 1 .. BlockSize :
        /\ taken + n <= Len(req.body)
        /\ taken' = taken + n
        /\ buffer' = buffer \o SubSeq(req.body, taken + 1, taken + n)
    OBVIOUS
  <2>1. req.body \in Seq({req.body[i] : i \in DOMAIN req.body}) /\ Len(req.body) \in Nat
    BY RequestTypes DEF TypeOK
  <2>2. taken \in 0 .. Len(req.body) /\ n \in Nat /\ buffer = SubSeq(req.body, 1, taken)
    BY KeyValueAssumption DEF TypeOK, BodyInv
  <2>3. taken \in Nat /\ taken + n \in 0 .. Len(req.body)
    BY <2>1, <2>2
  <2>4. buffer' = SubSeq(req.body, 1, taken + n)
    BY <2>1, <2>2, <2>3, PrefixGrows
  <2>5. Len(SubSeq(req.body, 1, taken + n)) = taken + n
    BY <2>1, <2>3, PrefixOf
  <2>6. taken' = taken + n
    OBVIOUS
  <2>7. taken' \in 0 .. Len(req.body) /\ Len(buffer') = taken'
    BY <2>3, <2>4, <2>5, <2>6, Zenon
  <2>8. Len(buffer') <= taken'
    BY <2>1, <2>7, Below, Zenon
  <2> QED
    BY <2>4, <2>6, <2>7, <2>8, Zenon
<1>2. TypeOK'
  BY <1>8 DEF TypeOK, Steps
<1>3. FlowInv' /\ BodyInv' /\ BuildInv'
  BY <1>8 DEF TypeOK, FlowInv, BodyInv, BuildInv
<1>4. MessageInv' /\ ServerInv' /\ UserInv'
  BY <1>1 DEF FlowInv, MessageInv, ServerInv, UserInv, Reading
<1>5. OwnedInv' /\ ReleasedOnce'
  BY <1>1 DEF MessageInv, UserInv, OwnedInv, ReleasedOnce, Reading, Kept
<1>6. AnswerInv'
  BY <1>1 DEF MessageInv, AnswerInv, Reading, Handled
<1>7. DoneInv'
  BY DEF DoneInv
<1> QED
  BY <1>2, <1>3, <1>4, <1>5, <1>6, <1>7

LEMMA EndOfBodyKeepsIInv ==
  ASSUME IInv, EndOfBody, UNCHANGED handlerVars
  PROVE  IInv'
<1> USE DEF IInv, EndOfBody, handlerVars, Goto, Fails
<1>1. /\ SentMessage' = SentMessage /\ SentTo' = SentTo /\ Senders' = Senders
      /\ AuthSystem' = AuthSystem /\ Claim' = Claim
  BY SameRequest
<1>2. TypeOK'
  BY DEF TypeOK, Steps
<1>3. FlowInv' /\ BodyInv' /\ BuildInv'
  BY DEF TypeOK, FlowInv, BodyInv, BuildInv
<1>4. MessageInv' /\ ServerInv' /\ UserInv'
  BY <1>1 DEF FlowInv, MessageInv, ServerInv, UserInv, Reading
<1>5. OwnedInv' /\ ReleasedOnce'
  BY <1>1 DEF MessageInv, UserInv, OwnedInv, ReleasedOnce, Reading, Kept
<1>6. AnswerInv'
  BY <1>1 DEF MessageInv, AnswerInv, Reading, Handled
<1>7. DoneInv'
  BY DEF DoneInv
<1> QED
  BY <1>2, <1>3, <1>4, <1>5, <1>6, <1>7

\* What json_loads sees of a buffer is the body up to one of its ends.
LEMMA SeenEnds ==
  ASSUME TypeOK, BodyInv, pc = "decode"
  PROVE  \E n \in EndsOfBody : CString(buffer) = SubSeq(req.body, 1, n)
<1>1. req.body \in Seq({req.body[i] : i \in DOMAIN req.body}) /\ Len(req.body) \in Nat
  BY RequestTypes DEF TypeOK
<1>2. /\ taken \in 0 .. Len(req.body) /\ buffer = SubSeq(req.body, 1, taken)
      /\ failed \/ taken = Len(req.body)
  BY DEF TypeOK, BodyInv
<1>3. /\ buffer \in Seq({req.body[i] : i \in DOMAIN req.body}) /\ Len(buffer) = taken
      /\ \A i \in 1 .. taken : buffer[i] = req.body[i]
  BY <1>1, <1>2, PrefixOf
<1>4. PICK n \in 0 .. Len(buffer) :
        CString(buffer) = SubSeq(buffer, 1, n) /\ (n = Len(buffer) \/ buffer[n + 1] = Nul)
  BY <1>3, CStringEnds
<1>5. taken \in Nat /\ n \in 0 .. taken
  BY <1>1, <1>2, <1>3
<1>6. CString(buffer) = SubSeq(req.body, 1, n)
  <2>1. SubSeq(buffer, 1, n) = SubSeq(req.body, 1, n)
    BY <1>1, <1>2, <1>5, PrefixTwice
  <2> QED
    BY <1>4, <2>1, Zenon
<1>7. n \in EndsOfBody
  <2>1. CASE n = taken
    BY <1>1, <1>2, <2>1 DEF EndsOfBody
  <2>2. CASE n # taken
    <3>1. n \in 0 .. Len(req.body) /\ n + 1 \in 1 .. taken
      BY <1>1, <1>2, <1>5, <2>2
    <3>2. req.body[n + 1] = Nul
      BY <1>3, <1>4, <2>2, <3>1
    <3> QED
      BY <3>1, <3>2 DEF EndsOfBody
  <2> QED
    BY <2>1, <2>2
<1> QED
  BY <1>6, <1>7

\* It is the message that was sent, when there is one and nothing failed.
LEMMA SeenIsSent ==
  ASSUME TypeOK, FlowInv, BodyInv, pc = "decode", ~failed, SentMessage # NULL
  PROVE  CString(buffer) = SentMessage /\ CString(buffer) \in JSONTexts
<1>1. req.body \in Seq({req.body[i] : i \in DOMAIN req.body}) /\ Len(req.body) \in Nat
  BY RequestTypes DEF TypeOK
<1>2. SentMessage = req.body /\ req.body \in JSONTexts
  BY DEF SentMessage, FlowInv
<1>3. buffer = req.body
  BY <1>1, SubSeqFull DEF BodyInv
<1>4. \A i \in DOMAIN req.body : req.body[i] # Nul
  BY <1>2, KeyValueAssumption
<1> QED
  BY <1>1, <1>2, <1>3, <1>4, CStringEnds

LEMMA DecodeKeepsIInv ==
  ASSUME IInv, Decode, UNCHANGED handlerVars
  PROVE  IInv'
<1> USE DEF IInv, Decode, handlerVars, Goto, Drop, Fails
<1>1. /\ SentMessage' = SentMessage /\ SentTo' = SentTo /\ Senders' = Senders
      /\ AuthSystem' = AuthSystem /\ Claim' = Claim
  BY SameRequest
<1>8. \E n \in EndsOfBody : CString(buffer) = SubSeq(req.body, 1, n)
  BY SeenEnds
<1>12. EndsOfBody \subseteq EndsOfBody'
  BY DEF TypeOK, EndsOfBody
<1>13. ~failed /\ SentMessage # NULL =>
         CString(buffer) = SentMessage /\ CString(buffer) \in JSONTexts
  BY SeenIsSent
<1>14. message' # NULL => MessageFits'
  <2>1. req.method = "POST" /\ message = NULL
    BY DEF FlowInv, MessageInv, Reading
  <2> QED
    BY <1>8, <1>12, <2>1 DEF MessageFits
<1>10. message' \in Messages(req) \cup {NULL}
  BY DEF TypeOK, Messages, FlowInv
<1>2. TypeOK'
  BY <1>10 DEF TypeOK, Steps, Objects, Attached
<1>3. FlowInv' /\ BodyInv' /\ BuildInv'
  BY DEF TypeOK, FlowInv, BodyInv, BuildInv
<1>4. MessageInv' /\ ServerInv' /\ UserInv'
  BY <1>1, <1>13, <1>14 DEF BodyInv, FlowInv, MessageInv, ServerInv, UserInv, Reading
<1>5. OwnedInv' /\ ReleasedOnce'
  BY <1>1, KeyValueAssumption DEF MessageInv, UserInv, OwnedInv, ReleasedOnce, Reading, Kept
<1>6. AnswerInv'
  BY <1>1, KeyValueAssumption, Written DEF MessageInv, AnswerInv, Reading, Handled, Outputs
<1>7. DoneInv'
  BY DEF DoneInv
<1> QED
  BY <1>2, <1>3, <1>4, <1>5, <1>6, <1>7

LEMMA FreeBufferKeepsIInv ==
  ASSUME IInv, FreeByteBuffer, UNCHANGED handlerVars
  PROVE  IInv'
<1> USE DEF IInv, FreeByteBuffer, handlerVars, Goto, Drop
<1>1. /\ SentMessage' = SentMessage /\ SentTo' = SentTo /\ Senders' = Senders
      /\ AuthSystem' = AuthSystem /\ Claim' = Claim
  BY SameRequest
<1>2. TypeOK'
  BY DEF TypeOK, Steps, Objects, Attached
<1>3. FlowInv' /\ BodyInv' /\ BuildInv'
  BY DEF TypeOK, FlowInv, BodyInv, BuildInv
<1>4. MessageInv' /\ ServerInv' /\ UserInv'
  BY <1>1 DEF BodyInv, FlowInv, MessageInv, ServerInv, UserInv, Reading
<1>5. OwnedInv' /\ ReleasedOnce'
  BY <1>1 DEF MessageInv, UserInv, OwnedInv, ReleasedOnce, Reading, Kept
<1>6. AnswerInv'
  BY <1>1 DEF MessageInv, AnswerInv, Reading, Handled
<1>7. DoneInv'
  BY DEF DoneInv
<1> QED
  BY <1>2, <1>3, <1>4, <1>5, <1>6, <1>7

LEMMA ParamsBeginKeepsIInv ==
  ASSUME IInv, GetRequestParamsAsJSON, UNCHANGED handlerVars
  PROVE  IInv'
<1> USE DEF IInv, GetRequestParamsAsJSON, handlerVars, Goto
<1>1. /\ SentMessage' = SentMessage /\ SentTo' = SentTo /\ Senders' = Senders
      /\ AuthSystem' = AuthSystem /\ Claim' = Claim
  BY SameRequest
<1>2. TypeOK'
  BY DEF TypeOK, Steps
<1>8. owned = {}
  BY DEF OwnedInv, Kept, MessageInv, UserInv, Reading
<1>9. pc' = "build" => BuildStage' /\ OwnedAreMade'
  <2>1. step' = 1 /\ owned' = {} /\ params' = <<>>
    BY <1>8 DEF BuildInv
  <2>2. Made' = {}
    BY <2>1 DEF Made
  <2> QED
    BY <2>1, <2>2 DEF OwnedAreMade, BuildStage, At, ServiceBegun, ListStage, InfoStage, OtherStage
<1>3. FlowInv' /\ BodyInv' /\ BuildInv'
  BY <1>9 DEF TypeOK, FlowInv, BodyInv, BuildInv
<1>4. MessageInv' /\ ServerInv' /\ UserInv'
  BY <1>1 DEF SentMessage, FlowInv, MessageInv, ServerInv, UserInv, Reading
<1>5. OwnedInv' /\ ReleasedOnce'
  BY <1>1 DEF MessageInv, UserInv, OwnedInv, ReleasedOnce, Reading, Kept
<1>6. AnswerInv'
  BY <1>1 DEF MessageInv, AnswerInv, Reading, Handled
<1>7. DoneInv'
  BY DEF DoneInv
<1> QED
  BY <1>2, <1>3, <1>4, <1>5, <1>6, <1>7

-----------------------------------------------------------------------------
(* The steps that put the message of a GET together.                         *)

\* What a step of the plan does.
LEMMA MakeStep ==
  ASSUME Build, NEW o, PlanFor(req)[step] = Make(o)
  PROVE  owned' = owned \cup {o} /\ step' = step + 1 /\ params' = params
<1>1. Make(o).do = "make" /\ Make(o).object = o /\ Make(o) # Attach("param")
  BY DEF Make, Attach
<1> QED
  BY <1>1 DEF Build

LEMMA AttachStep ==
  ASSUME Build, NEW o, PlanFor(req)[step] = Attach(o)
  PROVE  /\ owned' = owned \ {o} /\ step' = step + 1
         /\ o # "param" => params' = params
         /\ o = "param" => params' = Append(params, req.params[Len(params) + 1])
<1>1. /\ Attach(o).do = "attach" /\ Attach(o).object = o
      /\ o # "param" => Attach(o) # Attach("param")
  BY DEF Attach
<1> QED
  BY <1>1 DEF Build

LEMMA WrapStep ==
  ASSUME Build, NEW o, PlanFor(req)[step] = Wrap(o)
  PROVE  /\ owned' = (owned \ {o}) \cup {"message"} /\ step' = step + 1
         /\ params' = params
<1>1. Wrap(o).do = "wrap" /\ Wrap(o).object = o /\ Wrap(o) # Attach("param")
  BY DEF Wrap, Attach
<1> QED
  BY <1>1 DEF Build

LEMMA ServiceBegunStep ==
  ASSUME req \in Requests, req.path = "service", Build, ServiceBegun
  PROVE  (ServiceBegun \/ ServiceParams)'
<1> USE DEF At
<1>1. N \in Nat /\ PlanFor(req) = ServicePlan(N) /\ req' = req /\ N' = N
  BY RequestTypes DEF N, PlanFor, Build
<1>2. params = <<>>
  BY DEF ServiceBegun
<1>8. /\ step = 1 => PlanFor(req)[step] = Make("service")
      /\ step = 2 => PlanFor(req)[step] = Make("parameter_set")
      /\ step = 3 => PlanFor(req)[step] = Attach("parameter_set")
      /\ step = 4 => PlanFor(req)[step] = Make("params")
      /\ step = 5 => PlanFor(req)[step] = Attach("params")
  BY <1>1, ServicePlanItems
<1>3. CASE At(1, {})
  <2>1. owned' = owned \cup {"service"} /\ step' = step + 1 /\ params' = params
    BY <1>8, <1>3, MakeStep
  <2> QED
    BY <1>2, <1>3, <2>1 DEF ServiceBegun
<1>4. CASE At(2, {"service"})
  <2>1. owned' = owned \cup {"parameter_set"} /\ step' = step + 1 /\ params' = params
    BY <1>8, <1>4, MakeStep
  <2> QED
    BY <1>2, <1>4, <2>1 DEF ServiceBegun
<1>5. CASE At(3, {"service", "parameter_set"})
  <2>1. owned' = owned \ {"parameter_set"} /\ step' = step + 1 /\ params' = params
    BY <1>8, <1>5, AttachStep
  <2> QED
    BY <1>2, <1>5, <2>1 DEF ServiceBegun
<1>6. CASE At(4, {"service"})
  <2>1. owned' = owned \cup {"params"} /\ step' = step + 1 /\ params' = params
    BY <1>8, <1>6, MakeStep
  <2> QED
    BY <1>2, <1>6, <2>1 DEF ServiceBegun
<1>7. CASE At(5, {"service", "params"})
  <2>1. owned' = owned \ {"params"} /\ step' = step + 1 /\ params' = params
    BY <1>8, <1>7, AttachStep
  <2>2. 0 \in 0 .. N' /\ step' = 6 + 2 * 0 /\ owned' = {"service"}
    BY <1>1, <1>7, <2>1
  <2>3. ParamsMade(0)'
    BY <1>2, <2>1, SubSeqEmpty DEF ParamsMade
  <2> QED
    BY <2>2, <2>3 DEF ServiceParams
<1> QED
  BY <1>3, <1>4, <1>5, <1>6, <1>7 DEF ServiceBegun

LEMMA ServiceParamsStep ==
  ASSUME req \in Requests, req.path = "service", Build, ServiceParams
  PROVE  (ServiceParams \/ ServiceEnd)'
<1> USE DEF At
<1>1. N \in Nat /\ PlanFor(req) = ServicePlan(N) /\ req' = req /\ N' = N
  BY RequestTypes DEF N, PlanFor, Build
<1>2. PICK k \in 0 .. N :
        /\ ParamsMade(k)
        /\ At(6 + 2 * k, {"service"}) \/ (k < N /\ At(7 + 2 * k, {"service", "param"}))
  BY DEF ServiceParams
<1>3. req.params \in Seq({req.params[i] : i \in DOMAIN req.params}) /\ N = Len(req.params)
  BY RequestTypes DEF N
<1>4. CASE At(6 + 2 * k, {"service"}) /\ k < N
  <2>1. k \in 0 .. N - 1 /\ PlanFor(req)[step] = Make("param")
    <3>1. k \in 0 .. N - 1
      BY <1>1, <1>4
    <3>2. ServicePlan(N)[6 + 2 * k] = Make("param")
      BY <1>1, <3>1, ServicePlanItems
    <3> QED
      BY <1>1, <1>4, <3>1, <3>2
  <2>2. owned' = owned \cup {"param"} /\ step' = step + 1 /\ params' = params
    BY <2>1, MakeStep
  <2>3. step' = 7 + 2 * k /\ owned' = {"service", "param"} /\ ParamsMade(k)'
    BY <1>1, <1>2, <1>4, <2>2 DEF ParamsMade
  <2> QED
    BY <1>1, <1>4, <2>3 DEF ServiceParams
<1>5. CASE At(6 + 2 * k, {"service"}) /\ k = N
  <2>1. PlanFor(req)[step] = Make("message")
    BY <1>1, <1>5, ServicePlanItems
  <2>2. owned' = owned \cup {"message"} /\ step' = step + 1 /\ params' = params
    BY <2>1, MakeStep
  <2>3. step' = 7 + 2 * N /\ owned' = {"service", "message"} /\ ParamsMade(N)'
    BY <1>1, <1>2, <1>5, <2>2 DEF ParamsMade
  <2> QED
    BY <1>1, <2>3 DEF ServiceEnd
<1>6. CASE k < N /\ At(7 + 2 * k, {"service", "param"})
  <2>1. k \in 0 .. N - 1 /\ PlanFor(req)[step] = Attach("param")
    <3>1. k \in 0 .. N - 1
      BY <1>1, <1>6
    <3>2. ServicePlan(N)[7 + 2 * k] = Attach("param")
      BY <1>1, <3>1, ServicePlanItems
    <3> QED
      BY <1>1, <1>6, <3>1, <3>2
  <2>2. /\ owned' = owned \ {"param"} /\ step' = step + 1
        /\ params' = Append(params, req.params[Len(params) + 1])
    BY <2>1, AttachStep
  <2>3. k \in Nat /\ k + 1 \in 0 .. N /\ k + 1 <= Len(req.params)
    BY <1>1, <1>3, <2>1
  <2>4. params' = SubSeq(req.params, 1, k + 1)
    BY <1>2, <1>3, <2>2, <2>3, PrefixNext DEF ParamsMade
  <2>5. step' = 6 + 2 * (k + 1) /\ owned' = {"service"}
    BY <1>6, <2>2, <2>3
  <2>6. ParamsMade(k + 1)'
    BY <1>1, <2>4 DEF ParamsMade
  <2> QED
    BY <1>1, <2>3, <2>5, <2>6 DEF ServiceParams
<1>7. k < N \/ k = N
  BY <1>1
<1> QED
  BY <1>2, <1>4, <1>5, <1>6, <1>7

LEMMA ServiceEndStep ==
  ASSUME req \in Requests, req.path = "service", Build, ServiceEnd
  PROVE  ServiceEnd'
<1> USE DEF At
<1>1. N \in Nat /\ PlanFor(req) = ServicePlan(N) /\ req' = req /\ N' = N
  BY RequestTypes DEF N, PlanFor, Build
<1>2. /\ step = 7 + 2 * N => PlanFor(req)[step] = Make("services")
      /\ step = 8 + 2 * N => PlanFor(req)[step] = Attach("services")
      /\ step = 9 + 2 * N => PlanFor(req)[step] = Attach("service")
      /\ step <= 9 + 2 * N
  BY <1>1, ServicePlanItems DEF Build
<1>3. CASE At(7 + 2 * N, {"service", "message"})
  <2>1. owned' = owned \cup {"services"} /\ step' = step + 1 /\ params' = params
    BY <1>2, <1>3, MakeStep
  <2>2. step' = 8 + 2 * N /\ owned' = {"service", "message", "services"}
    BY <1>1, <1>3, <2>1
  <2> QED
    BY <1>1, <2>1, <2>2 DEF ServiceEnd, ParamsMade
<1>4. CASE At(8 + 2 * N, {"service", "message", "services"})
  <2>1. owned' = owned \ {"services"} /\ step' = step + 1 /\ params' = params
    BY <1>2, <1>4, AttachStep
  <2>2. step' = 9 + 2 * N /\ owned' = {"service", "message"}
    BY <1>1, <1>4, <2>1
  <2> QED
    BY <1>1, <2>1, <2>2 DEF ServiceEnd, ParamsMade
<1>5. CASE At(9 + 2 * N, {"service", "message"})
  <2>1. owned' = owned \ {"service"} /\ step' = step + 1 /\ params' = params
    BY <1>2, <1>5, AttachStep
  <2>2. step' = 10 + 2 * N /\ owned' = {"message"}
    BY <1>1, <1>5, <2>1
  <2> QED
    BY <1>1, <2>1, <2>2 DEF ServiceEnd, ParamsMade
<1>6. ~At(10 + 2 * N, {"message"})
  BY <1>1, <1>2
<1> QED
  BY <1>3, <1>4, <1>5, <1>6 DEF ServiceEnd

LEMMA OtherPlans ==
  /\ Len(ListPlan) = 2 /\ ListPlan[1] = Make("schema_version") /\ ListPlan[2] = Make("message")
  /\ Len(InfoPlan) = 5 /\ InfoPlan[1] = Make("schema_version") /\ InfoPlan[2] = Make("names")
  /\ InfoPlan[3] = Make("name") /\ InfoPlan[4] = Attach("name") /\ InfoPlan[5] = Wrap("names")
  /\ Len(<<Make("schema_version")>>) = 1
  /\ <<Make("schema_version")>>[1] = Make("schema_version")
  BY DEF ListPlan, InfoPlan

LEMMA ListStep ==
  ASSUME PlanFor(req) = ListPlan, Build, ListStage
  PROVE  ListStage' /\ params' = params
<1> USE DEF At
<1>1. CASE At(1, {})
  <2>1. PlanFor(req)[step] = Make("schema_version")
    BY <1>1, OtherPlans
  <2> QED
    BY <1>1, <2>1, MakeStep DEF ListStage
<1>2. CASE At(2, {"schema_version"})
  <2>1. PlanFor(req)[step] = Make("message")
    BY <1>2, OtherPlans
  <2> QED
    BY <1>2, <2>1, MakeStep DEF ListStage
<1>3. ~At(3, {"schema_version", "message"})
  BY OtherPlans DEF Build
<1> QED
  BY <1>1, <1>2, <1>3 DEF ListStage

LEMMA InfoStep ==
  ASSUME PlanFor(req) = InfoPlan, Build, InfoStage
  PROVE  InfoStage' /\ params' = params
<1> USE DEF At
<1>1. CASE At(1, {})
  <2>1. PlanFor(req)[step] = Make("schema_version")
    BY <1>1, OtherPlans
  <2> QED
    BY <1>1, <2>1, MakeStep DEF InfoStage
<1>2. CASE At(2, {"schema_version"})
  <2>1. PlanFor(req)[step] = Make("names")
    BY <1>2, OtherPlans
  <2> QED
    BY <1>2, <2>1, MakeStep DEF InfoStage
<1>3. CASE At(3, {"schema_version", "names"})
  <2>1. PlanFor(req)[step] = Make("name")
    BY <1>3, OtherPlans
  <2> QED
    BY <1>3, <2>1, MakeStep DEF InfoStage
<1>4. CASE At(4, {"schema_version", "names", "name"})
  <2>1. PlanFor(req)[step] = Attach("name")
    BY <1>4, OtherPlans
  <2> QED
    BY <1>4, <2>1, AttachStep DEF InfoStage
<1>5. CASE At(5, {"schema_version", "names"})
  <2>1. PlanFor(req)[step] = Wrap("names")
    BY <1>5, OtherPlans
  <2> QED
    BY <1>5, <2>1, WrapStep DEF InfoStage
<1>6. ~At(6, {"schema_version", "message"})
  BY OtherPlans DEF Build
<1> QED
  BY <1>1, <1>2, <1>3, <1>4, <1>5, <1>6 DEF InfoStage

LEMMA OtherStep ==
  ASSUME PlanFor(req) = <<Make("schema_version")>>, Build, OtherStage
  PROVE  OtherStage' /\ params' = params
<1> USE DEF At
<1>1. CASE At(1, {})
  <2>1. PlanFor(req)[step] = Make("schema_version")
    BY <1>1, OtherPlans
  <2> QED
    BY <1>1, <2>1, MakeStep DEF OtherStage
<1>2. ~At(2, {"schema_version"})
  BY OtherPlans DEF Build
<1> QED
  BY <1>1, <1>2 DEF OtherStage

LEMMA StageStep ==
  ASSUME req \in Requests, Build, BuildStage
  PROVE  BuildStage'
<1>1. req' = req /\ ServiceAsked(req)' = ServiceAsked(req)
  BY DEF Build, ServiceAsked
<1>2. CASE req.path = "service"
  <2>1. ServiceEnd => ServiceEnd'
    BY <1>2, ServiceEndStep
  <2> QED
    BY <1>1, <1>2, <2>1, ServiceBegunStep, ServiceParamsStep DEF BuildStage
<1>3. CASE req.path = "list_services"
  BY <1>1, <1>3, ListStep DEF BuildStage, PlanFor
<1>4. CASE req.path = "service_info" /\ ServiceAsked(req) # {}
  BY <1>1, <1>4, InfoStep DEF BuildStage, PlanFor
<1>5. CASE req.path \notin {"service", "list_services"}
           /\ ~(req.path = "service_info" /\ ServiceAsked(req) # {})
  BY <1>1, <1>5, OtherStep DEF BuildStage, PlanFor
<1> QED
  BY <1>2, <1>3, <1>4, <1>5

Parts == {"message", "schema_version", "service", "parameter_set", "params", "param",
          "services", "names", "name"}

\* What is owned and what parameters there are, at every stage.
LEMMA StageTypes ==
  req \in Requests /\ BuildStage => owned \subseteq Parts /\ Len(params) <= Len(req.params)
<1> SUFFICES ASSUME req \in Requests, BuildStage
             PROVE  owned \subseteq Parts /\ Len(params) <= Len(req.params)
  OBVIOUS
<1>1. /\ req.params \in Seq({req.params[i] : i \in DOMAIN req.params})
      /\ N = Len(req.params) /\ N \in Nat
  BY RequestTypes DEF N
<1>2. \A k \in 0 .. N : ParamsMade(k) => Len(params) <= N
  <2> SUFFICES ASSUME NEW k \in 0 .. N, ParamsMade(k) PROVE Len(params) <= N
    OBVIOUS
  <2>1. Len(params) = k
    BY <1>1, PrefixOf DEF ParamsMade
  <2> QED
    BY <1>1, <2>1
<1>3. params = <<>> => Len(params) <= N
  BY <1>1, EmptySeq
<1>4. N \in 0 .. N
  BY <1>1
<1>5. Len(params) <= N
  BY <1>2, <1>3, <1>4 DEF BuildStage, ServiceBegun, ServiceParams, ServiceEnd
<1>6. owned \subseteq Parts
  BY DEF Parts, BuildStage, ServiceBegun, ServiceParams, ServiceEnd, ListStage, InfoStage, OtherStage, At
<1> QED
  BY <1>1, <1>5, <1>6

\* What is owned at a step besides what the ends release is what it attaches, and only
\* the last step attaches what the ends release.
LEMMA StepObject ==
  ASSUME req \in Requests, BuildStage, step <= Len(PlanFor(req)),
         NEW now, now = PlanFor(req)[step]
  PROVE  /\ now.do \in {"make", "attach", "wrap"}
         /\ now.do # "attach" => owned \subseteq Released
         /\ now.do = "attach" => /\ owned \subseteq Released \cup {now.object}
                                /\ now.object \in Attached
         /\ now.do = "wrap" => now.object \in Released
         /\ now.do # "make" /\ now.object \in Released => step = Len(PlanFor(req))
<1> USE DEF At
<1>1. \A o : /\ Make(o).do = "make" /\ Make(o).object = o
             /\ Attach(o).do = "attach" /\ Attach(o).object = o
             /\ Wrap(o).do = "wrap" /\ Wrap(o).object = o
  BY DEF Make, Attach, Wrap
<1>2. CASE req.path = "service"
  <2>1. N \in Nat /\ PlanFor(req) = ServicePlan(N)
    BY <1>2, RequestTypes DEF N, PlanFor
  <2>2. CASE ServiceBegun
    <3>1. /\ step = 1 => now = Make("service")
          /\ step = 2 => now = Make("parameter_set")
          /\ step = 3 => now = Attach("parameter_set")
          /\ step = 4 => now = Make("params")
          /\ step = 5 => now = Attach("params")
      BY <2>1, ServicePlanItems
    <3> QED
      BY <1>1, <2>2, <3>1 DEF ServiceBegun, Released, Attached
  <2>3. CASE ServiceParams
    <3>1. PICK k \in 0 .. N :
            At(6 + 2 * k, {"service"}) \/ (k < N /\ At(7 + 2 * k, {"service", "param"}))
      BY <2>3 DEF ServiceParams
    <3>2. CASE At(6 + 2 * k, {"service"})
      <4>1. k \in 0 .. N - 1 \/ k = N
        BY <2>1
      <4>2. now = Make("param") \/ now = Make("message")
        BY <2>1, <3>2, <4>1, ServicePlanItems
      <4> QED
        BY <1>1, <3>2, <4>2 DEF Released
    <3>3. CASE k < N /\ At(7 + 2 * k, {"service", "param"})
      <4>1. k \in 0 .. N - 1
        BY <2>1, <3>3
      <4>2. ServicePlan(N)[7 + 2 * k] = Attach("param")
        BY <2>1, <4>1, ServicePlanItems
      <4>3. now = Attach("param")
        BY <2>1, <3>3, <4>2
      <4> QED
        BY <1>1, <3>3, <4>3 DEF Released, Attached
    <3> QED
      BY <3>1, <3>2, <3>3
  <2>4. CASE ServiceEnd
    <3>1. /\ step = 7 + 2 * N => now = Make("services")
          /\ step = 8 + 2 * N => now = Attach("services")
          /\ step = 9 + 2 * N => now = Attach("service")
      BY <2>1, ServicePlanItems
    <3>2. step # 10 + 2 * N
      <4>1. step <= 9 + 2 * N
        BY <2>1, ServicePlanItems
      <4> QED
        BY <2>1, <4>1
    <3>3. Len(PlanFor(req)) = 9 + 2 * N
      BY <2>1, ServicePlanItems
    <3> QED
      BY <1>1, <2>4, <3>1, <3>2, <3>3 DEF ServiceEnd, Released, Attached
  <2> QED
    BY <1>2, <2>2, <2>3, <2>4 DEF BuildStage
<1>3. CASE req.path = "list_services"
  <2>1. PlanFor(req) = ListPlan /\ ListStage
    BY <1>3 DEF PlanFor, BuildStage
  <2> QED
    BY <1>1, <2>1, OtherPlans DEF ListStage, Released
<1>4. CASE req.path = "service_info" /\ ServiceAsked(req) # {}
  <2>1. PlanFor(req) = InfoPlan /\ InfoStage
    BY <1>4 DEF PlanFor, BuildStage
  <2> QED
    BY <1>1, <2>1, OtherPlans DEF InfoStage, Released, Attached
<1>5. CASE req.path \notin {"service", "list_services"}
           /\ ~(req.path = "service_info" /\ ServiceAsked(req) # {})
  <2>1. PlanFor(req) = <<Make("schema_version")>> /\ OtherStage
    BY <1>5 DEF PlanFor, BuildStage
  <2> QED
    BY <1>1, <2>1, OtherPlans DEF OtherStage, Released
<1> QED
  BY <1>2, <1>3, <1>4, <1>5

\* A step of the plan makes no more than it says.
LEMMA MadeGrows ==
  ASSUME step \in Nat, step >= 1, Build
  PROVE  /\ Made \subseteq Made'
         /\ PlanFor(req)[step].do = "make" => PlanFor(req)[step].object \in Made'
         /\ \A o \in Made' :
              o \in Made \/ (PlanFor(req)[step].do = "make" /\ o = PlanFor(req)[step].object)
<1>1. step' = step + 1 /\ PlanFor(req)' = PlanFor(req)
  BY DEF Build, PlanFor, ServiceAsked
<1>2. 1 .. step' - 1 = (1 .. step - 1) \cup {step}
  BY <1>1
<1>3. Made = {PlanFor(req)[i].object : i \in {j \in 1 .. step - 1 : PlanFor(req)[j].do = "make"}}
  BY DEF Made
<1>4. Made' = {PlanFor(req)[i].object :
                 i \in {j \in (1 .. step - 1) \cup {step} : PlanFor(req)[j].do = "make"}}
  BY <1>1, <1>2 DEF Made
<1>5. \A o : o \in Made <=> \E i \in 1 .. step - 1 :
                              PlanFor(req)[i].do = "make" /\ o = PlanFor(req)[i].object
  BY <1>3, Zenon
<1>6. \A o : o \in Made' <=> \E i \in (1 .. step - 1) \cup {step} :
                               PlanFor(req)[i].do = "make" /\ o = PlanFor(req)[i].object
  BY <1>4, Zenon
<1>7. Made \subseteq Made'
  BY <1>5, <1>6
<1>8. PlanFor(req)[step].do = "make" => PlanFor(req)[step].object \in Made'
  BY <1>6
<1>9. \A o \in Made' :
        o \in Made \/ (PlanFor(req)[step].do = "make" /\ o = PlanFor(req)[step].object)
  BY <1>5, <1>6
<1> QED
  BY <1>7, <1>8, <1>9

LEMMA OwnedAreMadeStep ==
  ASSUME req \in Requests, step \in Nat, step >= 1, BuildStage, OwnedAreMade, Build
  PROVE  OwnedAreMade'
<1> DEFINE now == PlanFor(req)[step]
<1>1. /\ step <= Len(PlanFor(req)) /\ step' = step + 1
      /\ PlanFor(req)' = PlanFor(req) /\ Len(PlanFor(req)) \in Nat
  BY RequestTypes DEF Build, PlanFor, ServiceAsked
<1>2. /\ now.do \in {"make", "attach", "wrap"}
      /\ now.do # "make" /\ now.object \in Released => step = Len(PlanFor(req))
      /\ now.do = "attach" => now.object \in Attached
  BY <1>1, StepObject
<1>3. /\ Made \subseteq Made'
      /\ now.do = "make" => now.object \in Made'
      /\ \A o \in Made' : o \in Made \/ (now.do = "make" /\ o = now.object)
  BY MadeGrows
<1>4. /\ now.do = "make" => owned' = owned \cup {now.object}
      /\ now.do = "attach" => owned' = owned \ {now.object}
      /\ now.do = "wrap" => owned' = (owned \ {now.object}) \cup {"message"}
  BY DEF Build
<1>5. now.do = "wrap" => now.object \in Released
  BY <1>1, StepObject
<1> HIDE DEF now
<1>6. owned \subseteq Made /\ Released \cap Made \subseteq owned
  BY <1>1 DEF OwnedAreMade
<1> SUFFICES ASSUME step' <= Len(PlanFor(req))
             PROVE  owned' \subseteq Made' /\ (Released \cap Made \subseteq owned)'
  BY <1>1 DEF OwnedAreMade
<1>7. step # Len(PlanFor(req))
  BY <1>1
<1>8. CASE now.do = "make"
  BY <1>3, <1>4, <1>6, <1>8 DEF Released
<1>9. CASE now.do = "attach"
  BY <1>2, <1>3, <1>4, <1>6, <1>7, <1>9 DEF Released
<1> QED
  BY <1>2, <1>5, <1>7, <1>8, <1>9

LEMMA BuildKeepsIInv ==
  ASSUME IInv, Build, UNCHANGED handlerVars
  PROVE  IInv'
<1> USE DEF IInv, handlerVars
<1>0. /\ pc = "build" /\ step <= Len(PlanFor(req)) /\ step' = step + 1
      /\ UNCHANGED <<req, pc, taken, buffer, message, uri, again, output, failed>>
  BY DEF Build
<1>1. /\ SentMessage' = SentMessage /\ SentTo' = SentTo /\ Senders' = Senders
      /\ AuthSystem' = AuthSystem /\ Claim' = Claim
  BY <1>0, SameRequest
<1>2. (req \in Requests /\ BuildStage)'
  BY <1>0, StageStep DEF TypeOK, BuildInv
<1>9. OwnedAreMade'
  BY <1>0, OwnedAreMadeStep DEF TypeOK, BuildInv
<1>3. (owned \subseteq Parts /\ Len(params) <= Len(req.params))'
  BY <1>2, StageTypes, PTL
<1>10. "forename" \notin owned'
  BY <1>3 DEF Parts
<1>4. TypeOK'
  <2>1. step' \in 1 .. Len(PlanFor(req')) + 1
    <3>1. Len(PlanFor(req)) \in Nat /\ step \in 1 .. Len(PlanFor(req)) + 1
      BY RequestTypes DEF TypeOK
    <3>2. step + 1 \in 1 .. Len(PlanFor(req)) + 1
      BY <1>0, <3>1
    <3> QED
      BY <1>0, <3>2
  <2> QED
    BY <1>0, <1>3, <2>1 DEF TypeOK, Steps, Objects, Attached, Parts
<1>5. FlowInv' /\ BodyInv' /\ BuildInv'
  BY <1>0, <1>2, <1>9 DEF FlowInv, BodyInv, BuildInv
<1>6. MessageInv' /\ ServerInv' /\ UserInv'
  BY <1>0, <1>1 DEF MessageInv, ServerInv, UserInv, Reading
<1>7. OwnedInv' /\ ReleasedOnce'
  BY <1>0, <1>1, <1>10 DEF OwnedInv, ReleasedOnce
<1>8. AnswerInv' /\ DoneInv'
  BY <1>0 DEF AnswerInv, DoneInv, Handled
<1> QED
  BY <1>4, <1>5, <1>6, <1>7, <1>8

LEMMA BuildFailsKeepsIInv ==
  ASSUME IInv, BuildFails, UNCHANGED handlerVars
  PROVE  IInv'
<1> USE DEF IInv, handlerVars
<1>0. /\ pc = "build" /\ pc' = "find" /\ failed' = TRUE
      /\ owned' = {} /\ (again' = {} \/ \E o \in Attached : again' = {o})
      /\ UNCHANGED <<req, taken, buffer, step, params, message, uri, output>>
  <2> DEFINE now == PlanFor(req)[step]
  <2>1. step <= Len(PlanFor(req)) /\ BuildStage /\ OwnedAreMade /\ req \in Requests
    BY DEF BuildFails, BuildInv, TypeOK
  <2>2. /\ now.do # "attach" => owned \subseteq Released
        /\ now.do = "attach" => owned \subseteq Released \cup {now.object} /\ now.object \in Attached
    BY <2>1, StepObject
  <2>3. owned \subseteq Made /\ Released \cap Made \subseteq owned /\ again = {}
    BY <2>1 DEF OwnedAreMade, OwnedInv, BuildFails
  <2>4. Lost = IF now.do = "attach" THEN {now.object} ELSE {}
    BY DEF Lost
  <2>5. /\ owned' = (owned \ Lost) \ ((Released \cap Made) \cup Lost)
        /\ again' = again \cup (((Released \cap Made) \cup Lost) \ (owned \ Lost))
    BY DEF BuildFails, Drop
  <2> HIDE DEF now, IInv
  <2>6. owned' = {} /\ again' = Lost
    BY <2>2, <2>3, <2>4, <2>5
  <2>7. again' = {} \/ \E o \in Attached : again' = {o}
    BY <2>2, <2>4, <2>6
  <2> QED
    BY <2>6, <2>7 DEF BuildFails, Goto, Fails
<1>1. /\ SentMessage' = SentMessage /\ SentTo' = SentTo /\ Senders' = Senders
      /\ AuthSystem' = AuthSystem /\ Claim' = Claim
  BY <1>0, SameRequest
<1>2. TypeOK'
  BY <1>0 DEF TypeOK, Steps, Objects, Attached
<1>3. FlowInv' /\ BodyInv' /\ BuildInv'
  BY <1>0 DEF FlowInv, BodyInv, BuildInv
<1>4. MessageInv' /\ ServerInv' /\ UserInv'
  BY <1>0, <1>1 DEF MessageInv, ServerInv, UserInv, Reading
<1>5. OwnedInv' /\ ReleasedOnce'
  BY <1>0, <1>1 DEF OwnedInv, ReleasedOnce, FlowInv, MessageInv, UserInv, Reading, Kept
<1>6. AnswerInv' /\ DoneInv'
  BY <1>0 DEF AnswerInv, DoneInv, Handled
<1> QED
  BY <1>2, <1>3, <1>4, <1>5, <1>6

\* At the end of the plan there is the message that was asked for, if any was.
LEMMA BuiltMessage ==
  ASSUME req \in Requests, req.method = "GET", BuildStage, step > Len(PlanFor(req))
  PROVE  \/ /\ owned = IF req.path = "service" THEN {"message"} ELSE {"message", "schema_version"}
            /\ MessageMade = SentMessage /\ MessageMade \in Messages(req)
         \/ /\ req.path # "service" /\ owned = {"schema_version"}
            /\ SentMessage = NULL
<1> USE DEF At
<1>1. CASE req.path = "service"
  <2>1. /\ N \in Nat /\ N = Len(req.params) /\ PlanFor(req) = ServicePlan(N)
        /\ req.params \in Seq({req.params[i] : i \in DOMAIN req.params})
    BY <1>1, RequestTypes DEF N, PlanFor
  <2>2. step > 9 + 2 * N
    BY <2>1, ServicePlanItems
  <2>3. ~ServiceBegun
    BY <2>1, <2>2 DEF ServiceBegun
  <2>4. ~ServiceParams
    BY <2>1, <2>2 DEF ServiceParams
  <2>5. ServiceEnd
    BY <1>1, <2>3, <2>4 DEF BuildStage
  <2>6. owned = {"message"} /\ ParamsMade(N)
    BY <2>1, <2>2, <2>5 DEF ServiceEnd
  <2>7. params = req.params
    BY <2>1, <2>6, SubSeqFull DEF ParamsMade
  <2> QED
    BY <1>1, <2>6, <2>7 DEF MessageMade, SentMessage, Messages
<1>2. CASE req.path = "list_services"
  <2>1. PlanFor(req) = ListPlan /\ ListStage
    BY <1>2 DEF PlanFor, BuildStage
  <2>2. owned = {"schema_version", "message"}
    BY <2>1, OtherPlans DEF ListStage
  <2> QED
    BY <1>2, <2>2 DEF MessageMade, SentMessage, Messages
<1>3. CASE req.path = "service_info" /\ ServiceAsked(req) # {}
  <2>1. PlanFor(req) = InfoPlan /\ InfoStage
    BY <1>3 DEF PlanFor, BuildStage
  <2>2. owned = {"schema_version", "message"}
    BY <2>1, OtherPlans DEF InfoStage
  <2>3. (CHOOSE i \in ServiceAsked(req) : TRUE) \in ServiceAsked(req)
    BY <1>3
  <2> QED
    BY <1>3, <2>2, <2>3 DEF MessageMade, SentMessage, Messages
<1>4. CASE req.path \notin {"service", "list_services"}
           /\ ~(req.path = "service_info" /\ ServiceAsked(req) # {})
  <2>1. PlanFor(req) = <<Make("schema_version")>> /\ OtherStage
    BY <1>4 DEF PlanFor, BuildStage
  <2>2. owned = {"schema_version"}
    BY <2>1, OtherPlans DEF OtherStage
  <2> QED
    BY <1>4, <2>2 DEF SentMessage
<1> QED
  BY <1>1, <1>2, <1>3, <1>4

LEMMA BuiltKeepsIInv ==
  ASSUME IInv, Built, UNCHANGED handlerVars
  PROVE  IInv'
<1> USE DEF IInv, handlerVars
<1>0. /\ pc = "build" /\ pc' = "find" /\ req.method = "GET"
      /\ message' \in Messages(req) \cup {NULL} /\ message' = SentMessage
      /\ owned' = IF message' = NULL THEN {} ELSE {"message"}
      /\ UNCHANGED <<req, taken, buffer, step, params, uri, again, output, failed>>
  <2>1. req \in Requests /\ req.method = "GET" /\ BuildStage
    BY DEF Built, TypeOK, FlowInv, BuildInv
  <2>2. \/ /\ owned = IF req.path = "service" THEN {"message"} ELSE {"message", "schema_version"}
           /\ MessageMade = SentMessage /\ MessageMade \in Messages(req)
        \/ /\ req.path # "service" /\ owned = {"schema_version"}
           /\ SentMessage = NULL
    BY <2>1, BuiltMessage DEF Built
  <2>3. NULL \notin Messages(req)
    BY <2>1, NullAssumption
  <2> QED
    BY <2>1, <2>2, <2>3 DEF Built, Goto, Drop
<1>1. /\ SentMessage' = SentMessage /\ SentTo' = SentTo /\ Senders' = Senders
      /\ AuthSystem' = AuthSystem /\ Claim' = Claim
  BY <1>0, SameRequest
<1>2. TypeOK'
  BY <1>0 DEF TypeOK, Steps, Objects, Attached
<1>3. FlowInv' /\ BodyInv' /\ BuildInv'
  BY <1>0 DEF FlowInv, BodyInv, BuildInv
<1>4. MessageInv' /\ ServerInv' /\ UserInv'
  BY <1>0, <1>1 DEF BuildInv, MessageInv, MessageFits, ServerInv, UserInv, Reading
<1>5. OwnedInv' /\ ReleasedOnce'
  BY <1>0, <1>1 DEF OwnedInv, ReleasedOnce, UserInv, Kept
<1>6. AnswerInv' /\ DoneInv'
  BY <1>0 DEF AnswerInv, DoneInv, Handled
<1> QED
  BY <1>2, <1>3, <1>4, <1>5, <1>6

-----------------------------------------------------------------------------
LEMMA NextKeepsIInv == IInv /\ [Next]_vars => IInv'
<1> SUFFICES ASSUME IInv, [Next]_vars PROVE IInv'
  OBVIOUS
<1>1. CASE Handle
  <2>1. CASE ReadMessage /\ UNCHANGED handlerVars
    BY <2>1, BodyBeginsKeepsIInv, ReadKeepsIInv, EndOfBodyKeepsIInv, DecodeKeepsIInv,
       FreeBufferKeepsIInv, ParamsBeginKeepsIInv, BuildKeepsIInv, BuildFailsKeepsIInv,
       BuiltKeepsIInv DEF ReadMessage
  <2> QED
    BY <1>1, <2>1, StartKeepsIInv, PostKeepsIInv, GetUserKeepsIInv, FindServerKeepsIInv,
       OtherMethodKeepsIInv, DispatchKeepsIInv, ProcessKeepsIInv, ReplyKeepsIInv,
       ReleaseKeepsIInv DEF Handle
<1>2. CASE NextRequest
  <2>1. Init'
    BY <1>2 DEF NextRequest, Init, Goto
  <2> QED
    BY <2>1, FreshIInv, PTL
<1>3. CASE UNCHANGED vars
  <2> USE <1>3 DEF IInv, vars, readVars, handlerVars
  <2>1. /\ SentMessage' = SentMessage /\ SentTo' = SentTo /\ Senders' = Senders
        /\ AuthSystem' = AuthSystem /\ Claim' = Claim
    BY SameRequest
  <2>2. TypeOK' /\ FlowInv' /\ BodyInv'
    BY DEF TypeOK, FlowInv, BodyInv
  <2>7. PlanFor(req)' = PlanFor(req)
    BY DEF PlanFor, ServiceAsked
  <2>8. OwnedAreMade' = OwnedAreMade
    BY <2>7 DEF OwnedAreMade, Made
  <2>3. BuildInv'
    BY <2>8 DEF BuildInv, BuildStage, ServiceBegun, ServiceParams, ServiceEnd, ListStage, InfoStage,
           OtherStage, At, ParamsMade, N, ServiceAsked
  <2>6. MessageFits' = MessageFits /\ EndsOfBody' = EndsOfBody
    BY <2>1 DEF MessageFits, EndsOfBody
  <2>4. MessageInv' /\ ServerInv' /\ UserInv' /\ AnswerInv' /\ ReleasedOnce'
    BY <2>1, <2>6 DEF MessageInv, ServerInv, UserInv, AnswerInv, ReleasedOnce
  <2>9. OwnedInv'
    BY <2>1 DEF OwnedInv, Kept
  <2>5. DoneInv'
    BY <2>1, <2>6 DEF DoneInv, ProcessedAsSent, SentIsProcessed, AnswerMatches, AllReleased
  <2> QED
    BY <2>2, <2>3, <2>4, <2>5, <2>9
<1> QED
  BY <1>1, <1>2, <1>3 DEF Next

LEMMA Invariance == Spec => []IInv
  BY FreshIInv, NextKeepsIInv, PTL DEF Spec

\* The type invariant: in particular a message, a user and what a server is given
\* are those of the request that is being handled.
THEOREM TypeCorrect == Spec => []TypeOK
<1>1. IInv => TypeOK
  BY DEF IInv
<1> QED
  BY <1>1, Invariance, PTL

\* A server is only given what was sent to it, in order and up to an end of the body, on
\* behalf of the user that the configured system has for the request: any bytes as the
\* body, cut into blocks in any way, whichever calls fail.
THEOREM ProcessedAsSentHolds == Spec => []ProcessedAsSent
<1>1. IInv => ProcessedAsSent
  <2> SUFFICES ASSUME IInv, processed # NULL PROVE ProcessedAsSent
    BY DEF ProcessedAsSent
  <2>1. CASE pc = "done"
    BY <2>1 DEF IInv, DoneInv
  <2>2. CASE pc \in {"reply", "release"}
    BY <2>2, ProcessedFits
  <2>3. CASE pc \notin Handled
    BY <2>3 DEF IInv, AnswerInv
  <2> QED
    BY <2>1, <2>2, <2>3 DEF Handled
<1> QED
  BY <1>1, Invariance, PTL

\* A message that was sent to a server and read without a failure is processed whole.
THEOREM SentIsProcessedHolds == Spec => []SentIsProcessed
<1>1. IInv => SentIsProcessed
  BY DEF IInv, DoneInv, SentIsProcessed
<1> QED
  BY <1>1, Invariance, PTL

\* The status of a request goes with what was done for it and what was sent back.
THEOREM AnswerMatchesHolds == Spec => []AnswerMatches
<1>1. IInv => AnswerMatches
  BY DEF IInv, DoneInv, AnswerMatches
<1> QED
  BY <1>1, Invariance, PTL

\* A request releases all that it allocates but for the three leaks named there,
\* whichever calls fail and however many parameters it has.
THEOREM AllReleasedHolds == Spec => []AllReleased
<1>1. IInv => AllReleased
  BY DEF IInv, DoneInv, AllReleased
<1> QED
  BY <1>1, Invariance, PTL

\* Whatever function releases an object, the request owns it, but for the value that
\* jansson could not attach to the message of a GET.
THEOREM ReleasedOnceHolds == Spec => []ReleasedOnce
<1>1. IInv => ReleasedOnce
  BY DEF IInv
<1> QED
  BY <1>1, Invariance, PTL

=============================================================================
