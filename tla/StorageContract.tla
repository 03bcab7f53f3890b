---------------------------- MODULE StorageContract ----------------------------
(***************************************************************************)
(* What src/include/apr_global_storage.h promises the callers of the       *)
(* storage: a map shared by all threads and processes on which every       *)
(* operation takes effect at one instant between the call and its return.  *)
(*   Add     "true if the value was successfully added"; the provider may  *)
(*           drop other entries to make room;                              *)
(*   Get     "the matched value or NULL if the key is not in the           *)
(*           APRGlobalStorage";                                            *)
(*   Remove  the same, and "if found, the value will be removed";          *)
(*   Iterate the callback runs on each entry, "true if successful".        *)
(* If fallible, a call may also fail, and then changes nothing.            *)
(***************************************************************************)
CONSTANTS Clients, Keys, Values, NULL, Requests, NoRequest

VARIABLES contents,  \* contents[k]: the value under k, NULL if none
          phase,     \* phase[c]: where client c's call is
          ask,       \* ask[c]: the request of client c
          answer,    \* answer[c]: what the call returned and what it showed
          fallible   \* calls may fail; it never changes

vars == <<contents, phase, ask, answer, fallible>>

Maybe == Values \cup {NULL}
Nothing == [k \in Keys |-> NULL]
NoAnswer == [result |-> NULL, entries |-> Nothing]

\* The maps that hold some of the entries of m.
SubMaps(m) == {[k \in Keys |-> IF k \in kept THEN m[k] ELSE NULL] :
                 kept \in SUBSET Keys}

Answers(c, result, entries) ==
  answer' = [answer EXCEPT ![c] = [result |-> result, entries |-> entries]]

Init ==
  /\ contents = Nothing
  /\ phase = [c \in Clients |-> "idle"]
  /\ ask = [c \in Clients |-> NoRequest]
  /\ answer = [c \in Clients |-> NoAnswer]
  /\ fallible \in BOOLEAN

Ask(c, r) ==
  /\ phase[c] = "idle"
  /\ phase' = [phase EXCEPT ![c] = "asked"]
  /\ ask' = [ask EXCEPT ![c] = r]
  /\ UNCHANGED <<contents, answer, fallible>>

ServeAdd(c) ==
  /\ ask[c].op = "add"
  /\ \/ /\ Answers(c, TRUE, Nothing)
        /\ \E kept \in SubMaps(contents) :
             contents' = [kept EXCEPT ![ask[c].key] = ask[c].value]
     \/ /\ Answers(c, FALSE, Nothing)
        /\ contents' \in {contents, [contents EXCEPT ![ask[c].key] = NULL]}

ServeGet(c) ==
  /\ ask[c].op = "get"
  /\ \/ Answers(c, contents[ask[c].key], Nothing)
     \/ fallible /\ Answers(c, NULL, Nothing)
  /\ UNCHANGED contents

ServeRemove(c) ==
  /\ ask[c].op = "remove"
  /\ \/ /\ Answers(c, contents[ask[c].key], Nothing)
        /\ contents' = [contents EXCEPT ![ask[c].key] = NULL]
     \/ /\ fallible
        /\ Answers(c, NULL, Nothing)
        /\ UNCHANGED contents

ServeIterate(c) ==
  /\ ask[c].op = "iterate"
  /\ \/ Answers(c, TRUE, contents)
     \/ /\ fallible
        /\ \E shown \in SubMaps(contents) : Answers(c, FALSE, shown)
  /\ UNCHANGED contents

Serve(c) ==
  /\ phase[c] = "asked"
  /\ phase' = [phase EXCEPT ![c] = "answered"]
  /\ ServeAdd(c) \/ ServeGet(c) \/ ServeRemove(c) \/ ServeIterate(c)
  /\ UNCHANGED <<ask, fallible>>

Reply(c) ==
  /\ phase[c] = "answered"
  /\ phase' = [phase EXCEPT ![c] = "idle"]
  /\ ask' = [ask EXCEPT ![c] = NoRequest]
  /\ answer' = [answer EXCEPT ![c] = NoAnswer]
  /\ UNCHANGED <<contents, fallible>>

Next == \E c \in Clients : (\E r \in Requests : Ask(c, r)) \/ Serve(c) \/ Reply(c)

Spec == Init /\ [][Next]_vars
=============================================================================
