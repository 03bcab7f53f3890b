------------------------ MODULE GlobalStorageRefinement ------------------------
(***************************************************************************)
(* GlobalStorage implements StorageContract: the uncompressed build, when  *)
(* the mutex can be had by Find and Iterate and the provider's remove does *)
(* what it is asked.  Compressed or not, when anything fails but the       *)
(* locking in Find, and processes are killed, it implements                *)
(* StorageUnderFaults.                                                     *)
(***************************************************************************)
EXTENDS GlobalStorageProofs

\* Until an operation has looked at the cache its result is the initial one.
ResultInv ==
  \A c \in Clients :
    pc[c] \in {"key", "lock", "store", "measure", "retrieve", "visit"}
      => result[c] = InitialResult(req[c].op)

LEMMA ResultInvStep == TypeOK /\ OpInv /\ ResultInv /\ [Next]_vars => ResultInv'
<1> SUFFICES ASSUME TypeOK, OpInv, ResultInv, [Next]_vars PROVE ResultInv'
  OBVIOUS
<1> USE DEF TypeOK, ResultInv, Goto, Returns
<1>1. ASSUME NEW c \in Clients, NEW r \in Requests, Begin(c, r) PROVE ResultInv'
  BY <1>1 DEF Begin
<1>2. ASSUME NEW c \in Clients, MakeKey(c) PROVE ResultInv'
  BY <1>2 DEF MakeKey
<1>3. ASSUME NEW c \in Clients, Lock(c) PROVE ResultInv'
  BY <1>3 DEF Lock
<1>4. ASSUME NEW c \in Clients, LockFails(c) PROVE ResultInv'
  BY <1>4 DEF LockFails
<1>5. ASSUME NEW c \in Clients, AddStore(c) PROVE ResultInv'
  BY <1>5 DEF AddStore
<1>6. ASSUME NEW c \in Clients, ReadLargest(c) PROVE ResultInv'
  BY <1>6 DEF ReadLargest
<1>7. ASSUME NEW c \in Clients, RaiseLargest(c) PROVE ResultInv'
  BY <1>7 DEF RaiseLargest
<1>8. ASSUME NEW c \in Clients, Measure(c) PROVE ResultInv'
  BY <1>8 DEF Measure
<1>9. ASSUME NEW c \in Clients, Retrieve(c) PROVE ResultInv'
  BY <1>9 DEF Retrieve
<1>10. ASSUME NEW c \in Clients, Delete(c) PROVE ResultInv'
  BY <1>10 DEF Delete
<1>11. ASSUME NEW c \in Clients, NEW k \in Keys, Visit(c, k) PROVE ResultInv'
  BY <1>11 DEF Visit
<1>12. ASSUME NEW c \in Clients, EndVisit(c) PROVE ResultInv'
  BY <1>12 DEF EndVisit
<1>13. ASSUME NEW c \in Clients, Unlock(c) PROVE ResultInv'
  BY <1>13 DEF Unlock
<1>14. ASSUME NEW c \in Clients, Return(c) PROVE ResultInv'
  BY <1>14 DEF Return, Forget
<1>15. ASSUME NEW c \in Clients, Crash(c) PROVE ResultInv'
  BY <1>15 DEF Crash, Forget
<1>16. CASE UNCHANGED vars
  BY <1>16 DEF vars
<1> QED
  BY <1>1, <1>2, <1>3, <1>4, <1>5, <1>6, <1>7, <1>8, <1>9, <1>10, <1>11,
     <1>12, <1>13, <1>14, <1>15, <1>16 DEF Next, Proceed

\* Remove has in hand the entry that it is about to remove, unless it could not
\* be decompressed.
DeleteInv ==
  \A c \in Clients :
    pc[c] = "delete" => /\ cache[req[c].key] # NULL
                        /\ result[c] \in {cache[req[c].key].value, NULL}
                        /\ ~Compressing => result[c] = cache[req[c].key].value

\* A step that leaves the entries alone and lets nobody begin a removal.
LEMMA DeleteInvKept ==
  ASSUME DeleteInv, cache' = cache,
         \A d \in Clients : pc'[d] = "delete" =>
           pc[d] = "delete" /\ req'[d] = req[d] /\ result'[d] = result[d]
  PROVE  DeleteInv'
BY DEF DeleteInv

LEMMA DeleteInvStep ==
  TypeOK /\ OpInv /\ HolderInv /\ DeleteInv /\ [Next]_vars => DeleteInv'
<1> SUFFICES ASSUME TypeOK, OpInv, HolderInv, DeleteInv, [Next]_vars
             PROVE  DeleteInv'
  OBVIOUS
<1> USE DEF TypeOK, Goto, Returns
<1>1. ASSUME NEW c \in Clients, NEW r \in Requests, Begin(c, r) PROVE DeleteInv'
  BY <1>1, DeleteInvKept DEF Begin
<1>2. ASSUME NEW c \in Clients, MakeKey(c) PROVE DeleteInv'
  BY <1>2, DeleteInvKept DEF MakeKey
<1>3. ASSUME NEW c \in Clients, Lock(c) PROVE DeleteInv'
  <2>1. FirstStep[req[c].op] \in {"store", "measure", "visit"}
    BY <1>3, RequestFields DEF FirstStep, OpInv, Lock
  <2> QED
    BY <1>3, <2>1, DeleteInvKept DEF Lock
<1>4. ASSUME NEW c \in Clients, LockFails(c) PROVE DeleteInv'
  BY <1>4, DeleteInvKept DEF LockFails
<1>5. ASSUME NEW c \in Clients, AddStore(c) PROVE DeleteInv'
  <2>1. \A d \in Clients : pc'[d] # "delete"
    BY <1>5 DEF AddStore, HolderInv, Critical
  <2> QED
    BY <2>1 DEF DeleteInv
<1>6. ASSUME NEW c \in Clients, ReadLargest(c) PROVE DeleteInv'
  BY <1>6, DeleteInvKept DEF ReadLargest
<1>7. ASSUME NEW c \in Clients, RaiseLargest(c) PROVE DeleteInv'
  BY <1>7, DeleteInvKept DEF RaiseLargest
<1>8. ASSUME NEW c \in Clients, Measure(c) PROVE DeleteInv'
  BY <1>8, DeleteInvKept DEF Measure
<1>9. ASSUME NEW c \in Clients, Retrieve(c) PROVE DeleteInv'
  <2>1. Fits(c) => \A v \in Decodings(cache[req[c].key]) :
          /\ v \in {cache[req[c].key].value, NULL}
          /\ ~Compressing => v = cache[req[c].key].value
    BY DEF Decodings, UncompressFromBZ2
  <2> QED
    BY <1>9, <2>1 DEF Retrieve, DeleteInv, Fits
<1>10. ASSUME NEW c \in Clients, Delete(c) PROVE DeleteInv'
  <2>1. \A d \in Clients : pc'[d] # "delete"
    BY <1>10 DEF Delete, HolderInv, Critical
  <2> QED
    BY <2>1 DEF DeleteInv
<1>11. ASSUME NEW c \in Clients, NEW k \in Keys, Visit(c, k) PROVE DeleteInv'
  BY <1>11, DeleteInvKept DEF Visit
<1>12. ASSUME NEW c \in Clients, EndVisit(c) PROVE DeleteInv'
  BY <1>12, DeleteInvKept DEF EndVisit
<1>13. ASSUME NEW c \in Clients, Unlock(c) PROVE DeleteInv'
  BY <1>13, DeleteInvKept DEF Unlock
<1>14. ASSUME NEW c \in Clients, Return(c) PROVE DeleteInv'
  BY <1>14, DeleteInvKept DEF Return, Forget
<1>15. ASSUME NEW c \in Clients, Crash(c) PROVE DeleteInv'
  BY <1>15, DeleteInvKept DEF Crash, Forget
<1>16. CASE UNCHANGED vars
  BY <1>16 DEF vars, DeleteInv
<1> QED
  BY <1>1, <1>2, <1>3, <1>4, <1>5, <1>6, <1>7, <1>8, <1>9, <1>10, <1>11,
     <1>12, <1>13, <1>14, <1>15, <1>16 DEF Next, Proceed

\* What Iterate has shown so far is what is in the cache.
SeenInv ==
  \A c \in Clients :
    /\ (pc[c] \in Steps \ {"visit", "unlock", "done"} \/ req[c].op # "iterate")
         => seen[c] = NoBlocks
    /\ (pc[c] = "lock" /\ req[c].op = "iterate") => todo[c] = Keys
    /\ pc[c] = "visit" =>
         \A k \in Keys : seen[c][k] = IF k \in todo[c] THEN NULL ELSE cache[k]

LEMMA SeenInvKept ==
  ASSUME TypeOK, SeenInv, seen' = seen, todo' = todo, req' = req,
         \A d \in Clients : /\ pc'[d] \in {pc[d]} \cup (Steps \ {"visit", "lock"})
                            /\ pc'[d] = pc[d] \/ pc[d] # "visit" \/ pc'[d] \in {"unlock", "done"}
                            /\ pc'[d] = pc[d] \/ pc[d] # "unlock" \/ pc'[d] = "done"
                            /\ pc'[d] = pc[d] \/ pc[d] # "done"
                            /\ pc'[d] = "visit" => cache' = cache
  PROVE  SeenInv'
BY DEF SeenInv, TypeOK, Steps

LEMMA SeenInvStep ==
  TypeOK /\ OpInv /\ HolderInv /\ SeenInv /\ [Next]_vars => SeenInv'
<1> SUFFICES ASSUME TypeOK, OpInv, HolderInv, SeenInv, [Next]_vars
             PROVE  SeenInv'
  OBVIOUS
<1> USE DEF TypeOK, Goto, Returns
<1>1. ASSUME NEW c \in Clients, NEW r \in Requests, Begin(c, r) PROVE SeenInv'
  BY <1>1 DEF Begin, SeenInv, Steps, OpInv
<1>2. ASSUME NEW c \in Clients, MakeKey(c) PROVE SeenInv'
  BY <1>2 DEF MakeKey, SeenInv, Steps, OpInv
<1>3. ASSUME NEW c \in Clients, Lock(c) PROVE SeenInv'
  <2>1. req[c] \in Requests /\ FirstStep[req[c].op] \in {"store", "measure", "visit"}
    BY <1>3, RequestFields DEF FirstStep, OpInv, Lock
  <2>2. FirstStep[req[c].op] = "visit" => req[c].op = "iterate"
    BY <2>1, RequestFields DEF FirstStep
  <2> QED
    BY <1>3, <2>1, <2>2 DEF Lock, SeenInv, Steps, NoBlocks
<1>4. ASSUME NEW c \in Clients, LockFails(c) PROVE SeenInv'
  BY <1>4, SeenInvKept DEF LockFails, Steps
<1>5. ASSUME NEW c \in Clients, AddStore(c) PROVE SeenInv'
  <2>1. \A d \in Clients : pc'[d] # "visit"
    BY <1>5 DEF AddStore, HolderInv, Critical
  <2> QED
    BY <1>5, <2>1, SeenInvKept DEF AddStore, Steps
<1>6. ASSUME NEW c \in Clients, ReadLargest(c) PROVE SeenInv'
  BY <1>6, SeenInvKept DEF ReadLargest, Steps
<1>7. ASSUME NEW c \in Clients, RaiseLargest(c) PROVE SeenInv'
  BY <1>7, SeenInvKept DEF RaiseLargest, Steps
<1>8. ASSUME NEW c \in Clients, Measure(c) PROVE SeenInv'
  BY <1>8, SeenInvKept DEF Measure, Steps
<1>9. ASSUME NEW c \in Clients, Retrieve(c) PROVE SeenInv'
  BY <1>9, SeenInvKept DEF Retrieve, Steps
<1>10. ASSUME NEW c \in Clients, Delete(c) PROVE SeenInv'
  <2>1. \A d \in Clients : pc'[d] # "visit"
    BY <1>10 DEF Delete, HolderInv, Critical
  <2> QED
    BY <1>10, <2>1, SeenInvKept DEF Delete, Steps
<1>11. ASSUME NEW c \in Clients, NEW k \in Keys, Visit(c, k) PROVE SeenInv'
  <2>1. CASE /\ todo' = [todo EXCEPT ![c] = @ \ {k}]
             /\ seen' = [seen EXCEPT ![c][k] = cache[k]]
             /\ pc' = pc
    <3>1. \A d \in Clients \ {c} : seen'[d] = seen[d] /\ todo'[d] = todo[d]
      BY <2>1
    <3>2. /\ todo'[c] = todo[c] \ {k}
          /\ \A j \in Keys : seen'[c][j] = IF j = k THEN cache[k] ELSE seen[c][j]
      BY <2>1
    <3>3. req[c].op = "iterate" /\ pc[c] = "visit" /\ req' = req /\ cache' = cache
      BY <1>11 DEF Visit, OpInv
    <3> QED
      BY <2>1, <3>1, <3>2, <3>3 DEF SeenInv
  <2>2. CASE todo' = todo /\ seen' = seen /\ pc' = [pc EXCEPT ![c] = "unlock"]
    BY <1>11, <2>2, SeenInvKept DEF Visit, Steps
  <2> QED
    BY <1>11, <2>1, <2>2 DEF Visit
<1>12. ASSUME NEW c \in Clients, EndVisit(c) PROVE SeenInv'
  BY <1>12, SeenInvKept DEF EndVisit, Steps
<1>13. ASSUME NEW c \in Clients, Unlock(c) PROVE SeenInv'
  BY <1>13, SeenInvKept DEF Unlock, Steps
<1>14. ASSUME NEW c \in Clients, Return(c) PROVE SeenInv'
  BY <1>14 DEF Return, Forget, SeenInv, Steps, OpInv
<1>15. ASSUME NEW c \in Clients, Crash(c) PROVE SeenInv'
  BY <1>15 DEF Crash, Forget, SeenInv, Steps, OpInv
<1>16. CASE UNCHANGED vars
  BY <1>16 DEF vars, SeenInv
<1> QED
  BY <1>1, <1>2, <1>3, <1>4, <1>5, <1>6, <1>7, <1>8, <1>9, <1>10, <1>11,
     <1>12, <1>13, <1>14, <1>15, <1>16 DEF Next, Proceed

-----------------------------------------------------------------------------
(* The refinement, one lemma per kind of step.                               *)
Sound ==
  /\ ~Compressing
  /\ Faults \cap {"lock_find", "lock_iterate", "remove", "crash"} = {}

PhaseBar == [c \in Clients |-> Phase(c)]
AnswerBar == [c \in Clients |-> Answer(c)]

\* A step of client c changes the phase and the answer of c alone.
LEMMA StepOfOne ==
  ASSUME NEW c \in Clients,
         \A d \in Clients \ {c} : /\ pc'[d] = pc[d]
                                  /\ result'[d] = result[d]
                                  /\ seen'[d] = seen[d]
  PROVE  /\ PhaseBar' = [PhaseBar EXCEPT ![c] = Phase(c)']
         /\ AnswerBar' = [AnswerBar EXCEPT ![c] = Answer(c)']
<1>1. \A d \in Clients \ {c} : Phase(d)' = Phase(d) /\ Answer(d)' = Answer(d)
  BY DEF Phase, Answer, Committed, ValuesOf, ValueOf
<1> QED
  BY <1>1 DEF PhaseBar, AnswerBar

\* A step of c that shows its caller nothing new is a stutter of the contract.
LEMMA HiddenStep ==
  ASSUME NEW c \in Clients, cache' = cache, req' = req,
         \A d \in Clients \ {c} : /\ pc'[d] = pc[d]
                                  /\ result'[d] = result[d]
                                  /\ seen'[d] = seen[d],
         Phase(c)' = Phase(c), Answer(c)' = Answer(c)
  PROVE  UNCHANGED <<ValuesOf(cache), PhaseBar, req, AnswerBar>>
<1>1. PhaseBar' = PhaseBar /\ AnswerBar' = AnswerBar
  BY StepOfOne DEF PhaseBar, AnswerBar
<1> QED
  BY <1>1 DEF ValuesOf, ValueOf

IInv == /\ TypeOK /\ OpInv /\ HolderInv /\ ResultInv /\ DeleteInv /\ SeenInv
        /\ (~Compressing /\ Faults \cap {"shm", "crash"} = {}) => CoverInv

LEMMA IInvStep ==
  ASSUME "lock_find" \notin Faults
  PROVE  IInv /\ [Next]_vars => IInv'
BY TypeOKStep, OpInvStep, HolderInvStep, ResultInvStep, DeleteInvStep, SeenInvStep,
   CoverInvStep DEF IInv

LEMMA InitMaps == Init => IInv /\ Contract!Init
<1> SUFFICES ASSUME Init PROVE IInv /\ Contract!Init
  OBVIOUS
<1>1. TypeOK
  BY InitTypeOK
<1>2. OpInv /\ HolderInv /\ ResultInv /\ DeleteInv /\ SeenInv
  BY DEF Init, OpInv, HolderInv, ResultInv, DeleteInv, SeenInv, Critical
<1>3. CoverInv
  BY DEF Init, CoverInv, Covered, Fresh, NoBlocks
<1>4. Contract!Init
  BY DEF Init, Contract!Init, Contract!Nothing, Contract!NoAnswer, Phase, Answer,
         Committed, ValuesOf, ValueOf, NoBlocks
<1> QED
  BY <1>1, <1>2, <1>3, <1>4 DEF IInv

LEMMA BeginMaps ==
  ASSUME IInv, NEW c \in Clients, NEW r \in Requests, Begin(c, r)
  PROVE  Contract!Ask(c, r)
<1> USE DEF IInv, TypeOK, Goto, Returns
<1>1. Phase(c) = "idle" /\ Phase(c)' = "asked" /\ Answer(c)' = Answer(c)
  BY DEF Begin, Phase, Answer, Committed
<1>2. PhaseBar' = [PhaseBar EXCEPT ![c] = "asked"] /\ AnswerBar' = AnswerBar
  BY <1>1, StepOfOne DEF Begin, AnswerBar
<1>3. ValuesOf(cache)' = ValuesOf(cache)
  BY DEF Begin, ValuesOf, ValueOf
<1> QED
  BY <1>1, <1>2, <1>3 DEF Begin, Contract!Ask, PhaseBar, AnswerBar

LEMMA ReturnMaps ==
  ASSUME IInv, NEW c \in Clients, Return(c)
  PROVE  Contract!Reply(c)
<1> USE DEF IInv, TypeOK, Goto, Returns
<1>1. /\ Phase(c) = "answered" /\ Phase(c)' = "idle"
      /\ Answer(c)' = [result |-> NULL, entries |-> NoBlocks]
  BY DEF Return, Forget, Phase, Answer, Committed
<1>2. /\ PhaseBar' = [PhaseBar EXCEPT ![c] = "idle"]
      /\ AnswerBar' = [AnswerBar EXCEPT ![c] = [result |-> NULL, entries |-> NoBlocks]]
  BY <1>1, StepOfOne DEF Return, Forget
<1>3. ValuesOf(cache)' = ValuesOf(cache)
  BY DEF Return, Forget, ValuesOf, ValueOf
<1> QED
  BY <1>1, <1>2, <1>3 DEF Return, Forget, Contract!Reply, Contract!NoAnswer, Contract!Nothing,
     PhaseBar, AnswerBar, NoBlocks

\* A step at which the call of c takes effect.
LEMMA CommitMaps ==
  ASSUME NEW c \in Clients, NEW res, NEW entries, Phase(c) = "asked", Committed(c)',
         \A d \in Clients \ {c} : /\ pc'[d] = pc[d]
                                  /\ result'[d] = result[d]
                                  /\ seen'[d] = seen[d],
         pc'[c] # "idle", result'[c] = res, ValuesOf(seen'[c]) = entries, req' = req
  PROVE  /\ PhaseBar[c] = "asked"
         /\ PhaseBar' = [PhaseBar EXCEPT ![c] = "answered"]
         /\ AnswerBar' = [AnswerBar EXCEPT ![c] = [result |-> res, entries |-> entries]]
<1>1. Phase(c)' = "answered" /\ Answer(c)' = [result |-> res, entries |-> entries]
  BY DEF Phase, Answer
<1> QED
  BY <1>1, StepOfOne DEF PhaseBar

CVars == <<ValuesOf(cache), PhaseBar, req, AnswerBar>>

\* fallible of the contract.
MayFail == Faults \cap {"memory", "shm"} # {}

\* A call that gives up before it touches anything: a failed Add answers false,
\* and if calls may fail the other operations answer NULL or false.
LEMMA GiveUpMaps ==
  ASSUME IInv, NEW c \in Clients, cache' = cache, req' = req, seen' = seen,
         pc[c] \in {"key", "lock", "store", "measure", "retrieve"},
         pc' = [pc EXCEPT ![c] = "unlock"] \/ pc' = [pc EXCEPT ![c] = "done"],
         result' = result, req[c].op \in {"add", "get", "remove"},
         req[c].op = "add" \/ MayFail
  PROVE  Contract!Serve(c)
<1> USE DEF IInv, TypeOK
<1>1. result[c] = IF req[c].op = "add" THEN FALSE ELSE NULL
  BY DEF ResultInv, InitialResult
<1>2. seen[c] = NoBlocks
  BY DEF SeenInv, Steps
<1>3. ValuesOf(seen'[c]) = NoBlocks
  BY <1>2 DEF ValuesOf, ValueOf, NoBlocks
<1>4. /\ PhaseBar[c] = "asked"
      /\ PhaseBar' = [PhaseBar EXCEPT ![c] = "answered"]
      /\ AnswerBar' = [AnswerBar EXCEPT ![c] = [result |-> result[c], entries |-> NoBlocks]]
  <2>1. Phase(c) = "asked"
    BY DEF Phase, Committed
  <2>2. Committed(c)' /\ pc'[c] # "idle" /\ \A d \in Clients \ {c} : pc'[d] = pc[d]
    BY DEF Committed
  <2> QED
    BY <2>1, <2>2, <1>3, CommitMaps
<1>5. ValuesOf(cache)' = ValuesOf(cache)
  BY DEF ValuesOf, ValueOf
<1>6. CASE req[c].op = "add"
  BY <1>1, <1>4, <1>5, <1>6 DEF Contract!Serve, Contract!ServeAdd, Contract!Answers,
     Contract!Nothing, NoBlocks, PhaseBar, AnswerBar
<1>7. CASE req[c].op = "get"
  BY <1>1, <1>4, <1>5, <1>7 DEF Contract!Serve, Contract!ServeGet, Contract!Answers,
     Contract!Nothing, NoBlocks, PhaseBar, AnswerBar, MayFail
<1>8. CASE req[c].op = "remove"
  BY <1>1, <1>4, <1>5, <1>8 DEF Contract!Serve, Contract!ServeRemove, Contract!Answers,
     Contract!Nothing, NoBlocks, PhaseBar, AnswerBar, MayFail
<1> QED
  BY <1>6, <1>7, <1>8

LEMMA MakeKeyMaps ==
  ASSUME IInv, NEW c \in Clients, MakeKey(c)
  PROVE  Contract!Serve(c) \/ UNCHANGED CVars
<1> USE DEF IInv, TypeOK, Goto
<1>1. req[c].op \in {"add", "get", "remove"}
  BY RequestFields DEF MakeKey, OpInv
<1>2. CASE pc' = [pc EXCEPT ![c] = "lock"]
  BY <1>2, HiddenStep DEF MakeKey, CVars, Phase, Answer, Committed
<1>3. CASE "memory" \in Faults /\ pc' = [pc EXCEPT ![c] = "done"]
  BY <1>1, <1>3, GiveUpMaps DEF MakeKey, MayFail
<1> QED
  BY <1>2, <1>3 DEF MakeKey

LEMMA LockMaps ==
  ASSUME IInv, NEW c \in Clients, Lock(c)
  PROVE  UNCHANGED CVars
<1> USE DEF IInv, TypeOK, Goto
<1>1. FirstStep[req[c].op] \in {"store", "measure", "visit"}
  BY RequestFields DEF FirstStep, OpInv, Lock
<1> QED
  BY <1>1, HiddenStep DEF Lock, CVars, Phase, Answer, Committed

LEMMA LockFailsMaps ==
  ASSUME IInv, Sound, NEW c \in Clients, LockFails(c)
  PROVE  Contract!Serve(c)
<1> USE DEF IInv, TypeOK, Goto
<1>1. req[c].op = "add"
  BY RequestFields DEF LockFails, LockFault, OpInv, Sound
<1> QED
  BY <1>1, GiveUpMaps DEF LockFails

LEMMA AddStoreMaps ==
  ASSUME IInv, NEW c \in Clients, AddStore(c)
  PROVE  Contract!Serve(c)
<1> USE DEF IInv, TypeOK, Goto, Returns
<1> DEFINE k == req[c].key
           v == req[c].value
<1>1. req[c].op = "add" /\ k \in Keys /\ v \in Values /\ pc[c] = "store"
  BY RequestFields DEF OpInv, AddStore
<1>2. \A b \in Encodings(v) : b # NULL => b \in Blocks /\ b.value = v
  BY <1>1, EncodingsAreBlocks DEF Encodings, CompressToBZ2, Plain
<1>3. ASSUME NEW b \in Encodings(v), b # NULL,
             /\ cache' \in Stored(k, b)
             /\ result' = [result EXCEPT ![c] = TRUE]
             /\ pc' = [pc EXCEPT ![c] = "grow"]
      PROVE  Contract!Serve(c)
  <2>1. PICK dropped \in SUBSET (Keys \ {k}) :
          cache' = [j \in Keys |-> IF j = k THEN b
                                   ELSE IF j \in dropped THEN NULL ELSE cache[j]]
    BY <1>3 DEF Stored
  <2> DEFINE kept == [j \in Keys |-> IF j \in Keys \ dropped
                                       THEN ValuesOf(cache)[j] ELSE NULL]
  <2>2. kept \in Contract!SubMaps(ValuesOf(cache))
    BY DEF Contract!SubMaps
  <2>3. ValuesOf(cache)' = [kept EXCEPT ![k] = v]
    BY <1>1, <1>2, <1>3, <2>1 DEF ValuesOf, ValueOf
  <2>4. ValuesOf(seen'[c]) = NoBlocks
    BY <1>1 DEF SeenInv, Steps, AddStore, ValuesOf, ValueOf, NoBlocks
  <2>5. Phase(c) = "asked" /\ Committed(c)' /\ pc'[c] # "idle"
    BY <1>1, <1>3 DEF Phase, Committed
  <2>6. result'[c] = TRUE
    BY <1>3
  <2>7. /\ PhaseBar[c] = "asked"
        /\ PhaseBar' = [PhaseBar EXCEPT ![c] = "answered"]
        /\ AnswerBar' = [AnswerBar EXCEPT ![c] = [result |-> TRUE, entries |-> NoBlocks]]
    <3>1. \A d \in Clients \ {c} : /\ pc'[d] = pc[d]
                                  /\ result'[d] = result[d]
                                  /\ seen'[d] = seen[d]
      BY <1>3 DEF AddStore
    <3>2. req' = req
      BY DEF AddStore
    <3>3. AnswerBar' = [AnswerBar EXCEPT ![c] = [result |-> result'[c], entries |-> NoBlocks]]
      BY <2>4, <2>5, <3>1, <3>2, CommitMaps
    <3>4. PhaseBar[c] = "asked" /\ PhaseBar' = [PhaseBar EXCEPT ![c] = "answered"]
      BY <2>4, <2>5, <3>1, <3>2, CommitMaps
    <3> QED
      BY <2>6, <3>3, <3>4
  <2>8. req' = req
    BY DEF AddStore
  <2> HIDE DEF kept
  <2> QED
    BY <1>1, <2>2, <2>3, <2>7, <2>8 DEF Contract!Serve, Contract!ServeAdd,
       Contract!Answers, Contract!Nothing, NoBlocks, PhaseBar, AnswerBar
<1>4. CASE /\ cache' \in {cache, [cache EXCEPT ![k] = NULL]}
           /\ pc' = [pc EXCEPT ![c] = "unlock"]
           /\ result' = result
  <2>1. ValuesOf(cache)' \in {ValuesOf(cache), [ValuesOf(cache) EXCEPT ![k] = NULL]}
    BY <1>1, <1>4 DEF ValuesOf, ValueOf
  <2>2. result'[c] = FALSE
    BY <1>1, <1>4 DEF ResultInv, InitialResult
  <2>3. ValuesOf(seen'[c]) = NoBlocks
    BY <1>1 DEF SeenInv, Steps, AddStore, ValuesOf, ValueOf, NoBlocks
  <2>4. Phase(c) = "asked" /\ Committed(c)' /\ pc'[c] # "idle"
    BY <1>1, <1>4 DEF Phase, Committed
  <2>5. /\ PhaseBar[c] = "asked"
        /\ PhaseBar' = [PhaseBar EXCEPT ![c] = "answered"]
        /\ AnswerBar' = [AnswerBar EXCEPT ![c] = [result |-> FALSE, entries |-> NoBlocks]]
    BY <1>4, <2>2, <2>3, <2>4, CommitMaps DEF AddStore
  <2>6. req' = req
    BY DEF AddStore
  <2> QED
    BY <1>1, <2>1, <2>5, <2>6 DEF Contract!Serve, Contract!ServeAdd,
       Contract!Answers, Contract!Nothing, NoBlocks, PhaseBar, AnswerBar
<1> QED
  BY <1>2, <1>3, <1>4 DEF AddStore

\* Growing the recorded length and releasing the mutex concern no caller.
LEMMA AfterCommitMaps ==
  ASSUME IInv, NEW c \in Clients, ReadLargest(c) \/ RaiseLargest(c) \/ Unlock(c)
  PROVE  UNCHANGED CVars
<1> USE DEF IInv, TypeOK, Goto
<1>1. Phase(c)' = Phase(c) /\ Answer(c)' = Answer(c)
  BY DEF ReadLargest, RaiseLargest, Unlock, Phase, Answer, Committed, ValuesOf, ValueOf
<1> QED
  BY <1>1, HiddenStep DEF ReadLargest, RaiseLargest, Unlock, CVars

LEMMA MeasureMaps ==
  ASSUME IInv, NEW c \in Clients, Measure(c)
  PROVE  Contract!Serve(c) \/ UNCHANGED CVars
<1> USE DEF IInv, TypeOK, Goto
<1>1. CASE pc' = [pc EXCEPT ![c] = "retrieve"]
  BY <1>1, HiddenStep DEF Measure, CVars, Phase, Answer, Committed
<1>2. CASE "shm" \in Faults /\ pc' = [pc EXCEPT ![c] = "unlock"]
  BY <1>2, GiveUpMaps DEF Measure, OpInv, MayFail
<1> QED
  BY <1>1, <1>2 DEF Measure

\* If calls may not fail, an entry that is there is an entry that fits.
LEMMA EntryFits ==
  ASSUME IInv, Sound, NEW c \in Clients, pc[c] = "retrieve", ~MayFail,
         cache[req[c].key] # NULL
  PROVE  Fits(c)
<1> USE DEF IInv, TypeOK
<1>1. req[c].key \in Keys
  BY RequestFields DEF OpInv
<1>2. \A d \in Clients : pc[d] \notin {"grow", "raise"}
  BY DEF HolderInv, Critical
<1>3. CoverInv
  BY DEF MayFail, Sound
<1>4. cache[req[c].key].length <= largest
  BY <1>1, <1>2, <1>3 DEF CoverInv, Covered
<1>5. size[c] = largest
  BY <1>3 DEF CoverInv, Fresh
<1> QED
  BY <1>4, <1>5 DEF Fits

LEMMA RetrieveMaps ==
  ASSUME IInv, Sound, NEW c \in Clients, Retrieve(c)
  PROVE  Contract!Serve(c) \/ UNCHANGED CVars
<1> USE DEF IInv, TypeOK, Goto, Returns
<1> DEFINE k == req[c].key
<1>1. req[c].op \in {"get", "remove"} /\ k \in Keys /\ pc[c] = "retrieve"
  BY RequestFields DEF OpInv, Retrieve
<1>2. seen[c] = NoBlocks /\ req' = req /\ cache' = cache /\ seen' = seen
  BY <1>1 DEF Retrieve, SeenInv, Steps
<1>3. ValuesOf(seen'[c]) = NoBlocks /\ ValuesOf(cache)' = ValuesOf(cache)
  BY <1>2 DEF ValuesOf, ValueOf, NoBlocks
<1>4. Phase(c) = "asked"
  BY <1>1 DEF Phase, Committed
<1>5. CASE /\ Fits(c)
           /\ result' = [result EXCEPT ![c] = cache[k].value]
           /\ req[c].op = "remove" /\ pc' = [pc EXCEPT ![c] = "delete"]
  BY <1>2, <1>5, <1>1, HiddenStep DEF CVars, Phase, Answer, Committed
<1>6. CASE /\ Fits(c)
           /\ result' = [result EXCEPT ![c] = cache[k].value]
           /\ req[c].op = "get" /\ pc' = [pc EXCEPT ![c] = "unlock"]
  <2>1. result'[c] = ValuesOf(cache)[k]
    BY <1>1, <1>6 DEF ValuesOf, ValueOf, Fits
  <2>2. /\ PhaseBar[c] = "asked"
        /\ PhaseBar' = [PhaseBar EXCEPT ![c] = "answered"]
        /\ AnswerBar' = [AnswerBar EXCEPT ![c] =
                           [result |-> ValuesOf(cache)[k], entries |-> NoBlocks]]
    BY <1>2, <1>3, <1>4, <1>6, <2>1, CommitMaps DEF Committed
  <2> QED
    BY <1>2, <1>3, <1>6, <2>2 DEF Contract!Serve, Contract!ServeGet, Contract!Answers,
       Contract!Nothing, NoBlocks, PhaseBar, AnswerBar
<1>7. CASE /\ ~Fits(c) \/ "memory" \in Faults
           /\ result' = result
           /\ pc' = [pc EXCEPT ![c] = "unlock"]
  <2>1. CASE MayFail
    BY <1>1, <1>2, <1>7, <2>1, GiveUpMaps
  <2>2. CASE ~MayFail
    <3>1. cache[k] = NULL
      BY <1>1, <1>7, <2>2, EntryFits DEF MayFail
    <3>2. ValuesOf(cache)[k] = NULL /\ [ValuesOf(cache) EXCEPT ![k] = NULL] = ValuesOf(cache)
      BY <1>1, <3>1 DEF ValuesOf, ValueOf
    <3>3. result'[c] = NULL
      BY <1>1, <1>7 DEF ResultInv, InitialResult
    <3>4. /\ PhaseBar[c] = "asked"
          /\ PhaseBar' = [PhaseBar EXCEPT ![c] = "answered"]
          /\ AnswerBar' = [AnswerBar EXCEPT ![c] = [result |-> NULL, entries |-> NoBlocks]]
      BY <1>2, <1>3, <1>4, <1>7, <3>3, CommitMaps DEF Committed
    <3> QED
      BY <1>1, <1>2, <1>3, <3>2, <3>4 DEF Contract!Serve, Contract!ServeGet,
         Contract!ServeRemove, Contract!Answers, Contract!Nothing, NoBlocks,
         PhaseBar, AnswerBar
  <2> QED
    BY <2>1, <2>2
<1>8. Fits(c) => Decodings(cache[k]) = {cache[k].value}
  BY DEF Decodings, Sound
<1> QED
  BY <1>1, <1>5, <1>6, <1>7, <1>8 DEF Retrieve

LEMMA DeleteMaps ==
  ASSUME IInv, Sound, NEW c \in Clients, Delete(c)
  PROVE  Contract!Serve(c)
<1> USE DEF IInv, TypeOK, Goto
<1> DEFINE k == req[c].key
<1>1. req[c].op = "remove" /\ k \in Keys /\ pc[c] = "delete"
  BY RequestFields DEF OpInv, Delete
<1>2. /\ cache' = [cache EXCEPT ![k] = NULL] /\ req' = req
      /\ seen' = seen /\ result' = result /\ pc' = [pc EXCEPT ![c] = "unlock"]
  BY DEF Delete, Sound
<1>3. seen[c] = NoBlocks
  BY <1>1 DEF SeenInv, Steps
<1>4. ValuesOf(seen'[c]) = NoBlocks
  BY <1>2, <1>3 DEF ValuesOf, ValueOf, NoBlocks
<1>5. ValuesOf(cache)' = [ValuesOf(cache) EXCEPT ![k] = NULL]
  BY <1>1, <1>2 DEF ValuesOf, ValueOf
<1>6. result'[c] = ValuesOf(cache)[k]
  BY <1>1, <1>2 DEF DeleteInv, ValuesOf, ValueOf, Sound
<1>7. Phase(c) = "asked"
  BY <1>1 DEF Phase, Committed
<1>8. /\ PhaseBar[c] = "asked"
      /\ PhaseBar' = [PhaseBar EXCEPT ![c] = "answered"]
      /\ AnswerBar' = [AnswerBar EXCEPT ![c] =
                         [result |-> ValuesOf(cache)[k], entries |-> NoBlocks]]
  BY <1>2, <1>4, <1>6, <1>7, CommitMaps DEF Committed
<1> QED
  BY <1>1, <1>2, <1>5, <1>8 DEF Contract!Serve, Contract!ServeRemove,
     Contract!Answers, Contract!Nothing, NoBlocks, PhaseBar, AnswerBar

LEMMA VisitMaps ==
  ASSUME IInv, NEW c \in Clients, NEW k \in Keys, Visit(c, k)
  PROVE  Contract!Serve(c) \/ UNCHANGED CVars
<1> USE DEF IInv, TypeOK, Goto, Returns
<1>1. /\ req[c].op = "iterate" /\ pc[c] = "visit" /\ req' = req /\ cache' = cache
      /\ \A j \in Keys : seen[c][j] = IF j \in todo[c] THEN NULL ELSE cache[j]
  BY DEF OpInv, Visit, SeenInv
<1>2. CASE pc' = pc /\ result' = result /\ seen' = [seen EXCEPT ![c][k] = cache[k]]
  BY <1>1, <1>2, HiddenStep DEF CVars, Phase, Answer, Committed
<1>3. CASE /\ "memory" \in Faults /\ result' = [result EXCEPT ![c] = FALSE]
           /\ pc' = [pc EXCEPT ![c] = "unlock"] /\ seen' = seen
  <2> DEFINE shown == [j \in Keys |-> IF j \in Keys \ todo[c]
                                        THEN ValuesOf(cache)[j] ELSE NULL]
  <2>1. shown \in Contract!SubMaps(ValuesOf(cache))
    BY DEF Contract!SubMaps
  <2>2. ValuesOf(seen'[c]) = shown /\ ValuesOf(cache)' = ValuesOf(cache)
    BY <1>1, <1>3 DEF ValuesOf, ValueOf
  <2>3. Phase(c) = "asked" /\ Committed(c)' /\ pc'[c] # "idle"
    BY <1>1, <1>3 DEF Phase, Committed
  <2>4. \A d \in Clients \ {c} : /\ pc'[d] = pc[d]
                                 /\ result'[d] = result[d]
                                 /\ seen'[d] = seen[d]
    BY <1>3
  <2> HIDE DEF shown
  <2>5. /\ PhaseBar[c] = "asked"
        /\ PhaseBar' = [PhaseBar EXCEPT ![c] = "answered"]
        /\ AnswerBar' = [AnswerBar EXCEPT ![c] = [result |-> result'[c], entries |-> shown]]
    BY <1>1, <2>2, <2>3, <2>4, CommitMaps
  <2>6. result'[c] = FALSE
    BY <1>3
  <2> QED
    BY <1>1, <1>3, <2>1, <2>2, <2>5, <2>6 DEF Contract!Serve, Contract!ServeIterate,
       Contract!Answers, PhaseBar, AnswerBar
<1> QED
  BY <1>2, <1>3 DEF Visit

\* An Iterate takes effect when it has looked at the last entry: nobody else
\* has changed any entry since it looked at the first.
LEMMA EndVisitMaps ==
  ASSUME IInv, NEW c \in Clients, EndVisit(c)
  PROVE  Contract!Serve(c)
<1> USE DEF IInv, TypeOK, Goto
<1>1. /\ req[c].op = "iterate" /\ pc[c] = "visit" /\ req' = req /\ cache' = cache
      /\ seen' = seen /\ result' = result /\ pc' = [pc EXCEPT ![c] = "unlock"]
      /\ \A j \in Keys : seen[c][j] = cache[j]
  BY DEF OpInv, EndVisit, SeenInv
<1>2. ValuesOf(seen'[c]) = ValuesOf(cache) /\ ValuesOf(cache)' = ValuesOf(cache)
  BY <1>1 DEF ValuesOf, ValueOf
<1>3. result[c] = TRUE
  BY <1>1 DEF ResultInv, InitialResult
<1>4. Phase(c) = "asked" /\ Committed(c)' /\ pc'[c] # "idle"
  BY <1>1 DEF Phase, Committed
<1>5. /\ PhaseBar[c] = "asked"
      /\ PhaseBar' = [PhaseBar EXCEPT ![c] = "answered"]
      /\ AnswerBar' = [AnswerBar EXCEPT ![c] =
                         [result |-> result[c], entries |-> ValuesOf(cache)]]
  BY <1>1, <1>2, <1>4, CommitMaps
<1> QED
  BY <1>1, <1>2, <1>3, <1>5 DEF Contract!Serve, Contract!ServeIterate,
     Contract!Answers, PhaseBar, AnswerBar

LEMMA StepMaps == ASSUME Sound, IInv, [Next]_vars PROVE [Contract!Next]_CVars
<1>1. ASSUME NEW c \in Clients, NEW r \in Requests, Begin(c, r)
      PROVE  Contract!Next
  BY <1>1, BeginMaps DEF Contract!Next
<1>2. ASSUME NEW c \in Clients,
             \/ MakeKey(c) \/ Lock(c) \/ LockFails(c) \/ AddStore(c)
             \/ ReadLargest(c) \/ RaiseLargest(c) \/ Measure(c) \/ Retrieve(c)
             \/ Delete(c) \/ (\E k \in Keys : Visit(c, k)) \/ EndVisit(c) \/ Unlock(c)
      PROVE  Contract!Serve(c) \/ UNCHANGED CVars
  BY <1>2, MakeKeyMaps, LockMaps, LockFailsMaps, AddStoreMaps, AfterCommitMaps,
     MeasureMaps, RetrieveMaps, DeleteMaps, VisitMaps, EndVisitMaps
<1>3. ASSUME NEW c \in Clients, Return(c) PROVE Contract!Next
  BY <1>3, ReturnMaps DEF Contract!Next
<1>4. CASE UNCHANGED vars
  BY <1>4 DEF vars, CVars, ValuesOf, ValueOf, PhaseBar, AnswerBar, Phase, Answer, Committed
<1>5. \A c \in Clients : ~Crash(c)
  BY DEF Crash, Sound
<1> QED
  BY <1>1, <1>2, <1>3, <1>4, <1>5 DEF Next, Proceed, Contract!Next

\* Every behaviour of the storage is one of the map that apr_global_storage.h
\* describes: each call of Add, Get, Remove and Iterate takes effect at once.
THEOREM Implements == ASSUME Sound PROVE Spec => ContractSpec
<1>1. Init => IInv /\ Contract!Init
  BY InitMaps
<1>2. IInv /\ [Next]_vars => IInv'
  BY IInvStep DEF Sound
<1>3. IInv /\ [Next]_vars => [Contract!Next]_CVars
  BY StepMaps
<1>4. [Contract!Next]_CVars => [Contract!Next]_(Contract!vars)
  BY DEF CVars, Contract!vars, PhaseBar, AnswerBar
<1> QED
  BY <1>1, <1>2, <1>3, <1>4, PTL DEF Spec, ContractSpec, Contract!Spec

-----------------------------------------------------------------------------
\* What serves a call of the contract serves it here.
LEMMA ContractServes ==
  ASSUME NEW c \in Clients, Contract!Serve(c)
  PROVE  UnderFaults!Serve(c)
BY DEF Contract!Serve, Contract!ServeAdd, Contract!ServeGet, Contract!ServeRemove,
       Contract!ServeIterate, Contract!Answers, Contract!Nothing, Contract!SubMaps,
       UnderFaults!Serve, UnderFaults!ServeAdd, UnderFaults!ServeGet,
       UnderFaults!ServeRemove, UnderFaults!ServeIterate, UnderFaults!Answers,
       UnderFaults!Nothing, UnderFaults!SubMaps

Served(c) == UnderFaults!Serve(c) \/ UnderFaults!ServeFaulty(c)

\* An Iterate that cannot lock answers true and has shown nothing.
LEMMA LockFailsServes ==
  ASSUME IInv, "lock_find" \notin Faults, NEW c \in Clients, LockFails(c)
  PROVE  Served(c)
<1> USE DEF IInv, TypeOK, Goto
<1>1. req[c].op \in {"add", "iterate"} /\ pc[c] = "lock" /\ pc' = [pc EXCEPT ![c] = "done"]
  <2>1. pc[c] = "lock" /\ req[c].op \in {"add", "get", "remove", "iterate"}
    BY RequestFields DEF LockFails, OpInv
  <2>2. req[c].op \in {"add", "iterate"}
    BY <2>1 DEF LockFails, LockFault
  <2> QED
    BY <2>1, <2>2 DEF LockFails
<1>2. CASE req[c].op = "add"
  BY <1>1, <1>2, GiveUpMaps, ContractServes DEF LockFails, Served
<1>3. CASE req[c].op = "iterate"
  <2>1. /\ cache' = cache /\ req' = req /\ result' = result /\ seen' = seen
        /\ result[c] = TRUE /\ seen[c] = NoBlocks
    BY <1>1, <1>3 DEF LockFails, ResultInv, InitialResult, SeenInv, Steps
  <2>2. ValuesOf(seen'[c]) = NoBlocks /\ ValuesOf(cache)' = ValuesOf(cache)
    BY <2>1 DEF ValuesOf, ValueOf, NoBlocks
  <2>3. Phase(c) = "asked" /\ Committed(c)' /\ pc'[c] # "idle"
    BY <1>1 DEF Phase, Committed
  <2>4. /\ PhaseBar[c] = "asked"
        /\ PhaseBar' = [PhaseBar EXCEPT ![c] = "answered"]
        /\ AnswerBar' = [AnswerBar EXCEPT ![c] = [result |-> TRUE, entries |-> NoBlocks]]
    BY <1>1, <2>1, <2>2, <2>3, CommitMaps
  <2> QED
    BY <1>3, <2>1, <2>2, <2>4 DEF Served, UnderFaults!ServeFaulty,
       UnderFaults!ServeIterateFaulty, UnderFaults!Answers, UnderFaults!Nothing,
       NoBlocks, PhaseBar, AnswerBar
<1> QED
  BY <1>1, <1>2, <1>3

\* A Get that does not find or cannot decompress answers NULL.
LEMMA RetrieveServes ==
  ASSUME IInv, NEW c \in Clients, Retrieve(c)
  PROVE  Served(c) \/ UNCHANGED CVars
<1> USE DEF IInv, TypeOK, Goto, Returns
<1> DEFINE k == req[c].key
<1>1. req[c].op \in {"get", "remove"} /\ k \in Keys /\ pc[c] = "retrieve"
  BY RequestFields DEF OpInv, Retrieve
<1>2. seen[c] = NoBlocks /\ req' = req /\ cache' = cache /\ seen' = seen
  BY <1>1 DEF Retrieve, SeenInv, Steps
<1>3. ValuesOf(seen'[c]) = NoBlocks /\ ValuesOf(cache)' = ValuesOf(cache)
  BY <1>2 DEF ValuesOf, ValueOf, NoBlocks
<1>4. CASE pc' = [pc EXCEPT ![c] = "delete"]
  <2>1. \A d \in Clients \ {c} : pc'[d] = pc[d] /\ result'[d] = result[d] /\ seen'[d] = seen[d]
    BY <1>2, <1>4 DEF Retrieve
  <2>2. Phase(c)' = Phase(c) /\ Answer(c)' = Answer(c)
    BY <1>1, <1>4 DEF Phase, Answer, Committed
  <2> QED
    BY <1>2, <2>1, <2>2, HiddenStep DEF CVars
<1>5. CASE pc' = [pc EXCEPT ![c] = "unlock"] /\ result'[c] \in {NULL, ValuesOf(cache)[k]}
           /\ (req[c].op = "remove" => result'[c] = NULL)
           /\ \A d \in Clients \ {c} : result'[d] = result[d]
  <2>1. Phase(c) = "asked" /\ Committed(c)' /\ pc'[c] # "idle"
    BY <1>1, <1>5 DEF Phase, Committed
  <2>2. /\ PhaseBar[c] = "asked"
        /\ PhaseBar' = [PhaseBar EXCEPT ![c] = "answered"]
        /\ AnswerBar' = [AnswerBar EXCEPT ![c] = [result |-> result'[c], entries |-> NoBlocks]]
    BY <1>2, <1>3, <1>5, <2>1, CommitMaps
  <2> QED
    BY <1>1, <1>2, <1>3, <1>5, <2>2 DEF Served, UnderFaults!Serve, UnderFaults!ServeGet,
       UnderFaults!ServeRemove, UnderFaults!Answers, UnderFaults!Nothing, NoBlocks,
       PhaseBar, AnswerBar
<1>6. Fits(c) => \A v \in Decodings(cache[k]) : v \in {NULL, ValuesOf(cache)[k]}
  BY <1>1 DEF Fits, Decodings, UncompressFromBZ2, ValuesOf, ValueOf
<1>7. result[c] = NULL
  BY <1>1 DEF ResultInv, InitialResult
<1> QED
  BY <1>1, <1>4, <1>5, <1>6, <1>7 DEF Retrieve

\* A Remove answers the value or NULL, and has removed it or not.
LEMMA DeleteServes ==
  ASSUME IInv, NEW c \in Clients, Delete(c)
  PROVE  Served(c)
<1> USE DEF IInv, TypeOK, Goto
<1> DEFINE k == req[c].key
<1>1. req[c].op = "remove" /\ k \in Keys /\ pc[c] = "delete"
  BY RequestFields DEF OpInv, Delete
<1>2. /\ cache' \in {cache, [cache EXCEPT ![k] = NULL]} /\ req' = req
      /\ seen' = seen /\ result' = result /\ pc' = [pc EXCEPT ![c] = "unlock"]
  BY DEF Delete
<1>3. seen[c] = NoBlocks
  BY <1>1 DEF SeenInv, Steps
<1>4. ValuesOf(seen'[c]) = NoBlocks
  BY <1>2, <1>3 DEF ValuesOf, ValueOf, NoBlocks
<1>5. ValuesOf(cache)' \in {ValuesOf(cache), [ValuesOf(cache) EXCEPT ![k] = NULL]}
  BY <1>1, <1>2 DEF ValuesOf, ValueOf
<1>6. result'[c] \in {ValuesOf(cache)[k], NULL}
  BY <1>1, <1>2 DEF DeleteInv, ValuesOf, ValueOf
<1>7. Phase(c) = "asked" /\ Committed(c)' /\ pc'[c] # "idle"
  BY <1>1, <1>2 DEF Phase, Committed
<1>8. /\ PhaseBar[c] = "asked"
      /\ PhaseBar' = [PhaseBar EXCEPT ![c] = "answered"]
      /\ AnswerBar' = [AnswerBar EXCEPT ![c] = [result |-> result'[c], entries |-> NoBlocks]]
  BY <1>2, <1>4, <1>7, CommitMaps
<1> QED
  BY <1>1, <1>2, <1>5, <1>6, <1>8 DEF Served, UnderFaults!ServeFaulty,
     UnderFaults!ServeRemoveFaulty, UnderFaults!Answers, UnderFaults!Nothing, NoBlocks,
     PhaseBar, AnswerBar

LEMMA CrashMaps ==
  ASSUME IInv, NEW c \in Clients, Crash(c), pc[c] # "idle"
  PROVE  UnderFaults!Abandon(c)
<1> USE DEF IInv, TypeOK, Goto, Forget
<1>1. /\ PhaseBar[c] # "idle" /\ Phase(c)' = "idle"
      /\ Answer(c)' = [result |-> NULL, entries |-> NoBlocks]
  BY DEF Crash, PhaseBar, Phase, Answer, Committed
<1>2. /\ PhaseBar' = [PhaseBar EXCEPT ![c] = "idle"]
      /\ AnswerBar' = [AnswerBar EXCEPT ![c] = [result |-> NULL, entries |-> NoBlocks]]
  BY <1>1, StepOfOne DEF Crash
<1>3. ValuesOf(cache)' = ValuesOf(cache)
  BY DEF Crash, ValuesOf, ValueOf
<1> QED
  BY <1>1, <1>2, <1>3 DEF Crash, UnderFaults!Abandon, UnderFaults!NoAnswer,
     UnderFaults!Nothing, PhaseBar, AnswerBar, NoBlocks

\* The death of a thread that is not in a call, but has the mutex, shows nothing.
LEMMA IdleCrashMaps ==
  ASSUME IInv, NEW c \in Clients, Crash(c), pc[c] = "idle"
  PROVE  UNCHANGED CVars
<1> USE DEF IInv, TypeOK, Goto, Forget
<1>1. req[c] = NoRequest
  BY DEF OpInv
<1>2. cache' = cache /\ req' = req
  BY <1>1 DEF Crash
<1>3. Phase(c)' = Phase(c) /\ Answer(c)' = Answer(c)
  BY DEF Crash, Phase, Answer, Committed
<1>4. \A d \in Clients \ {c} : pc'[d] = pc[d] /\ result'[d] = result[d] /\ seen'[d] = seen[d]
  BY DEF Crash
<1> QED
  BY <1>2, <1>3, <1>4, HiddenStep DEF CVars

LEMMA FaultyStepMaps ==
  ASSUME "lock_find" \notin Faults, IInv, [Next]_vars
  PROVE  [UnderFaults!FaultyNext]_CVars
<1>1. ASSUME NEW c \in Clients, NEW r \in Requests, Begin(c, r)
      PROVE  UnderFaults!FaultyNext
  <2>1. UnderFaults!Ask(c, r)
    BY <1>1, BeginMaps DEF Contract!Ask, UnderFaults!Ask
  <2> QED
    BY <2>1 DEF UnderFaults!FaultyNext, UnderFaults!Next
<1>2. ASSUME NEW c \in Clients,
             \/ MakeKey(c) \/ Lock(c) \/ LockFails(c) \/ AddStore(c)
             \/ ReadLargest(c) \/ RaiseLargest(c) \/ Measure(c) \/ Retrieve(c)
             \/ Delete(c) \/ (\E k \in Keys : Visit(c, k)) \/ EndVisit(c) \/ Unlock(c)
      PROVE  Served(c) \/ UNCHANGED CVars
  <2>1. Contract!Serve(c) => Served(c)
    BY ContractServes DEF Served
  <2> QED
    BY <1>2, <2>1, MakeKeyMaps, LockMaps, LockFailsServes, AddStoreMaps, AfterCommitMaps,
       MeasureMaps, RetrieveServes, DeleteServes, VisitMaps, EndVisitMaps
<1>3. ASSUME NEW c \in Clients, Return(c) PROVE UnderFaults!FaultyNext
  <2>1. UnderFaults!Reply(c)
    BY <1>3, ReturnMaps DEF Contract!Reply, Contract!NoAnswer, Contract!Nothing,
       UnderFaults!Reply, UnderFaults!NoAnswer, UnderFaults!Nothing
  <2> QED
    BY <2>1 DEF UnderFaults!FaultyNext, UnderFaults!Next
<1>4. ASSUME NEW c \in Clients, Crash(c) PROVE [UnderFaults!FaultyNext]_CVars
  BY <1>4, CrashMaps, IdleCrashMaps DEF UnderFaults!FaultyNext
<1>5. CASE UNCHANGED vars
  BY <1>5 DEF vars, CVars, ValuesOf, ValueOf, PhaseBar, AnswerBar, Phase, Answer, Committed
<1>6. ASSUME NEW c \in Clients, Served(c) PROVE UnderFaults!FaultyNext
  BY <1>6 DEF Served, UnderFaults!FaultyNext, UnderFaults!Next
<1> QED
  BY <1>1, <1>2, <1>3, <1>4, <1>5, <1>6 DEF Next, Proceed

\* Whatever fails but the locking in Find, compressed or not, and whoever is killed,
\* a call of Add, Get, Remove or Iterate does what StorageUnderFaults has it do.
THEOREM ImplementsUnderFaults ==
  ASSUME "lock_find" \notin Faults
  PROVE  Spec => UnderFaultsSpec
<1>1. Init => IInv /\ UnderFaults!Init
  BY InitMaps DEF Contract!Init, Contract!Nothing, Contract!NoAnswer, UnderFaults!Init,
     UnderFaults!Nothing, UnderFaults!NoAnswer
<1>2. IInv /\ [Next]_vars => IInv'
  BY IInvStep
<1>3. IInv /\ [Next]_vars => [UnderFaults!FaultyNext]_CVars
  BY FaultyStepMaps
<1>4. [UnderFaults!FaultyNext]_CVars => [UnderFaults!FaultyNext]_(UnderFaults!vars)
  BY DEF CVars, UnderFaults!vars, PhaseBar, AnswerBar
<1> QED
  BY <1>1, <1>2, <1>3, <1>4, PTL DEF Spec, UnderFaultsSpec, UnderFaults!FaultySpec
=============================================================================
