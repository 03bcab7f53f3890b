-------------------------- MODULE GlobalStorageProofs --------------------------
(***************************************************************************)
(* Theorems about GlobalStorage for any number of threads, keys, values    *)
(* and lengths.                                                            *)
(***************************************************************************)
EXTENDS GlobalStorage, TLAPS

LEMMA PlainIsBlock ==
  ASSUME NEW v \in Values
  PROVE  Plain(v) \in Blocks /\ Plain(v) # NULL
<1>1. Plain(v) \in Blocks
  BY LengthsAssumption DEF Plain, Blocks
<1>2. NULL \notin Blocks
  BY NullAssumption
<1> QED
  BY <1>1, <1>2

LEMMA CompressedIsBlock ==
  ASSUME NEW v \in Values
  PROVE  CompressToBZ2(v) \in Blocks \cup {NULL}
BY LengthsAssumption DEF CompressToBZ2, Blocks, LengthHeader

LEMMA EncodingsAreBlocks ==
  ASSUME NEW v \in Values
  PROVE  Encodings(v) \subseteq Blocks \cup {NULL}
BY PlainIsBlock, CompressedIsBlock DEF Encodings

LEMMA DecodingsAreValues ==
  ASSUME NEW b \in Blocks
  PROVE  Decodings(b) \subseteq Values \cup {NULL}
BY DEF Decodings, UncompressFromBZ2, Blocks

LEMMA StoredIsCache ==
  ASSUME TypeOK, NEW k \in Keys, NEW b \in Blocks, NEW m \in Stored(k, b)
  PROVE  /\ m \in [Keys -> Blocks \cup {NULL}]
         /\ m[k] = b
         /\ \A j \in Keys \ {k} : m[j] = cache[j] \/ m[j] = NULL
BY DEF Stored, TypeOK

LEMMA InitTypeOK == Init => TypeOK
BY DEF Init, TypeOK, NoBlocks, Steps

LEMMA RequestFields ==
  ASSUME NEW r \in Requests
  PROVE  /\ r.op \in {"add", "get", "remove", "iterate"}
         /\ r.op # "iterate" => r.key \in Keys
         /\ r.op = "add" => r.value \in Values
BY DEF Requests

\* An operation under way has a request, and its step is a step of that
\* operation.
OpInv ==
  \A c \in Clients :
    /\ IF pc[c] = "idle" THEN req[c] = NoRequest ELSE req[c] \in Requests
    /\ pc[c] = "key" => req[c].op # "iterate"
    /\ pc[c] \in {"store", "grow", "raise"} => req[c].op = "add"
    /\ pc[c] \in {"measure", "retrieve"} => req[c].op \in {"get", "remove"}
    /\ pc[c] = "delete" => req[c].op = "remove"
    /\ pc[c] = "visit" => req[c].op = "iterate"

LEMMA OpInvStep == TypeOK /\ OpInv /\ [Next]_vars => OpInv'
<1> SUFFICES ASSUME TypeOK, OpInv, [Next]_vars PROVE OpInv'
  OBVIOUS
<1> USE DEF TypeOK, OpInv, Goto
<1>1. ASSUME NEW c \in Clients, NEW r \in Requests, Begin(c, r) PROVE OpInv'
  BY <1>1, RequestFields DEF Begin
<1>2. ASSUME NEW c \in Clients, MakeKey(c) PROVE OpInv'
  BY <1>2 DEF MakeKey
<1>3. ASSUME NEW c \in Clients, Lock(c) PROVE OpInv'
  <2>1. req[c] \in Requests
    BY <1>3 DEF Lock
  <2>2. req[c].op \in {"add", "get", "remove", "iterate"}
    BY <2>1, RequestFields
  <2> QED
    BY <1>3, <2>1, <2>2 DEF Lock, FirstStep
<1>4. ASSUME NEW c \in Clients, LockFails(c) PROVE OpInv'
  BY <1>4 DEF LockFails
<1>5. ASSUME NEW c \in Clients, AddStore(c) PROVE OpInv'
  BY <1>5 DEF AddStore
<1>6. ASSUME NEW c \in Clients, ReadLargest(c) PROVE OpInv'
  BY <1>6 DEF ReadLargest
<1>7. ASSUME NEW c \in Clients, RaiseLargest(c) PROVE OpInv'
  BY <1>7 DEF RaiseLargest
<1>8. ASSUME NEW c \in Clients, Measure(c) PROVE OpInv'
  BY <1>8 DEF Measure
<1>9. ASSUME NEW c \in Clients, Retrieve(c) PROVE OpInv'
  BY <1>9 DEF Retrieve
<1>10. ASSUME NEW c \in Clients, Delete(c) PROVE OpInv'
  BY <1>10 DEF Delete
<1>11. ASSUME NEW c \in Clients, NEW k \in Keys, Visit(c, k) PROVE OpInv'
  BY <1>11 DEF Visit
<1>12. ASSUME NEW c \in Clients, EndVisit(c) PROVE OpInv'
  BY <1>12 DEF EndVisit
<1>13. ASSUME NEW c \in Clients, Unlock(c) PROVE OpInv'
  BY <1>13 DEF Unlock
<1>14. ASSUME NEW c \in Clients, Return(c) PROVE OpInv'
  BY <1>14 DEF Return, Forget
<1>15. ASSUME NEW c \in Clients, Crash(c) PROVE OpInv'
  BY <1>15 DEF Crash, Forget
<1>16. CASE UNCHANGED vars
  BY <1>16 DEF vars
<1> QED
  BY <1>1, <1>2, <1>3, <1>4, <1>5, <1>6, <1>7, <1>8, <1>9, <1>10, <1>11,
     <1>12, <1>13, <1>14, <1>15, <1>16 DEF Next, Proceed

LEMMA TypeOKStep == TypeOK /\ OpInv /\ [Next]_vars => TypeOK'
<1> SUFFICES ASSUME TypeOK, OpInv, [Next]_vars PROVE TypeOK'
  OBVIOUS
<1> USE DEF TypeOK, Goto, Returns, Steps
<1>1. ASSUME NEW c \in Clients, NEW r \in Requests, Begin(c, r) PROVE TypeOK'
  <2>1. InitialResult(r.op) \in {FALSE, NULL, TRUE}
    <3>1. CASE r.op = "add"
      BY <3>1 DEF InitialResult
    <3>2. CASE r.op \in {"get", "remove"}
      BY <3>2 DEF InitialResult
    <3>3. CASE r.op = "iterate"
      BY <3>3 DEF InitialResult
    <3> QED
      BY <3>1, <3>2, <3>3, RequestFields
  <2> QED
    BY <1>1, <2>1 DEF Begin
<1>2. ASSUME NEW c \in Clients, MakeKey(c) PROVE TypeOK'
  BY <1>2 DEF MakeKey
<1>3. ASSUME NEW c \in Clients, Lock(c) PROVE TypeOK'
  <2>1. FirstStep[req[c].op] \in Steps
    BY <1>3, RequestFields DEF FirstStep, OpInv, Lock
  <2> QED
    BY <1>3, <2>1 DEF Lock
<1>4. ASSUME NEW c \in Clients, LockFails(c) PROVE TypeOK'
  BY <1>4 DEF LockFails
<1>5. ASSUME NEW c \in Clients, AddStore(c) PROVE TypeOK'
  <2>1. req[c].key \in Keys /\ req[c].value \in Values
    BY <1>5, RequestFields DEF OpInv, AddStore
  <2>2. Encodings(req[c].value) \subseteq Blocks \cup {NULL}
    BY <2>1, EncodingsAreBlocks
  <2>3. cache' \in [Keys -> Blocks \cup {NULL}]
    <3>1. PICK b \in Encodings(req[c].value) :
             \/ b # NULL /\ cache' \in Stored(req[c].key, b)
             \/ cache' = cache
             \/ cache' \in {cache, [cache EXCEPT ![req[c].key] = NULL]}
      BY <1>5 DEF AddStore
    <3> QED
      BY <2>1, <2>2, <3>1, StoredIsCache
  <2> QED
    BY <1>5, <2>3 DEF AddStore
<1>6. ASSUME NEW c \in Clients, ReadLargest(c) PROVE TypeOK'
  BY <1>6 DEF ReadLargest
<1>7. ASSUME NEW c \in Clients, RaiseLargest(c) PROVE TypeOK'
  <2>1. ValueLength[req[c].value] \in Nat
    BY <1>7, RequestFields, LengthsAssumption DEF OpInv, RaiseLargest
  <2> QED
    BY <1>7, <2>1 DEF RaiseLargest
<1>8. ASSUME NEW c \in Clients, Measure(c) PROVE TypeOK'
  BY <1>8 DEF Measure
<1>9. ASSUME NEW c \in Clients, Retrieve(c) PROVE TypeOK'
  <2>1. req[c].key \in Keys
    BY <1>9, RequestFields DEF OpInv, Retrieve
  <2>2. ASSUME NEW v \in Decodings(cache[req[c].key]), Fits(c)
        PROVE  v \in Values \cup {NULL}
    BY <2>1, <2>2, DecodingsAreValues DEF Fits
  <2>3. CASE result' = result
    BY <1>9, <2>3 DEF Retrieve
  <2>4. ASSUME NEW v \in Values \cup {NULL}, result' = [result EXCEPT ![c] = v]
        PROVE  TypeOK'
    BY <1>9, <2>4 DEF Retrieve
  <2> QED
    BY <1>9, <2>2, <2>3, <2>4 DEF Retrieve
<1>10. ASSUME NEW c \in Clients, Delete(c) PROVE TypeOK'
  BY <1>10 DEF Delete
<1>11. ASSUME NEW c \in Clients, NEW k \in Keys, Visit(c, k) PROVE TypeOK'
  <2>1. [seen[c] EXCEPT ![k] = cache[k]] \in [Keys -> Blocks \cup {NULL}]
    OBVIOUS
  <2>2. [seen EXCEPT ![c][k] = cache[k]] = [seen EXCEPT ![c] = [seen[c] EXCEPT ![k] = cache[k]]]
    OBVIOUS
  <2>3. seen' \in [Clients -> [Keys -> Blocks \cup {NULL}]]
    BY <1>11, <2>1, <2>2 DEF Visit
  <2>4. pc' \in [Clients -> Steps] /\ result' \in [Clients -> Values \cup {NULL} \cup BOOLEAN]
    BY <1>11 DEF Visit
  <2>5. todo' \in [Clients -> SUBSET Keys]
    BY <1>11 DEF Visit
  <2> QED
    BY <1>11, <2>3, <2>4, <2>5 DEF Visit
<1>12. ASSUME NEW c \in Clients, EndVisit(c) PROVE TypeOK'
  BY <1>12 DEF EndVisit
<1>13. ASSUME NEW c \in Clients, Unlock(c) PROVE TypeOK'
  BY <1>13 DEF Unlock
<1>14. ASSUME NEW c \in Clients, Return(c) PROVE TypeOK'
  BY <1>14 DEF Return, Forget, NoBlocks
<1>15. ASSUME NEW c \in Clients, Crash(c) PROVE TypeOK'
  BY <1>15 DEF Crash, Forget, NoBlocks
<1>16. CASE UNCHANGED vars
  BY <1>16 DEF vars
<1> QED
  BY <1>1, <1>2, <1>3, <1>4, <1>5, <1>6, <1>7, <1>8, <1>9, <1>10, <1>11,
     <1>12, <1>13, <1>14, <1>15, <1>16 DEF Next, Proceed

\* Every variable keeps its type: in particular a call never returns anything
\* but a value, NULL or a flag.
THEOREM TypeCorrect == Spec => [](TypeOK /\ OpInv)
<1>1. Init => TypeOK /\ OpInv
  BY InitTypeOK DEF Init, OpInv
<1>2. TypeOK /\ OpInv /\ [Next]_vars => (TypeOK /\ OpInv)'
  BY TypeOKStep, OpInvStep
<1> QED
  BY <1>1, <1>2, PTL DEF Spec

-----------------------------------------------------------------------------
\* Whoever is past the lock has the mutex.  It needs that a failed lock in Find
\* does not happen: its caller would be at the unlock without the mutex.
HolderInv ==
  \A c \in Clients : pc[c] \in Critical \cup {"unlock"} => holder = c

LEMMA HolderInvStep ==
  ASSUME "lock_find" \notin Faults
  PROVE  TypeOK /\ OpInv /\ HolderInv /\ [Next]_vars => HolderInv'
<1> SUFFICES ASSUME TypeOK, OpInv, HolderInv, [Next]_vars PROVE HolderInv'
  OBVIOUS
<1> USE StorageAssumption DEF TypeOK, HolderInv, Goto, Critical
<1>1. ASSUME NEW c \in Clients, NEW r \in Requests, Begin(c, r) PROVE HolderInv'
  BY <1>1 DEF Begin
<1>2. ASSUME NEW c \in Clients, MakeKey(c) PROVE HolderInv'
  BY <1>2 DEF MakeKey
<1>3. ASSUME NEW c \in Clients, Lock(c) PROVE HolderInv'
  BY <1>3 DEF Lock
<1>4. ASSUME NEW c \in Clients, LockFails(c) PROVE HolderInv'
  <2>1. req[c].op \notin {"get", "remove"}
    BY <1>4, RequestFields DEF LockFails, LockFault, OpInv
  <2> QED
    BY <1>4, <2>1 DEF LockFails
<1>5. ASSUME NEW c \in Clients, AddStore(c) PROVE HolderInv'
  BY <1>5 DEF AddStore
<1>6. ASSUME NEW c \in Clients, ReadLargest(c) PROVE HolderInv'
  BY <1>6 DEF ReadLargest
<1>7. ASSUME NEW c \in Clients, RaiseLargest(c) PROVE HolderInv'
  BY <1>7 DEF RaiseLargest
<1>8. ASSUME NEW c \in Clients, Measure(c) PROVE HolderInv'
  BY <1>8 DEF Measure
<1>9. ASSUME NEW c \in Clients, Retrieve(c) PROVE HolderInv'
  BY <1>9 DEF Retrieve
<1>10. ASSUME NEW c \in Clients, Delete(c) PROVE HolderInv'
  BY <1>10 DEF Delete
<1>11. ASSUME NEW c \in Clients, NEW k \in Keys, Visit(c, k) PROVE HolderInv'
  BY <1>11 DEF Visit
<1>12. ASSUME NEW c \in Clients, EndVisit(c) PROVE HolderInv'
  BY <1>12 DEF EndVisit
<1>13. ASSUME NEW c \in Clients, Unlock(c) PROVE HolderInv'
  BY <1>13 DEF Unlock
<1>14. ASSUME NEW c \in Clients, Return(c) PROVE HolderInv'
  BY <1>14 DEF Return, Forget
<1>15. ASSUME NEW c \in Clients, Crash(c) PROVE HolderInv'
  BY <1>15 DEF Crash, Forget
<1>16. CASE UNCHANGED vars
  BY <1>16 DEF vars
<1> QED
  BY <1>1, <1>2, <1>3, <1>4, <1>5, <1>6, <1>7, <1>8, <1>9, <1>10, <1>11,
     <1>12, <1>13, <1>14, <1>15, <1>16 DEF Next, Proceed

\* No two threads use the provider or the segment at once, as long as taking
\* the mutex does not fail in FindObjectFromAPRGlobalStorage.
THEOREM MutualExclusionHolds ==
  ASSUME "lock_find" \notin Faults
  PROVE  Spec => []MutualExclusion
<1>1. Init => HolderInv
  BY DEF Init, HolderInv, Critical
<1>2. TypeOK /\ OpInv /\ HolderInv /\ [Next]_vars => HolderInv'
  BY HolderInvStep
<1>3. HolderInv => MutualExclusion
  BY DEF HolderInv, MutualExclusion
<1> QED
  BY <1>1, <1>2, <1>3, TypeCorrect, PTL DEF Spec

-----------------------------------------------------------------------------
\* An entry longer than the recorded largest length is one whose Add is still
\* under way; and whoever has read that length to act on it has read the truth.
Covered ==
  \A k \in Keys : cache[k] # NULL =>
    \/ cache[k].length <= largest
    \/ \E c \in Clients : /\ pc[c] \in {"grow", "raise"}
                          /\ req[c].key = k
                          /\ cache[k].length <= ValueLength[req[c].value]

Fresh == \A c \in Clients : pc[c] \in {"raise", "retrieve"} => size[c] = largest

CoverInv == Covered /\ Fresh

\* What a holder has read of the segment stays its present value.
LEMMA FreshStep == TypeOK /\ OpInv /\ HolderInv /\ Fresh /\ [Next]_vars => Fresh'
<1> SUFFICES ASSUME TypeOK, OpInv, HolderInv, Fresh, [Next]_vars PROVE Fresh'
  OBVIOUS
<1> USE DEF TypeOK, Fresh, Goto
<1>1. ASSUME NEW c \in Clients,
             \/ (\E r \in Requests : Begin(c, r)) \/ MakeKey(c) \/ LockFails(c)
             \/ AddStore(c)
      PROVE  Fresh'
  BY <1>1 DEF Begin, MakeKey, LockFails, AddStore, Returns
<1>7. ASSUME NEW c \in Clients, Lock(c) PROVE Fresh'
  <2>1. FirstStep[req[c].op] \in {"store", "measure", "visit"}
    BY <1>7, RequestFields DEF FirstStep, OpInv, Lock
  <2> QED
    BY <1>7, <2>1 DEF Lock
<1>2. ASSUME NEW c \in Clients, ReadLargest(c) \/ Measure(c) PROVE Fresh'
  BY <1>2 DEF ReadLargest, Measure
<1>3. ASSUME NEW c \in Clients, RaiseLargest(c) PROVE Fresh'
  <2>1. \A d \in Clients \ {c} : pc[d] \notin Critical
    BY <1>3 DEF HolderInv, RaiseLargest, Critical
  <2> QED
    BY <1>3, <2>1 DEF RaiseLargest, Critical
<1>4. ASSUME NEW c \in Clients,
             \/ Retrieve(c) \/ Delete(c) \/ (\E k \in Keys : Visit(c, k)) \/ EndVisit(c)
      PROVE  Fresh'
  BY <1>4 DEF Retrieve, Delete, Visit, EndVisit, Returns
<1>5. ASSUME NEW c \in Clients, Unlock(c) \/ Return(c) \/ Crash(c) PROVE Fresh'
  BY <1>5 DEF Unlock, Return, Crash, Forget
<1>6. CASE UNCHANGED vars
  BY <1>6 DEF vars
<1> QED
  BY <1>1, <1>7, <1>2, <1>3, <1>4, <1>5, <1>6 DEF Next, Proceed

\* A step that stores nothing and ends no Add leaves every entry covered.
LEMMA CoveredKept ==
  ASSUME Covered, largest' = largest,
         \A k \in Keys : cache'[k] \in {cache[k], NULL},
         \A d \in Clients : pc[d] \in {"grow", "raise"} =>
                              pc'[d] \in {"grow", "raise"} /\ req'[d] = req[d]
  PROVE  Covered'
<1> SUFFICES ASSUME NEW k \in Keys, cache'[k] # NULL, ~(cache'[k].length <= largest')
             PROVE  \E c \in Clients : /\ pc'[c] \in {"grow", "raise"}
                                       /\ req'[c].key = k
                                       /\ cache'[k].length <= ValueLength[req'[c].value]
  BY DEF Covered
<1>1. cache'[k] = cache[k]
  OBVIOUS
<1>2. PICK c \in Clients : /\ pc[c] \in {"grow", "raise"}
                           /\ req[c].key = k
                           /\ cache[k].length <= ValueLength[req[c].value]
  BY <1>1 DEF Covered
<1> QED
  BY <1>1, <1>2

LEMMA CoverInvStep ==
  ASSUME ~Compressing, Faults \cap {"lock_find", "shm", "crash"} = {}
  PROVE  TypeOK /\ OpInv /\ HolderInv /\ CoverInv /\ [Next]_vars => CoverInv'
<1> SUFFICES ASSUME TypeOK, OpInv, HolderInv, CoverInv, [Next]_vars
             PROVE  Covered'
  BY FreshStep DEF CoverInv
<1> USE DEF TypeOK, CoverInv, Goto
<1>1. ASSUME NEW c \in Clients, NEW r \in Requests, Begin(c, r) PROVE Covered'
  BY <1>1, CoveredKept DEF Begin
<1>2. ASSUME NEW c \in Clients, MakeKey(c) PROVE Covered'
  BY <1>2, CoveredKept DEF MakeKey
<1>3. ASSUME NEW c \in Clients, Lock(c) PROVE Covered'
  <2>1. FirstStep[req[c].op] \in {"store", "measure", "visit"}
    BY <1>3, RequestFields DEF FirstStep, OpInv, Lock
  <2> QED
    BY <1>3, <2>1, CoveredKept DEF Lock
<1>4. ASSUME NEW c \in Clients, LockFails(c) PROVE Covered'
  BY <1>4, CoveredKept DEF LockFails
<1>5. ASSUME NEW c \in Clients, AddStore(c) PROVE Covered'
  <2> DEFINE k == req[c].key
             v == req[c].value
  <2>1. k \in Keys /\ v \in Values
    BY <1>5, RequestFields DEF OpInv, AddStore
  <2>2. \A d \in Clients \ {c} : pc[d] \notin Critical
    BY <1>5 DEF HolderInv, AddStore, Critical
  <2>3. Encodings(v) = {Plain(v)} /\ Plain(v) \in Blocks /\ Plain(v) # NULL
    BY <2>1, PlainIsBlock DEF Encodings
  <2>4. Plain(v).length = ValueLength[v]
    BY DEF Plain
  <2>5. CASE cache' \in Stored(k, Plain(v)) /\ pc' = [pc EXCEPT ![c] = "grow"]
    <3>1. cache'[k] = Plain(v) /\ \A j \in Keys \ {k} : cache'[j] \in {cache[j], NULL}
      BY <2>1, <2>3, <2>5, StoredIsCache
    <3>2. ValueLength[v] \in Nat
      BY <2>1, LengthsAssumption
    <3>3. cache'[k].length <= ValueLength[v]
      BY <2>1, <2>4, <3>1, <3>2
    <3>4. pc'[c] = "grow" /\ req' = req /\ largest' = largest
      BY <1>5, <2>5 DEF AddStore
    <3>5. \A j \in Keys \ {k} : cache[j] # NULL => cache[j].length <= largest
      BY <1>5, <2>2 DEF AddStore, Covered, Critical
    <3> QED
      BY <2>1, <3>1, <3>3, <3>4, <3>5 DEF Covered
  <2>6. CASE /\ cache' \in {cache, [cache EXCEPT ![k] = NULL]}
             /\ pc' = [pc EXCEPT ![c] = "unlock"]
    BY <1>5, <2>1, <2>6, CoveredKept DEF AddStore
  <2> QED
    BY <1>5, <2>3, <2>5, <2>6 DEF AddStore
<1>6. ASSUME NEW c \in Clients, ReadLargest(c) PROVE Covered'
  BY <1>6, CoveredKept DEF ReadLargest
<1>7. ASSUME NEW c \in Clients, RaiseLargest(c) PROVE Covered'
  <2>1. req[c].key \in Keys /\ ValueLength[req[c].value] \in Nat
    BY <1>7, RequestFields, LengthsAssumption DEF OpInv, RaiseLargest
  <2>2. \A d \in Clients \ {c} : pc[d] \notin Critical
    BY <1>7 DEF HolderInv, RaiseLargest, Critical
  <2>3. largest' \in Nat /\ largest <= largest' /\ ValueLength[req[c].value] <= largest'
    BY <1>7, <2>1 DEF RaiseLargest, Fresh
  <2>4. \A k \in Keys : cache[k] # NULL => cache[k].length \in Nat
    BY DEF Blocks
  <2>5. \A k \in Keys : cache[k] # NULL => cache[k].length <= largest'
    <3> SUFFICES ASSUME NEW k \in Keys, cache[k] # NULL
                 PROVE  cache[k].length <= largest'
      OBVIOUS
    <3>1. CASE cache[k].length <= largest
      BY <2>3, <2>4, <3>1
    <3>2. CASE \E d \in Clients : /\ pc[d] \in {"grow", "raise"}
                                  /\ cache[k].length <= ValueLength[req[d].value]
      <4>1. cache[k].length <= ValueLength[req[c].value]
        BY <2>2, <3>2 DEF Critical
      <4> QED
        BY <2>1, <2>3, <2>4, <4>1
    <3> QED
      BY <3>1, <3>2 DEF Covered
  <2> QED
    BY <1>7, <2>2, <2>5 DEF RaiseLargest, Critical, Covered
<1>8. ASSUME NEW c \in Clients, Measure(c) PROVE Covered'
  BY <1>8, CoveredKept DEF Measure
<1>9. ASSUME NEW c \in Clients, Retrieve(c) PROVE Covered'
  BY <1>9, CoveredKept DEF Retrieve
<1>10. ASSUME NEW c \in Clients, Delete(c) PROVE Covered'
  <2>1. req[c].key \in Keys
    BY <1>10, RequestFields DEF OpInv, Delete
  <2> QED
    BY <1>10, <2>1, CoveredKept DEF Delete
<1>11. ASSUME NEW c \in Clients, NEW k \in Keys, Visit(c, k) PROVE Covered'
  BY <1>11, CoveredKept DEF Visit
<1>12. ASSUME NEW c \in Clients, EndVisit(c) PROVE Covered'
  BY <1>12, CoveredKept DEF EndVisit
<1>13. ASSUME NEW c \in Clients, Unlock(c) PROVE Covered'
  BY <1>13, CoveredKept DEF Unlock
<1>14. ASSUME NEW c \in Clients, Return(c) PROVE Covered'
  BY <1>14, CoveredKept DEF Return, Forget
<1>15. ASSUME NEW c \in Clients, Crash(c) PROVE Covered'
  BY <1>15 DEF Crash
<1>16. CASE UNCHANGED vars
  BY <1>16 DEF vars, Covered
<1> QED
  BY <1>1, <1>2, <1>3, <1>4, <1>5, <1>6, <1>7, <1>8, <1>9, <1>10, <1>11,
     <1>12, <1>13, <1>14, <1>15, <1>16 DEF Next, Proceed

\* Between calls the buffer that Find allocates holds any entry there is: true of
\* the uncompressed build, when the mutex and the shared memory can be had.
THEOREM LargestCovers ==
  ASSUME ~Compressing, Faults \cap {"lock_find", "shm", "crash"} = {}
  PROVE  Spec => []LargestCoversEntries
<1>1. Init => HolderInv /\ CoverInv
  BY DEF Init, HolderInv, CoverInv, Covered, Fresh, Critical, NoBlocks
<1>2. TypeOK /\ OpInv /\ HolderInv /\ CoverInv /\ [Next]_vars
        => (HolderInv /\ CoverInv)'
  BY HolderInvStep, CoverInvStep
<1>3. HolderInv /\ CoverInv => LargestCoversEntries
  BY StorageAssumption DEF HolderInv, CoverInv, Covered, LargestCoversEntries, Critical
<1> QED
  BY <1>1, <1>2, <1>3, TypeCorrect, PTL DEF Spec

\* However the reads and the writes of SetLargestEntrySize interleave, over all the
\* threads and processes, the larger of two lengths is never lost: also in the
\* compressed build, when the shared memory fails, and when processes are killed.
THEOREM LargestGrows ==
  ASSUME "lock_find" \notin Faults
  PROVE  Spec => LargestNeverShrinks
<1>1. Init => HolderInv /\ Fresh
  BY DEF Init, HolderInv, Fresh, Critical
<1>2. TypeOK /\ OpInv /\ HolderInv /\ Fresh /\ [Next]_vars => (HolderInv /\ Fresh)'
  BY HolderInvStep, FreshStep
<1>3. TypeOK /\ OpInv /\ Fresh /\ [Next]_vars => [largest' >= largest]_largest
  <2> SUFFICES ASSUME TypeOK, OpInv, Fresh, [Next]_vars, largest' # largest
               PROVE  largest' >= largest
    OBVIOUS
  <2>1. PICK c \in Clients : RaiseLargest(c)
    <3>1. PICK c \in Clients : (\E r \in Requests : Begin(c, r)) \/ Lock(c) \/ LockFails(c)
                                \/ Crash(c) \/ Proceed(c)
      BY DEF Next, vars
    <3>2. (\A r \in Requests : ~Begin(c, r)) /\ ~Lock(c) /\ ~LockFails(c)
      BY DEF Begin, Lock, LockFails
    <3>6. ~Crash(c)
      BY DEF Crash, Forget
    <3>3. ~MakeKey(c) /\ ~AddStore(c) /\ ~ReadLargest(c) /\ ~Measure(c)
      BY DEF MakeKey, AddStore, ReadLargest, Measure
    <3>4. ~Retrieve(c) /\ ~Delete(c) /\ ~EndVisit(c)
      BY DEF Retrieve, Delete, EndVisit
    <3>5. (\A k \in Keys : ~Visit(c, k)) /\ ~Unlock(c) /\ ~Return(c)
      BY DEF Visit, Unlock, Return, Forget
    <3> QED
      BY <3>1, <3>2, <3>6, <3>3, <3>4, <3>5 DEF Proceed
  <2>2. size[c] = largest /\ largest \in Nat /\ ValueLength[req[c].value] \in Nat
    BY <2>1, RequestFields, LengthsAssumption DEF TypeOK, OpInv, Fresh, RaiseLargest
  <2> QED
    BY <2>1, <2>2 DEF RaiseLargest
<1> QED
  BY <1>1, <1>2, <1>3, TypeCorrect, PTL DEF Spec, LargestNeverShrinks
=============================================================================
