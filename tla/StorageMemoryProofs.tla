-------------------------- MODULE StorageMemoryProofs --------------------------
(***************************************************************************)
(* Theorems about StorageMemory for any managers in one pool, and          *)
(* whichever calls fail.                                                   *)
(***************************************************************************)
EXTENDS StorageMemory, SequenceTheorems, TLAPS

\* What a manager and its storage consist of once they are made.
Whole == {"manager", "storage", "mutex", "segment"}

\* The calls that fail after the cleanups have been registered.
Late == {"instance", "newmutex", "init", "child"}

Registered(m) == \/ at[m] \in {"made", "ready"}
                 \/ at[m] = "failed" /\ failures[m] \cap Late # {}

\* In a list of cleanups c is one of them, none is there twice, and the pool's own cleanup
\* of a manager's first mutex comes before that of the storage, and so runs after it.
In(s, c) == \E i \in 1 .. Len(s) : s[i] = c

Once(s) == \A i, j \in 1 .. Len(s) : s[i] = s[j] => i = j

Ordered(s) ==
  \A m \in Managers : \A i, j \in 1 .. Len(s) :
    s[i] = <<m, "mutex">> /\ s[j] = <<m, "FreeStorage">> => i < j

\* A cleanup that has not been run yet.
Pending(m, f) == In(cleanups, <<m, f>>)

\* What there is at each step of the set up, and of undoing it: the structs point to
\* what exists, but for a segment that the storage still points to after it is freed.
StepInv(m) ==
  /\ at[m] \in {"manager", "storage", "provider", "mutex", "segment", "hash", "made", "ready"}
       => failures[m] = {}
  /\ at[m] \in {"manager", "storage", "provider", "mutex", "segment", "hash", "freeSegment"}
       => live[m] = held[m]
  /\ at[m] = "manager" => held[m] = {}
  /\ at[m] = "storage" => held[m] = {"manager"}
  /\ at[m] \in {"provider", "mutex"} => held[m] = {"manager", "storage"}
  /\ at[m] = "segment" => held[m] = {"manager", "storage", "mutex"}
  /\ at[m] \in {"hash", "freeSegment"} => held[m] = Whole
  /\ at[m] = "made" => held[m] = Whole /\ live[m] = Whole
  /\ at[m] = "destroyMutex" => /\ live[m] = {"manager", "storage", "mutex"}
                               /\ held[m] \in {live[m], Whole}
  /\ at[m] = "freeStorage" => /\ live[m] = {"manager", "storage"}
                              /\ held[m] \in {live[m], live[m] \cup {"segment"}}
  /\ at[m] = "freeManager" => held[m] = {"manager"} /\ live[m] = {"manager"}
  /\ at[m] = "failed" /\ ~Registered(m) => live[m] = {}
  /\ at[m] # "failed" => failures[m] \cap Late = {}
  /\ at[m] \in {"freeSegment", "destroyMutex", "freeStorage"} /\ "segment" \in held[m]
       => "hash" \in failures[m]

\* What the pool has still to free is there, but for a mutex that took the place of the
\* first one, and once for each cleanup.
PoolInv(m) ==
  /\ at[m] \in {"manager", "storage", "provider", "mutex"} => ~Pending(m, "mutex")
  /\ at[m] \notin {"ready", "failed"} => ~Pending(m, "newmutex")
  /\ ~Registered(m) => /\ ~Pending(m, "FreeStorage") /\ ~Pending(m, "CleanUpManager")
                       /\ again[m] \subseteq IF "hash" \in failures[m] THEN {"segment"} ELSE {}
  /\ Registered(m) =>
       /\ held[m] \in {Whole, Whole \cup {"instance"},
                       (Whole \ {"mutex"}) \cup {"instance", "newmutex"}}
       /\ Pending(m, "FreeStorage") => held[m] \ {"manager", "newmutex"} \subseteq live[m]
       /\ Pending(m, "CleanUpManager") /\ "child" \notin failures[m] => "manager" \in live[m]
       /\ live[m] \ Mutexes \subseteq
            (IF Pending(m, "FreeStorage") THEN held[m] \ {"manager"} ELSE {})
              \cup (IF Pending(m, "CleanUpManager") THEN {"manager"} ELSE {})
       /\ again[m] \subseteq (IF "child" \in failures[m] THEN {"manager"} ELSE {})
                             \cup (held[m] \cap {"newmutex"})
       /\ ~cleared => Pending(m, "FreeStorage") /\ Pending(m, "CleanUpManager")

\* A mutex that exists has a cleanup of its own on the pool.
MutexInv(m) == \A x \in Mutexes : x \in live[m] => Pending(m, x)

\* The pool is cleared between two set ups only.
ClearedInv == cleared => \A m \in Managers : at[m] \in {"manager", "ready", "failed"}

IInv == /\ TypeOK /\ ClearedInv /\ Once(cleanups) /\ Ordered(cleanups)
        /\ \A m \in Managers : StepInv(m) /\ PoolInv(m) /\ MutexInv(m)

-----------------------------------------------------------------------------
LEMMA InitIInv == Init => IInv
<1> SUFFICES ASSUME Init PROVE IInv
  OBVIOUS
<1>1. Len(cleanups) = 0 /\ cleanups \in Seq(Managers \X Functions)
  BY DEF Init
<1>2. TypeOK
  BY <1>1 DEF Init, TypeOK, Steps
<1>3. /\ ClearedInv /\ Once(cleanups) /\ Ordered(cleanups)
      /\ \A m, f : ~Pending(m, f)
  BY <1>1 DEF Init, ClearedInv, Once, Ordered, Pending, In
<1>4. \A m \in Managers : /\ at[m] = "manager" /\ ~Registered(m)
                          /\ failures[m] = {} /\ live[m] = {} /\ held[m] = {} /\ again[m] = {}
  BY DEF Init, Registered
<1>5. \A m \in Managers : StepInv(m)
  BY <1>4 DEF StepInv
<1>6. \A m \in Managers : PoolInv(m)
  BY <1>3, <1>4 DEF PoolInv
<1>7. \A m \in Managers : MutexInv(m)
  BY <1>4 DEF MutexInv
<1> QED
  BY <1>2, <1>3, <1>5, <1>6, <1>7 DEF IInv

\* A step changes variables within their types.
LEMMA TypeNext == ASSUME TypeOK, [Next]_vars PROVE TypeOK'
<1> USE DEF TypeOK
<1>1. CASE UNCHANGED vars
  BY <1>1 DEF vars
<1>2. ASSUME NEW m \in Managers, SetUp(m) PROVE TypeOK'
  <2> USE DEF Get, Fail, Acquire, Free, Goto, Failed, Steps, Resources, Mutexes
  <2>1. CASE AllocateManager(m) BY <2>1 DEF AllocateManager
  <2>2. CASE AllocateStorage(m) BY <2>2 DEF AllocateStorage
  <2>3. CASE LookupProvider(m) BY <2>3 DEF LookupProvider
  <2>4. CASE InitMutex(m)
    <3>1. Append(cleanups, <<m, "mutex">>) \in Seq(Managers \X Functions)
      BY DEF Functions, Mutexes
    <3>2. cleanups' \in Seq(Managers \X Functions)
      BY <2>4, <3>1 DEF InitMutex
    <3>3. /\ at' \in [Managers -> Steps] /\ held' \in [Managers -> SUBSET Resources]
          /\ live' \in [Managers -> SUBSET Resources]
      BY <2>4 DEF InitMutex
    <3>4. /\ again' \in [Managers -> SUBSET Resources] /\ cleared' \in BOOLEAN
          /\ failures' \in [Managers -> SUBSET MemoryFaults]
      BY <2>4 DEF InitMutex
    <3> QED
      BY <3>2, <3>3, <3>4
  <2>5. CASE InitSegment(m)
    <3>1. CASE Get(m, "segment", "segment", "hash") BY <3>1
    <3>2. CASE Fail(m, "segment", "destroyMutex") BY <3>2
    <3> QED
      BY <2>5, <3>1, <3>2 DEF InitSegment
  <2>6. CASE InitHash(m)
    <3>1. CASE Fail(m, "hash", "freeSegment") BY <3>1
    <3>2. CASE ~Fail(m, "hash", "freeSegment")
      <4>1. Append(Append(cleanups, <<m, "FreeStorage">>), <<m, "CleanUpManager">>)
              \in Seq(Managers \X Functions)
        BY DEF Functions
      <4> QED
        BY <2>6, <3>2, <4>1 DEF InitHash
    <3> QED
      BY <3>1, <3>2
  <2>7. CASE FreeSegment(m) BY <2>7 DEF FreeSegment
  <2>8. CASE DestroyMutex(m) BY <2>8 DEF DestroyMutex
  <2>9. CASE FreeStorage(m) BY <2>9 DEF FreeStorage
  <2>10. CASE FreeManager(m) BY <2>10 DEF FreeManager
  <2>11. CASE PostConfigureGlobalStorage(m)
    <3>1. Append(cleanups, <<m, "newmutex">>) \in Seq(Managers \X Functions)
      BY DEF Functions, Mutexes
    <3>2. cleanups' \in Seq(Managers \X Functions)
      BY <2>11, <3>1 DEF PostConfigureGlobalStorage
    <3>3. at' \in [Managers -> Steps]
      BY <2>11 DEF PostConfigureGlobalStorage
    <3>4. held' \in [Managers -> SUBSET Resources]
      BY <2>11 DEF PostConfigureGlobalStorage
    <3>5. live' \in [Managers -> SUBSET Resources]
      BY <2>11 DEF PostConfigureGlobalStorage
    <3>6. /\ again' \in [Managers -> SUBSET Resources] /\ cleared' \in BOOLEAN
          /\ failures' \in [Managers -> SUBSET MemoryFaults]
      BY <2>11 DEF PostConfigureGlobalStorage
    <3> QED
      BY <3>2, <3>3, <3>4, <3>5, <3>6
  <2>12. CASE ChildInit(m) BY <2>12 DEF ChildInit
  <2> QED
    BY <1>2, <2>1, <2>2, <2>3, <2>4, <2>5, <2>6, <2>7, <2>8, <2>9, <2>10, <2>11, <2>12
    DEF SetUp
<1>3. CASE ClearPool
  BY <1>3 DEF ClearPool
<1>4. CASE RunCleanup
  <2>1. /\ Len(cleanups) \in Nat \ {0}
        /\ \A i \in 1 .. Len(cleanups) : cleanups[i] \in Managers \X Functions
    BY <1>4 DEF RunCleanup
  <2>2. cleanups[Len(cleanups)][1] \in Managers
    BY <2>1
  <2> DEFINE m == cleanups[Len(cleanups)][1]
             f == cleanups[Len(cleanups)][2]
  <2>3. /\ live' \in [Managers -> SUBSET Resources]
        /\ again' \in [Managers -> SUBSET Resources]
    <3>1. \/ f = "FreeStorage" /\ Free(m, held[m] \ {"manager"})
          \/ f = "CleanUpManager" /\ Free(m, {"manager"})
          \/ f \in Mutexes /\ live' = [live EXCEPT ![m] = @ \ {f}] /\ again' = again
      BY <1>4 DEF RunCleanup
    <3> HIDE DEF m, f
    <3>2. CASE Free(m, held[m] \ {"manager"})
      BY <3>2, <2>2 DEF Free, m
    <3>3. CASE Free(m, {"manager"})
      BY <3>3, <2>2 DEF Free, m, Resources
    <3>4. CASE live' = [live EXCEPT ![m] = @ \ {f}] /\ again' = again
      BY <3>4, <2>2 DEF m
    <3> QED
      BY <3>1, <3>2, <3>3, <3>4
  <2>4. SubSeq(cleanups, 1, Len(cleanups) - 1) \in Seq(Managers \X Functions)
    BY <2>1, SubSeqProperties
  <2> QED
    BY <1>4, <2>3, <2>4 DEF RunCleanup
<1> QED
  BY <1>1, <1>2, <1>3, <1>4 DEF Next

-----------------------------------------------------------------------------
\* Registering a cleanup adds it and no other.
LEMMA AddOne ==
  ASSUME NEW s \in Seq(Managers \X Functions), NEW c \in Managers \X Functions,
         Once(s), Ordered(s), ~In(s, c),
         \A m \in Managers : c = <<m, "mutex">> => ~In(s, <<m, "FreeStorage">>)
  PROVE  /\ Append(s, c) \in Seq(Managers \X Functions)
         /\ Once(Append(s, c)) /\ Ordered(Append(s, c))
         /\ \A d : In(Append(s, c), d) <=> In(s, d) \/ d = c
<1> DEFINE l == Len(s)
           t == Append(s, c)
<1>1. /\ t \in Seq(Managers \X Functions) /\ l \in Nat /\ Len(t) = l + 1
      /\ \A i \in 1 .. l : t[i] = s[i]
      /\ t[l + 1] = c
  BY AppendProperties
<1> HIDE DEF t
<1>2. /\ \A i \in 1 .. Len(t) : i \in 1 .. l \/ i = l + 1
      /\ l + 1 \in 1 .. Len(t) /\ 1 .. l \subseteq 1 .. Len(t)
      /\ \A i \in 1 .. l : i < l + 1
  BY <1>1
<1>3. \A i \in 1 .. l : s[i] # c
  BY DEF In
<1>4. Once(t)
  <2> SUFFICES ASSUME NEW i \in 1 .. Len(t), NEW j \in 1 .. Len(t), t[i] = t[j] PROVE i = j
    BY DEF Once
  <2>1. CASE i \in 1 .. l /\ j \in 1 .. l
    BY <2>1, <1>1 DEF Once
  <2>2. CASE ~(i \in 1 .. l /\ j \in 1 .. l)
    BY <2>2, <1>1, <1>2, <1>3
  <2> QED
    BY <2>1, <2>2
<1>5. Ordered(t)
  <2> SUFFICES ASSUME NEW m \in Managers, NEW i \in 1 .. Len(t), NEW j \in 1 .. Len(t),
                      t[i] = <<m, "mutex">>, t[j] = <<m, "FreeStorage">>
               PROVE  i < j
    BY DEF Ordered
  <2>1. CASE i \in 1 .. l /\ j \in 1 .. l
    BY <2>1, <1>1 DEF Ordered
  <2>2. CASE i \in 1 .. l /\ j = l + 1
    BY <2>2, <1>2
  <2>3. CASE i = l + 1 /\ j \in 1 .. l
    BY <2>3, <1>1 DEF In
  <2>4. CASE i = l + 1 /\ j = l + 1
    <3>1. <<m, "mutex">> = <<m, "FreeStorage">>
      BY <2>4
    <3> QED
      BY <3>1
  <2> QED
    BY <1>2, <2>1, <2>2, <2>3, <2>4
<1>6. \A d : In(t, d) <=> In(s, d) \/ d = c
  BY <1>1, <1>2 DEF In
<1> QED
  BY <1>1, <1>4, <1>5, <1>6 DEF t

\* Running the latest cleanup takes that one and no other from the list; the pool's own
\* cleanup of a first mutex is not the latest while that of the storage is in the list.
LEMMA DropLast ==
  ASSUME NEW s \in Seq(Managers \X Functions), s # <<>>, Once(s), Ordered(s), NEW c, c = s[Len(s)]
  PROVE  /\ Once(SubSeq(s, 1, Len(s) - 1)) /\ Ordered(SubSeq(s, 1, Len(s) - 1))
         /\ In(s, c) /\ ~In(SubSeq(s, 1, Len(s) - 1), c)
         /\ \A d : d # c => (In(SubSeq(s, 1, Len(s) - 1), d) <=> In(s, d))
         /\ \A m \in Managers : c = <<m, "mutex">> => ~In(s, <<m, "FreeStorage">>)
<1> DEFINE l == Len(s)
           t == SubSeq(s, 1, l - 1)
<1>1. /\ l \in Nat \ {0}
      /\ \A i \in 1 .. l : s[i] \in Managers \X Functions
  OBVIOUS
<1>2. /\ Len(t) = l - 1
      /\ \A i \in 1 .. l - 1 : t[i] = s[i]
  <2>1. 1 \in Int /\ l - 1 \in Int /\ l - 1 \in Nat
        /\ \A i \in 1 .. l - 1 : s[i] \in Managers \X Functions
    BY <1>1
  <2>2. /\ Len(t) = IF 1 <= l - 1 THEN (l - 1) - 1 + 1 ELSE 0
        /\ \A i \in 1 .. (l - 1) - 1 + 1 : t[i] = s[1 + i - 1]
    BY <2>1, SubSeqProperties
  <2>3. /\ (l - 1) - 1 + 1 = l - 1
        /\ \A i \in 1 .. l - 1 : 1 + i - 1 = i
    BY <2>1
  <2> QED
    BY <1>1, <2>2, <2>3
<1> HIDE DEF t
<1>3. 1 .. l - 1 \subseteq 1 .. l /\ l \in 1 .. l /\ l \notin 1 .. l - 1
      /\ \A i \in 1 .. l : i = l \/ i \in 1 .. l - 1
  BY <1>1
<1>4. Once(t)
  BY <1>2, <1>3 DEF Once
<1>5. Ordered(t)
  BY <1>2, <1>3 DEF Ordered
<1>6. In(s, c) /\ ~In(t, c)
  BY <1>2, <1>3 DEF In, Once
<1>7. \A d : d # c => (In(t, d) <=> In(s, d))
  BY <1>2, <1>3 DEF In
<1>8. ASSUME NEW m \in Managers, c = <<m, "mutex">> PROVE ~In(s, <<m, "FreeStorage">>)
  <2> SUFFICES ASSUME NEW j \in 1 .. l, s[j] = <<m, "FreeStorage">> PROVE FALSE
    BY DEF In
  <2>1. l < j
    BY <1>3, <1>8 DEF Ordered
  <2> QED
    BY <1>1, <2>1
<1> QED
  BY <1>4, <1>5, <1>6, <1>7, <1>8 DEF t

-----------------------------------------------------------------------------
\* A step of the set up leaves the other managers as they are.
OthersKept(m) ==
  /\ ~cleared /\ cleared' = cleared
  /\ \A n \in Managers \ {m} :
       /\ at'[n] = at[n] /\ held'[n] = held[n] /\ live'[n] = live[n]
       /\ again'[n] = again[n] /\ failures'[n] = failures[n]

LEMMA OneManager ==
  ASSUME NEW m \in Managers, IInv, OthersKept(m), TypeOK', Once(cleanups)', Ordered(cleanups)',
         \A n \in Managers \ {m}, f \in Functions : Pending(n, f)' <=> Pending(n, f),
         StepInv(m)', PoolInv(m)', MutexInv(m)'
  PROVE  IInv'
<1>1. ASSUME NEW n \in Managers \ {m} PROVE StepInv(n)'
  BY DEF IInv, OthersKept, StepInv, Registered
<1>2. ASSUME NEW n \in Managers \ {m} PROVE PoolInv(n)' /\ MutexInv(n)'
  <2>1. PoolInv(n) /\ MutexInv(n) /\ Registered(n)' = Registered(n)
    BY DEF IInv, OthersKept, Registered
  <2>2. /\ Pending(n, "FreeStorage")' <=> Pending(n, "FreeStorage")
        /\ Pending(n, "CleanUpManager")' <=> Pending(n, "CleanUpManager")
        /\ Pending(n, "mutex")' <=> Pending(n, "mutex")
        /\ Pending(n, "newmutex")' <=> Pending(n, "newmutex")
    BY DEF Functions, Mutexes
  <2>3. PoolInv(n)'
    BY <2>1, <2>2 DEF OthersKept, PoolInv
  <2>4. MutexInv(n)'
    BY <2>1, <2>2 DEF OthersKept, MutexInv, Mutexes
  <2> QED
    BY <2>3, <2>4
<1>3. ClearedInv'
  BY DEF OthersKept, ClearedInv
<1> QED
  BY <1>1, <1>2, <1>3 DEF IInv

\* Registering a cleanup that is not pending leaves the other ones as they are.
LEMMA Registering ==
  ASSUME NEW m \in Managers, NEW f \in Functions, IInv, ~Pending(m, f),
         f = "mutex" => ~Pending(m, "FreeStorage"),
         cleanups' = Append(cleanups, <<m, f>>)
  PROVE  /\ Once(cleanups)' /\ Ordered(cleanups)'
         /\ \A n, g : Pending(n, g)' <=> Pending(n, g) \/ (n = m /\ g = f)
<1>1. /\ cleanups \in Seq(Managers \X Functions) /\ <<m, f>> \in Managers \X Functions
      /\ Once(cleanups) /\ Ordered(cleanups) /\ ~In(cleanups, <<m, f>>)
  BY DEF IInv, TypeOK, Pending
<1>2. \A n \in Managers : <<m, f>> = <<n, "mutex">> => ~In(cleanups, <<n, "FreeStorage">>)
  BY DEF Pending
<1>3. /\ Once(cleanups)' /\ Ordered(cleanups)'
      /\ \A d : In(cleanups', d) <=> In(cleanups, d) \/ d = <<m, f>>
  BY <1>1, <1>2, AddOne
<1>4. \A n, g : Pending(n, g)' <=> In(cleanups', <<n, g>>)
  BY DEF Pending
<1> QED
  BY <1>3, <1>4 DEF Pending

\* Most steps do not touch the cleanups.
LEMMA NoCleanup ==
  ASSUME NEW m \in Managers, IInv, OthersKept(m), TypeOK', cleanups' = cleanups,
         StepInv(m)', PoolInv(m)', MutexInv(m)'
  PROVE  IInv'
<1>1. /\ Once(cleanups)' /\ Ordered(cleanups)'
      /\ \A n \in Managers, f \in Functions : Pending(n, f)' <=> Pending(n, f)
  BY DEF IInv, Pending
<1> QED
  BY <1>1, OneManager

\* The steps in which no mutex is made.
NoMutex == {"manager", "storage", "provider", "mutex"}

\* Until the cleanups are registered there is only the error path to free anything.
LEMMA Unregistered ==
  ASSUME NEW m \in Managers, IInv, OthersKept(m), TypeOK', cleanups' = cleanups,
         ~Registered(m), ~Registered(m)', StepInv(m)',
         at[m] \notin {"ready", "failed"}, at'[m] \in NoMutex => at[m] \in NoMutex,
         live'[m] \cap Mutexes \subseteq live[m],
         again'[m] \subseteq IF "hash" \in failures'[m] THEN {"segment"} ELSE {}
  PROVE  IInv'
<1>1. \A f : Pending(m, f)' <=> Pending(m, f)
  BY DEF Pending
<1>2. PoolInv(m) /\ MutexInv(m)
  BY DEF IInv
<1>3. PoolInv(m)'
  BY <1>1, <1>2 DEF PoolInv, NoMutex
<1>4. MutexInv(m)'
  BY <1>1, <1>2 DEF MutexInv
<1> QED
  BY <1>3, <1>4, NoCleanup

\* The set up of a manager is not going on when the pool is cleared.
LEMMA NotCleared ==
  ASSUME NEW m \in Managers, IInv, at[m] \notin {"manager", "ready", "failed"}
  PROVE  ~cleared
BY DEF IInv, ClearedInv

\* The steps that acquire memory, the mutex and the segment, and those that undo it.
LEMMA BuildStep ==
  ASSUME NEW m \in Managers, IInv, TypeOK',
         \/ AllocateManager(m) \/ AllocateStorage(m) \/ LookupProvider(m)
         \/ Fail(m, "mutex", "freeStorage") \/ InitSegment(m) \/ Fail(m, "hash", "freeSegment")
  PROVE  IInv'
<1>1. /\ at[m] \in {"manager", "storage", "provider", "mutex", "segment", "hash"}
      /\ at'[m] \notin {"made", "ready"} /\ at' = [at EXCEPT ![m] = at'[m]]
      /\ cleanups' = cleanups /\ cleared' = cleared /\ ~cleared /\ again' = again
  BY NotCleared DEF IInv, TypeOK, AllocateManager, AllocateStorage, LookupProvider,
     InitSegment, Get, Fail, Goto
<1>2. /\ held' = [held EXCEPT ![m] = held'[m]] /\ live' = [live EXCEPT ![m] = live'[m]]
      /\ failures' = [failures EXCEPT ![m] = failures'[m]]
  BY DEF IInv, TypeOK, AllocateManager, AllocateStorage, LookupProvider,
     InitSegment, Get, Fail, Acquire, Failed
<1>3. OthersKept(m)
  BY <1>1, <1>2 DEF IInv, TypeOK, OthersKept
<1>4. /\ ~Registered(m) /\ failures[m] = {}
      /\ again[m] \subseteq IF "hash" \in failures[m] THEN {"segment"} ELSE {}
  BY <1>1 DEF IInv, PoolInv, StepInv, Registered
<1>5. failures'[m] \cap Late = {}
  BY <1>4 DEF IInv, TypeOK, AllocateManager, AllocateStorage, LookupProvider,
     InitSegment, Get, Fail, Failed, Late
<1>6. ~Registered(m)'
  BY <1>1, <1>5 DEF Registered
<1>7. again'[m] \subseteq IF "hash" \in failures'[m] THEN {"segment"} ELSE {}
  BY <1>1, <1>4
<1>8. StepInv(m)'
  <2>1. StepInv(m) /\ TypeOK
    BY DEF IInv
  <2>2. CASE AllocateManager(m)
    <3>1. /\ at[m] = "manager"
          /\ \/ /\ at'[m] = "storage" /\ failures'[m] = failures[m]
                /\ held'[m] = held[m] \cup {"manager"} /\ live'[m] = live[m] \cup {"manager"}
             \/ /\ at'[m] = "failed"
                /\ held'[m] = held[m] /\ live'[m] = live[m]
      BY <2>1, <2>2 DEF AllocateManager, TypeOK, Get, Fail, Acquire, Goto, Failed
    <3> QED
      BY <2>1, <3>1, <1>4, <1>5, <1>6 DEF StepInv, Whole
  <2>3. CASE AllocateStorage(m)
    <3>1. /\ at[m] = "storage"
          /\ \/ /\ at'[m] = "provider" /\ failures'[m] = failures[m]
                /\ held'[m] = held[m] \cup {"storage"} /\ live'[m] = live[m] \cup {"storage"}
             \/ /\ at'[m] = "freeManager"
                /\ held'[m] = held[m] /\ live'[m] = live[m]
      BY <2>1, <2>3 DEF AllocateStorage, TypeOK, Get, Fail, Acquire, Goto, Failed
    <3> QED
      BY <2>1, <3>1, <1>4, <1>5, <1>6 DEF StepInv, Whole
  <2>4. CASE LookupProvider(m)
    BY <2>1, <2>4, <1>5, <1>6 DEF LookupProvider, TypeOK, StepInv, Fail, Goto, Failed
  <2>5. CASE Fail(m, "mutex", "freeStorage")
    BY <2>1, <2>5, <1>5, <1>6 DEF TypeOK, StepInv, Fail, Goto, Failed
  <2>6. CASE InitSegment(m)
    <3>1. /\ at[m] = "segment"
          /\ \/ /\ at'[m] = "hash" /\ failures'[m] = failures[m]
                /\ held'[m] = held[m] \cup {"segment"} /\ live'[m] = live[m] \cup {"segment"}
             \/ /\ at'[m] = "destroyMutex"
                /\ held'[m] = held[m] /\ live'[m] = live[m]
      BY <2>1, <2>6 DEF InitSegment, TypeOK, Get, Fail, Acquire, Goto, Failed
    <3> QED
      BY <2>1, <3>1, <1>4, <1>5, <1>6 DEF StepInv, Whole
  <2>7. CASE Fail(m, "hash", "freeSegment")
    BY <2>1, <2>7, <1>5, <1>6 DEF TypeOK, StepInv, Fail, Goto, Failed
  <2> QED
    BY <2>2, <2>3, <2>4, <2>5, <2>6, <2>7
<1>9. /\ at'[m] \in NoMutex => at[m] \in NoMutex
      /\ live'[m] \cap Mutexes \subseteq live[m]
  BY DEF IInv, TypeOK, AllocateManager, AllocateStorage, LookupProvider, InitSegment,
     Get, Fail, Acquire, Goto, NoMutex, Mutexes
<1> QED
  BY <1>1, <1>3, <1>4, <1>6, <1>7, <1>8, <1>9, Unregistered

LEMMA UndoStep ==
  ASSUME NEW m \in Managers, IInv, TypeOK',
         FreeSegment(m) \/ DestroyMutex(m) \/ FreeStorage(m) \/ FreeManager(m)
  PROVE  IInv'
<1>1. /\ at[m] \in {"freeSegment", "destroyMutex", "freeStorage", "freeManager"}
      /\ at'[m] \in {"destroyMutex", "freeStorage", "freeManager", "failed"}
      /\ at' = [at EXCEPT ![m] = at'[m]] /\ failures' = failures
      /\ cleanups' = cleanups /\ cleared' = cleared /\ ~cleared
  BY NotCleared DEF IInv, TypeOK, FreeSegment, DestroyMutex, FreeStorage, FreeManager, Goto
<1>2. /\ held' = [held EXCEPT ![m] = held'[m]] /\ live' = [live EXCEPT ![m] = live'[m]]
      /\ again' = [again EXCEPT ![m] = again'[m]]
  BY DEF IInv, TypeOK, FreeSegment, DestroyMutex, FreeStorage, FreeManager, Free
<1>3. OthersKept(m)
  BY <1>1, <1>2 DEF IInv, TypeOK, OthersKept
<1>4. /\ ~Registered(m) /\ failures[m] \cap Late = {}
      /\ again[m] \subseteq IF "hash" \in failures[m] THEN {"segment"} ELSE {}
  BY <1>1 DEF IInv, PoolInv, StepInv, Registered
<1>5. ~Registered(m)'
  BY <1>1, <1>4 DEF Registered
<1>6. /\ StepInv(m)'
      /\ again'[m] \subseteq IF "hash" \in failures'[m] THEN {"segment"} ELSE {}
  <2>1. StepInv(m) /\ TypeOK
    BY DEF IInv
  <2> USE DEF TypeOK, StepInv, Goto, Free, Whole
  <2>2. CASE FreeSegment(m) BY <2>1, <2>2, <1>4, <1>5 DEF FreeSegment
  <2>3. CASE DestroyMutex(m) BY <2>1, <2>3, <1>4, <1>5 DEF DestroyMutex
  <2>4. CASE FreeStorage(m) BY <2>1, <2>4, <1>4, <1>5 DEF FreeStorage
  <2>5. CASE FreeManager(m) BY <2>1, <2>5, <1>4, <1>5 DEF FreeManager
  <2> QED
    BY <2>2, <2>3, <2>4, <2>5
<1>7. at'[m] \notin NoMutex /\ live'[m] \subseteq live[m]
  BY <1>1 DEF IInv, TypeOK, FreeSegment, DestroyMutex, FreeStorage, FreeManager, Free, NoMutex
<1> QED
  BY <1>1, <1>3, <1>4, <1>5, <1>6, <1>7, Unregistered

-----------------------------------------------------------------------------
LEMMA InitMutexStep ==
  ASSUME NEW m \in Managers, IInv, TypeOK', InitMutex(m)
  PROVE  IInv'
<1>1. CASE Fail(m, "mutex", "freeStorage")
  BY <1>1, BuildStep
<1>2. CASE ~Fail(m, "mutex", "freeStorage")
  <2>1. /\ at[m] = "mutex" /\ at' = [at EXCEPT ![m] = "segment"]
        /\ held' = [held EXCEPT ![m] = @ \cup {"mutex"}]
        /\ live' = [live EXCEPT ![m] = @ \cup {"mutex"}]
        /\ cleanups' = Append(cleanups, <<m, "mutex">>)
        /\ UNCHANGED <<again, failures, cleared>>
    BY <1>2 DEF InitMutex, Goto, Acquire
  <2>2. /\ at'[m] = "segment" /\ OthersKept(m)
        /\ held'[m] = held[m] \cup {"mutex"} /\ live'[m] = live[m] \cup {"mutex"}
    BY <2>1, NotCleared DEF IInv, TypeOK, OthersKept
  <2>3. /\ failures[m] = {} /\ ~Registered(m) /\ again[m] = {} /\ live[m] = held[m]
        /\ held[m] = {"manager", "storage"}
        /\ ~Pending(m, "FreeStorage") /\ ~Pending(m, "CleanUpManager")
        /\ ~Pending(m, "mutex") /\ ~Pending(m, "newmutex")
    BY <2>1 DEF IInv, StepInv, PoolInv, Registered
  <2>4. "mutex" \in Functions
    BY DEF Functions, Mutexes
  <2>5. /\ Once(cleanups)' /\ Ordered(cleanups)'
        /\ \A n, g : Pending(n, g)' <=> Pending(n, g) \/ (n = m /\ g = "mutex")
    BY <2>1, <2>3, <2>4, Registering
  <2>6. ~Registered(m)'
    BY <2>2 DEF Registered
  <2>7. StepInv(m)'
    BY <2>1, <2>2, <2>3, <2>6 DEF StepInv
  <2>8. PoolInv(m)'
    BY <2>1, <2>2, <2>3, <2>5, <2>6 DEF PoolInv
  <2>9. MutexInv(m)'
    BY <2>2, <2>3, <2>5 DEF MutexInv, Mutexes
  <2> QED
    BY <2>2, <2>5, <2>7, <2>8, <2>9, OneManager
<1> QED
  BY <1>1, <1>2

LEMMA InitHashStep ==
  ASSUME NEW m \in Managers, IInv, TypeOK', InitHash(m)
  PROVE  IInv'
<1>1. CASE Fail(m, "hash", "freeSegment")
  BY <1>1, BuildStep
<1>2. CASE ~Fail(m, "hash", "freeSegment")
  <2>1. /\ at[m] = "hash" /\ at' = [at EXCEPT ![m] = "made"]
        /\ cleanups' = Append(Append(cleanups, <<m, "FreeStorage">>), <<m, "CleanUpManager">>)
        /\ UNCHANGED <<held, live, again, failures, cleared>>
    BY <1>2 DEF InitHash, Goto
  <2>2. at'[m] = "made" /\ OthersKept(m)
    BY <2>1, NotCleared DEF IInv, TypeOK, OthersKept
  <2>3. /\ failures[m] = {} /\ held[m] = Whole /\ live[m] = Whole /\ again[m] = {}
        /\ ~Pending(m, "FreeStorage") /\ ~Pending(m, "CleanUpManager") /\ ~Pending(m, "newmutex")
    BY <2>1 DEF IInv, StepInv, PoolInv, Registered
  <2>4. /\ Once(cleanups)' /\ Ordered(cleanups)'
        /\ \A n, g : Pending(n, g)' <=>
              Pending(n, g) \/ (n = m /\ g \in {"FreeStorage", "CleanUpManager"})
    <3> DEFINE one == Append(cleanups, <<m, "FreeStorage">>)
    <3>1. /\ cleanups \in Seq(Managers \X Functions) /\ Once(cleanups) /\ Ordered(cleanups)
          /\ ~In(cleanups, <<m, "FreeStorage">>) /\ ~In(cleanups, <<m, "CleanUpManager">>)
      BY <2>3 DEF IInv, TypeOK, Pending
    <3>2. /\ <<m, "FreeStorage">> \in Managers \X Functions
          /\ <<m, "CleanUpManager">> \in Managers \X Functions
          /\ \A n : <<m, "FreeStorage">> # <<n, "mutex">> /\ <<m, "CleanUpManager">> # <<n, "mutex">>
          /\ <<m, "CleanUpManager">> # <<m, "FreeStorage">>
      BY DEF Functions
    <3>3. /\ one \in Seq(Managers \X Functions) /\ Once(one) /\ Ordered(one)
          /\ \A d : In(one, d) <=> In(cleanups, d) \/ d = <<m, "FreeStorage">>
      BY <3>1, <3>2, AddOne
    <3>4. cleanups' = Append(one, <<m, "CleanUpManager">>) /\ ~In(one, <<m, "CleanUpManager">>)
      BY <2>1, <3>1, <3>2, <3>3
    <3> HIDE DEF one
    <3>5. /\ Once(cleanups)' /\ Ordered(cleanups)'
          /\ \A d : In(cleanups', d) <=> In(one, d) \/ d = <<m, "CleanUpManager">>
      BY <3>2, <3>3, <3>4, AddOne
    <3>6. \A n, g : Pending(n, g)' <=> In(cleanups', <<n, g>>)
      BY DEF Pending
    <3> QED
      BY <3>3, <3>5, <3>6 DEF Pending
  <2>5. StepInv(m)'
    BY <2>1, <2>2, <2>3 DEF StepInv, Registered
  <2>6. PoolInv(m)'
    <3>1. /\ Registered(m)' /\ ~Pending(m, "newmutex")'
          /\ Pending(m, "FreeStorage")' /\ Pending(m, "CleanUpManager")'
      BY <2>2, <2>3, <2>4 DEF Registered
    <3>2. /\ failures'[m] = {} /\ held'[m] = Whole /\ live'[m] = Whole /\ again'[m] = {}
      BY <2>1, <2>3
    <3> QED
      BY <2>2, <3>1, <3>2 DEF PoolInv, Whole, Mutexes
  <2>7. MutexInv(m)'
    <3>1. MutexInv(m) /\ live'[m] = live[m]
      BY <2>1 DEF IInv
    <3> QED
      BY <2>4, <3>1 DEF MutexInv
  <2> QED
    BY <2>2, <2>4, <2>5, <2>6, <2>7, OneManager
<1> QED
  BY <1>1, <1>2

\* While the pool is not cleared the cleanups of what is made are pending.
LEMMA Made ==
  ASSUME NEW m \in Managers, IInv, at[m] = "made"
  PROVE  /\ ~cleared /\ failures[m] = {} /\ again[m] = {} /\ held[m] = Whole /\ live[m] = Whole
         /\ Pending(m, "FreeStorage") /\ Pending(m, "CleanUpManager")
         /\ Pending(m, "mutex") /\ ~Pending(m, "newmutex")
<1>1. /\ ~cleared /\ failures[m] = {} /\ Registered(m) /\ held[m] = Whole /\ live[m] = Whole
  BY NotCleared DEF IInv, StepInv, Registered
<1>2. PoolInv(m) /\ MutexInv(m)
  BY DEF IInv
<1>3. /\ again[m] = {} /\ ~Pending(m, "newmutex")
      /\ Pending(m, "FreeStorage") /\ Pending(m, "CleanUpManager")
  BY <1>1, <1>2 DEF PoolInv, Whole
<1>4. Pending(m, "mutex")
  BY <1>1, <1>2 DEF MutexInv, Mutexes, Whole
<1> QED
  BY <1>1, <1>3, <1>4

LEMMA PostConfigureStep ==
  ASSUME NEW m \in Managers, IInv, TypeOK', PostConfigureGlobalStorage(m)
  PROVE  IInv'
<1>1. /\ ~cleared /\ failures[m] = {} /\ again[m] = {} /\ held[m] = Whole /\ live[m] = Whole
      /\ Pending(m, "FreeStorage") /\ Pending(m, "CleanUpManager")
      /\ Pending(m, "mutex") /\ ~Pending(m, "newmutex") /\ at[m] = "made"
  BY Made DEF PostConfigureGlobalStorage
<1>2. /\ at'[m] \in {"ready", "failed"}
      /\ at'[m] = "ready" => failures'[m] = {}
      /\ at'[m] = "failed" => \E call \in {"instance", "newmutex", "init"} : failures'[m] = {call}
  BY <1>1 DEF IInv, TypeOK, PostConfigureGlobalStorage, Goto, Failed
<1>3. OthersKept(m) /\ again' = again
  BY <1>1 DEF IInv, TypeOK, PostConfigureGlobalStorage, Acquire, Goto, Failed, OthersKept
<1>4. Registered(m)' /\ "child" \notin failures'[m]
  BY <1>2 DEF Registered, Late
<1>5. StepInv(m)'
  BY <1>2, <1>4 DEF StepInv
<1>6. CASE cleanups' = cleanups
  <2>1. held'[m] \in {Whole, Whole \cup {"instance"}} /\ live'[m] = held'[m]
    <3>1. Len(cleanups) \in Nat /\ Len(Append(cleanups, <<m, "newmutex">>)) = Len(cleanups) + 1
      BY <1>6 DEF IInv, TypeOK
    <3>2. cleanups' # Append(cleanups, <<m, "newmutex">>)
      BY <1>6, <3>1
    <3>3. \/ UNCHANGED <<held, live>>
          \/ Acquire(m, "instance")
      BY <3>2 DEF PostConfigureGlobalStorage
    <3>4. CASE UNCHANGED <<held, live>>
      BY <1>1, <3>4
    <3>5. CASE Acquire(m, "instance")
      <4>1. held'[m] = held[m] \cup {"instance"} /\ live'[m] = live[m] \cup {"instance"}
        BY <3>5 DEF IInv, TypeOK, Acquire
      <4> QED
        BY <1>1, <4>1
    <3> QED
      BY <3>3, <3>4, <3>5
  <2>2. \A g : Pending(m, g)' <=> Pending(m, g)
    BY <1>6 DEF Pending
  <2>3. PoolInv(m)'
    BY <1>1, <1>2, <1>3, <1>4, <2>1, <2>2 DEF PoolInv, Whole, Mutexes
  <2>4. MutexInv(m)'
    BY <1>1, <2>1, <2>2 DEF MutexInv, Mutexes, Whole
  <2> QED
    BY <1>3, <1>5, <1>6, <2>3, <2>4, NoCleanup
<1>7. CASE cleanups' # cleanups
  <2>1. /\ cleanups' = Append(cleanups, <<m, "newmutex">>)
        /\ held'[m] = (Whole \ {"mutex"}) \cup {"instance", "newmutex"}
        /\ live'[m] = Whole \cup {"instance", "newmutex"}
    BY <1>1, <1>7 DEF IInv, TypeOK, PostConfigureGlobalStorage
  <2>2. "newmutex" \in Functions
    BY DEF Functions, Mutexes
  <2>3. /\ Once(cleanups)' /\ Ordered(cleanups)'
        /\ \A n, g : Pending(n, g)' <=> Pending(n, g) \/ (n = m /\ g = "newmutex")
    BY <1>1, <2>1, <2>2, Registering
  <2>4. PoolInv(m)'
    BY <1>1, <1>2, <1>3, <1>4, <2>1, <2>3 DEF PoolInv, Whole, Mutexes
  <2>5. MutexInv(m)'
    BY <1>1, <2>1, <2>3 DEF MutexInv, Mutexes
  <2> QED
    BY <1>3, <1>5, <2>3, <2>4, <2>5, OneManager
<1> QED
  BY <1>6, <1>7

LEMMA ChildInitStep ==
  ASSUME NEW m \in Managers, IInv, TypeOK', ChildInit(m)
  PROVE  IInv'
<1>1. /\ ~cleared /\ failures[m] = {} /\ again[m] = {} /\ held[m] = Whole /\ live[m] = Whole
      /\ Pending(m, "FreeStorage") /\ Pending(m, "CleanUpManager")
      /\ Pending(m, "mutex") /\ ~Pending(m, "newmutex") /\ at[m] = "made"
  BY Made DEF ChildInit
<1>2. /\ held' = held /\ cleanups' = cleanups
      /\ \/ /\ at'[m] = "ready" /\ failures'[m] = {} /\ live'[m] = Whole /\ again'[m] = {}
         \/ /\ at'[m] = "failed" /\ failures'[m] = {"child"}
            /\ live'[m] = Whole \ {"manager"} /\ again'[m] = {}
  BY <1>1 DEF IInv, TypeOK, ChildInit, Free, Goto, Failed, Whole
<1>3. OthersKept(m)
  BY <1>1 DEF IInv, TypeOK, ChildInit, Free, Goto, Failed, OthersKept
<1>4. Registered(m)'
  BY <1>2 DEF Registered, Late
<1>5. \A g : Pending(m, g)' <=> Pending(m, g)
  BY <1>2 DEF Pending
<1>6. StepInv(m)'
  BY <1>2, <1>4 DEF StepInv
<1>7. PoolInv(m)'
  BY <1>1, <1>2, <1>4, <1>5 DEF PoolInv, Whole, Mutexes
<1>8. MutexInv(m)'
  BY <1>1, <1>2, <1>5 DEF MutexInv, Whole, Mutexes
<1> QED
  BY <1>2, <1>3, <1>6, <1>7, <1>8, NoCleanup

\* A step that at most says that the pool is cleared.
LEMMA Unchanged ==
  ASSUME IInv, TypeOK', ClearedInv', UNCHANGED <<at, held, live, again, failures, cleanups>>,
         cleared => cleared'
  PROVE  IInv'
<1>1. Once(cleanups)' /\ Ordered(cleanups)'
  BY DEF IInv
<1>2. \A m, f : Pending(m, f)' <=> Pending(m, f)
  BY DEF Pending
<1>3. ASSUME NEW m \in Managers PROVE StepInv(m)' /\ PoolInv(m)' /\ MutexInv(m)'
  <2>1. Registered(m)' <=> Registered(m)
    BY DEF Registered
  <2>2. StepInv(m)'
    BY <2>1 DEF IInv, StepInv
  <2>3. PoolInv(m)'
    BY <1>2, <2>1 DEF IInv, PoolInv
  <2>4. MutexInv(m)'
    BY <1>2 DEF IInv, MutexInv
  <2> QED
    BY <2>2, <2>3, <2>4
<1> QED
  BY <1>1, <1>3 DEF IInv

LEMMA ClearPoolStep ==
  ASSUME IInv, TypeOK', ClearPool
  PROVE  IInv'
<1>1. ClearedInv'
  BY DEF ClearPool, ClearedInv
<1> QED
  BY <1>1, Unchanged DEF ClearPool

LEMMA RunCleanupStep ==
  ASSUME IInv, TypeOK', RunCleanup
  PROVE  IInv'
<1>1. /\ cleared /\ cleanups # <<>> /\ cleanups \in Seq(Managers \X Functions)
      /\ Once(cleanups) /\ Ordered(cleanups)
      /\ cleanups' = SubSeq(cleanups, 1, Len(cleanups) - 1)
      /\ UNCHANGED <<at, held, failures, cleared>>
  BY DEF RunCleanup, IInv, TypeOK
<1>2. cleanups[Len(cleanups)] \in Managers \X Functions
  BY <1>1
<1>3. PICK m \in Managers, f \in Functions : cleanups[Len(cleanups)] = <<m, f>>
  BY <1>2
<1>4. /\ Once(cleanups)' /\ Ordered(cleanups)'
      /\ Pending(m, f) /\ ~Pending(m, f)'
      /\ \A n, g : <<n, g>> # <<m, f>> => (Pending(n, g)' <=> Pending(n, g))
      /\ f = "mutex" => ~Pending(m, "FreeStorage")
  <2>1. /\ Once(cleanups)' /\ Ordered(cleanups)'
        /\ In(cleanups, <<m, f>>) /\ ~In(cleanups', <<m, f>>)
        /\ \A d : d # <<m, f>> => (In(cleanups', d) <=> In(cleanups, d))
        /\ \A n \in Managers : <<m, f>> = <<n, "mutex">> => ~In(cleanups, <<n, "FreeStorage">>)
    BY <1>1, <1>3, DropLast
  <2>2. \A n, g : Pending(n, g)' <=> In(cleanups', <<n, g>>)
    BY DEF Pending
  <2> QED
    BY <2>1, <2>2 DEF Pending
<1>5. f \in {"FreeStorage", "CleanUpManager", "mutex", "newmutex"}
  BY DEF Functions, Mutexes
<1>6. \/ f = "FreeStorage" /\ Free(m, held[m] \ {"manager"})
      \/ f = "CleanUpManager" /\ Free(m, {"manager"})
      \/ f \in Mutexes /\ live' = [live EXCEPT ![m] = @ \ {f}] /\ again' = again
  BY <1>3 DEF RunCleanup
<1>7. \A n \in Managers : Registered(n)' <=> Registered(n)
  BY <1>1 DEF Registered
<1>8. ClearedInv'
  BY <1>1 DEF IInv, ClearedInv
<1>9. /\ live'[m] \subseteq live[m]
      /\ \A n \in Managers \ {m} : live'[n] = live[n] /\ again'[n] = again[n]
  BY <1>6 DEF IInv, TypeOK, Free
<1>10. StepInv(m) /\ PoolInv(m) /\ MutexInv(m) /\ at[m] \in {"manager", "ready", "failed"}
  BY <1>1 DEF IInv, ClearedInv
<1>11. at[m] # "manager"
  <2> SUFFICES ASSUME at[m] = "manager" PROVE FALSE
    OBVIOUS
  <2>1. /\ ~Registered(m) /\ ~Pending(m, "FreeStorage") /\ ~Pending(m, "CleanUpManager")
        /\ ~Pending(m, "mutex") /\ ~Pending(m, "newmutex")
    BY <1>10 DEF PoolInv, Registered
  <2> QED
    BY <1>4, <1>5, <2>1
<1>12. StepInv(m)'
  <2>1. at'[m] \in {"ready", "failed"} /\ (at'[m] = "failed" /\ ~Registered(m)' => live'[m] = {})
    BY <1>1, <1>7, <1>9, <1>10, <1>11 DEF StepInv
  <2>2. /\ at'[m] = "ready" => failures'[m] = {}
        /\ at'[m] # "failed" => failures'[m] \cap Late = {}
    BY <1>1, <1>10 DEF StepInv
  <2> QED
    BY <2>1, <2>2 DEF StepInv
<1>13. MutexInv(m)'
  <2> SUFFICES ASSUME NEW x \in Mutexes, x \in live'[m] PROVE Pending(m, x)'
    BY DEF MutexInv
  <2>1. Pending(m, x)
    BY <1>9, <1>10 DEF MutexInv
  <2>2. f # x
    BY <1>6 DEF IInv, TypeOK, Mutexes
  <2> QED
    BY <1>4, <2>1, <2>2
<1>14. PoolInv(m)'
  <2> DEFINE P(g) == Pending(m, g)
  <2>1. /\ P("FreeStorage")' <=> P("FreeStorage") /\ f # "FreeStorage"
        /\ P("CleanUpManager")' <=> P("CleanUpManager") /\ f # "CleanUpManager"
        /\ ~P("newmutex") => ~P("newmutex")'
    BY <1>4
  <2>2. CASE ~Registered(m)
    <3>1. f \in Mutexes /\ again' = again
      BY <1>4, <1>6, <1>10, <2>2 DEF PoolInv
    <3> QED
      BY <1>1, <1>7, <1>10, <1>11, <2>1, <2>2, <3>1 DEF PoolInv
  <2>3. CASE Registered(m) /\ f = "FreeStorage"
    <3>1. /\ live'[m] = live[m] \ (held[m] \ {"manager"})
          /\ again'[m] = again[m] \cup ((held[m] \ {"manager"}) \ live[m])
          /\ P("FreeStorage")
      BY <1>4, <1>6, <2>3 DEF IInv, TypeOK, Free, Mutexes
    <3>2. (held[m] \ {"manager"}) \ live[m] \subseteq held[m] \cap {"newmutex"}
      BY <1>10, <2>3, <3>1 DEF PoolInv
    <3> QED
      BY <1>1, <1>7, <1>10, <1>11, <2>1, <2>3, <3>1, <3>2 DEF PoolInv, Whole
  <2>4. CASE Registered(m) /\ f = "CleanUpManager"
    <3>1. /\ live'[m] = live[m] \ {"manager"}
          /\ again'[m] = again[m] \cup ({"manager"} \ live[m])
          /\ P("CleanUpManager")
      BY <1>4, <1>6, <2>4 DEF IInv, TypeOK, Free, Mutexes
    <3>2. {"manager"} \ live[m] \subseteq IF "child" \in failures[m] THEN {"manager"} ELSE {}
      BY <1>10, <2>4, <3>1 DEF PoolInv
    <3> QED
      BY <1>1, <1>7, <1>10, <1>11, <2>1, <2>4, <3>1, <3>2 DEF PoolInv, Whole
  <2>5. CASE Registered(m) /\ f \in Mutexes
    <3>1. live'[m] = live[m] \ {f} /\ again'[m] = again[m]
      BY <1>6, <2>5 DEF IInv, TypeOK, Mutexes
    <3>2. P("FreeStorage") => f = "newmutex"
      BY <1>4, <2>5 DEF Mutexes
    <3> QED
      BY <1>1, <1>7, <1>10, <1>11, <2>1, <2>5, <3>1, <3>2 DEF PoolInv, Whole, Mutexes
  <2> QED
    BY <1>5, <2>2, <2>3, <2>4, <2>5 DEF Mutexes
<1>15. ASSUME NEW n \in Managers \ {m} PROVE StepInv(n)' /\ PoolInv(n)' /\ MutexInv(n)'
  <2>1. /\ live'[n] = live[n] /\ again'[n] = again[n]
        /\ \A g : Pending(n, g)' <=> Pending(n, g)
    BY <1>4, <1>9
  <2>2. StepInv(n) /\ PoolInv(n) /\ MutexInv(n)
    BY DEF IInv
  <2>3. StepInv(n)'
    BY <1>1, <1>7, <2>1, <2>2 DEF StepInv
  <2>4. PoolInv(n)'
    BY <1>1, <1>7, <2>1, <2>2 DEF PoolInv
  <2>5. MutexInv(n)'
    BY <2>1, <2>2 DEF MutexInv
  <2> QED
    BY <2>3, <2>4, <2>5
<1> QED
  BY <1>4, <1>8, <1>12, <1>13, <1>14, <1>15 DEF IInv

LEMMA NextIInv == IInv /\ [Next]_vars => IInv'
<1> SUFFICES ASSUME IInv, [Next]_vars PROVE IInv'
  OBVIOUS
<1> TypeOK'
  BY TypeNext DEF IInv
<1>1. CASE UNCHANGED vars
  BY <1>1, Unchanged DEF vars, IInv, ClearedInv
<1>2. ASSUME NEW m \in Managers, SetUp(m) PROVE IInv'
  BY <1>2, BuildStep, UndoStep, InitMutexStep, InitHashStep, PostConfigureStep, ChildInitStep DEF SetUp
<1> QED
  BY <1>1, <1>2, ClearPoolStep, RunCleanupStep DEF Next

LEMMA SpecIInv == Spec => []IInv
BY InitIInv, NextIInv, PTL DEF Spec

-----------------------------------------------------------------------------
\* Setting up managers, undoing a set up that fails and clearing the pool keep what the
\* structs point to, what exists, and the list of cleanups within their types.
THEOREM TypeCorrect == Spec => []TypeOK
<1>1. IInv => TypeOK
  BY DEF IInv
<1> QED
  BY <1>1, SpecIInv, PTL

\* Whichever of the calls that set up a manager fail, neither the error path nor the
\* cleanups of the pool, those of its mutexes included, free a thing twice, but for the
\* segment when the hash could not be made, the manager of a child that could not attach to
\* the mutex, and the mutex of PostConfigureGlobalStorage, which pool and storage destroy.
THEOREM FreedOnceHolds == Spec => []FreedOnce
<1>1. IInv => FreedOnce
  <2> SUFFICES ASSUME IInv, NEW m \in Managers
               PROVE  again[m] \subseteq (IF "hash" \in failures[m] THEN {"segment"} ELSE {})
                                   \cup (IF "child" \in failures[m] THEN {"manager"} ELSE {})
                                   \cup (held[m] \cap {"newmutex"})
    BY DEF FreedOnce
  <2> QED
    BY DEF IInv, PoolInv
<1> QED
  BY <1>1, SpecIInv, PTL

\* When httpd has cleared the pool and its cleanups have run, nothing that setting up a
\* manager acquired is left, whether or not it succeeded.
THEOREM NothingLeaksHolds == Spec => []NothingLeaks
<1>1. IInv => NothingLeaks
  <2> SUFFICES ASSUME IInv, cleared, cleanups = <<>>, NEW m \in Managers PROVE live[m] = {}
    BY DEF NothingLeaks
  <2>1. \A f : ~Pending(m, f)
    BY DEF Pending, In
  <2>2. at[m] \in {"manager", "ready", "failed"} /\ StepInv(m) /\ PoolInv(m)
    BY DEF IInv, ClearedInv
  <2>3. CASE Registered(m)
    <3>1. live[m] \ Mutexes = {}
      BY <2>1, <2>2, <2>3 DEF PoolInv
    <3>2. \A x \in Mutexes : x \notin live[m]
      BY <2>1 DEF IInv, MutexInv
    <3> QED
      BY <3>1, <3>2
  <2>4. CASE ~Registered(m)
    BY <2>2, <2>4 DEF StepInv, Registered
  <2> QED
    BY <2>3, <2>4
<1> QED
  BY <1>1, SpecIInv, PTL
=============================================================================
