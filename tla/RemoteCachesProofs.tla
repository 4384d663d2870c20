------------------------- MODULE RemoteCachesProofs -------------------------
(***************************************************************************)
(* Proofs about RemoteCaches: what the caches say is as recent as their    *)
(* times to live promise, for any goroutines, keys and times to live.      *)
(*                                                                         *)
(* A cache younger than its time to live is no younger than what it says:  *)
(* the age of the fact is at most the age of the entry, both grow with the *)
(* same ticks, and only the holder of the write lock resets the latter,    *)
(* with a fact of that moment.                                             *)
(***************************************************************************)
EXTENDS RemoteCaches, TLAPS

USE CachesAssumption DEF CachesAssumption

\* A request has a question, and a write lock is held during a call and at no other time.
\* (health.go:75-89, validator.go:132-133)
LocksAreForCalls ==
    \A g \in Goroutines :
        /\ at[g] # "idle" => asks[g] \in Questions
        /\ at[g] = "calling" /\ asks[g] = Check <=> writer["sqs"] = g
        /\ at[g] = "calling" /\ asks[g] # Check <=> writer["jwks"] = g

\* What holds now has no age, and what a cache remembers is no older than the cache.
\* (health.go:83-84, validator.go:160-171)
FactsAreRecent ==
    /\ available => upAge = 0
    /\ ~available => troubleAge = 0
    /\ \A k \in served \cap Kids : servedAge[k] = 0
    /\ checkAge <= CheckTTL => 
          IF lastSQSErr = "nil" THEN upAge <= checkAge ELSE troubleAge <= checkAge
    /\ fetchAge < KeyTTL => \A k \in keys : servedAge[k] <= fetchAge

\* A check is under way only while the last one is too old. (health.go:77)
ChecksAreDue == writer["sqs"] # Nobody => checkAge > CheckTTL

CachesInv == TypeOK /\ LocksAreForCalls /\ FactsAreRecent /\ ChecksAreDue

-----------------------------------------------------------------------------
\* Initially the caches are too old to be used and every lock is free.
LEMMA InitInv == Init => CachesInv
  BY DEF Init, CachesInv, TypeOK, LocksAreForCalls, FactsAreRecent, ChecksAreDue, Questions, Errors

\* Facts and cache entries grow older together.
LEMMA TickInv == CachesInv /\ Tick => CachesInv'
  <1> SUFFICES ASSUME CachesInv, Tick PROVE CachesInv'
    OBVIOUS
  <1>1. TypeOK'
    BY DEF CachesInv, TypeOK, Tick, Older, requestVars
  <1>2. LocksAreForCalls'
    BY DEF CachesInv, LocksAreForCalls, Tick, requestVars
  <1>3. FactsAreRecent'
    BY DEF CachesInv, TypeOK, FactsAreRecent, Tick, Older, requestVars
  <1>4. ChecksAreDue'
    BY DEF CachesInv, TypeOK, ChecksAreDue, Tick, Older, requestVars
  <1> QED
    BY <1>1, <1>2, <1>3, <1>4 DEF CachesInv

\* A change of a remote system leaves the caches alone.
LEMMA RemoteInv == CachesInv /\ (SwitchSqs \/ RotateKeys) => CachesInv'
  <1> SUFFICES ASSUME CachesInv, SwitchSqs \/ RotateKeys PROVE CachesInv'
    OBVIOUS
  <1> USE DEF requestVars, checkVars, keyVars
  <1>1. CASE SwitchSqs
    <2>1. TypeOK' /\ LocksAreForCalls' /\ ChecksAreDue'
      BY <1>1 DEF CachesInv, TypeOK, LocksAreForCalls, ChecksAreDue, SwitchSqs
    <2>2. FactsAreRecent'
      BY <1>1 DEF CachesInv, TypeOK, FactsAreRecent, SwitchSqs
    <2> QED
      BY <2>1, <2>2 DEF CachesInv
  <1>2. CASE RotateKeys
    <2>1. TypeOK' /\ LocksAreForCalls' /\ ChecksAreDue'
      BY <1>2 DEF CachesInv, TypeOK, LocksAreForCalls, ChecksAreDue, RotateKeys
    <2>2. FactsAreRecent'
      BY <1>2 DEF CachesInv, TypeOK, FactsAreRecent, RotateKeys
    <2> QED
      BY <2>1, <2>2 DEF CachesInv
  <1> QED
    BY <1>1, <1>2

\* A step that calls no remote system moves one goroutine and takes a free lock at most.
LEMMA LookInv ==
    ASSUME NEW g \in Goroutines,
           \/ \E q \in Questions : Ask(g, q)
           \/ DatabaseDown(g) \/ Look(g) \/ Lock(g),
           CachesInv
    PROVE  CachesInv'
  <1> USE DEF requestVars, checkVars, keyVars, remoteVars, GiveAnswer, GoTo, Free, Answers, Errors
  <1>1. UNCHANGED <<checkVars, keyVars, remoteVars>>
    BY DEF Ask, DatabaseDown, Look, ReadCheck, ReadKey, Lock, LockCheck, LockKeys
  <1>2. FactsAreRecent'
    BY <1>1 DEF CachesInv, FactsAreRecent
  <1>3. ASSUME NEW q \in Questions, Ask(g, q)
        PROVE  TypeOK' /\ LocksAreForCalls' /\ ChecksAreDue'
    BY <1>3 DEF CachesInv, TypeOK, LocksAreForCalls, ChecksAreDue, Ask, Questions
  <1>4. CASE DatabaseDown(g)
    BY <1>2, <1>4 DEF CachesInv, TypeOK, LocksAreForCalls, ChecksAreDue, DatabaseDown, Questions
  <1>5. CASE ReadCheck(g)
    BY <1>2, <1>5 DEF CachesInv, TypeOK, LocksAreForCalls, ChecksAreDue, ReadCheck, Readiness, Questions
  <1>6. CASE ReadKey(g)
    BY <1>2, <1>6 DEF CachesInv, TypeOK, LocksAreForCalls, ChecksAreDue, ReadKey, KeyAnswer, Questions
  <1>7. CASE LockCheck(g)
    <2>1. TypeOK'
      BY <1>7 DEF CachesInv, TypeOK, LockCheck, Readiness, Questions
    <2>2. LocksAreForCalls'
      BY <1>7 DEF CachesInv, TypeOK, LocksAreForCalls, LockCheck, Questions
    <2>3. ChecksAreDue'
      BY <1>7 DEF CachesInv, TypeOK, ChecksAreDue, LockCheck, Expired
    <2> QED
      BY <1>2, <2>1, <2>2, <2>3 DEF CachesInv
  <1>8. CASE LockKeys(g)
    <2>1. TypeOK'
      BY <1>8 DEF CachesInv, TypeOK, LockKeys, KeyAnswer, Questions
    <2>2. LocksAreForCalls'
      BY <1>8 DEF CachesInv, TypeOK, LocksAreForCalls, LockKeys, Questions
    <2>3. ChecksAreDue'
      BY <1>8 DEF CachesInv, TypeOK, ChecksAreDue, LockKeys
    <2> QED
      BY <1>2, <2>1, <2>2, <2>3 DEF CachesInv
  <1> QED
    BY <1>2, <1>3, <1>4, <1>5, <1>6, <1>7, <1>8 DEF CachesInv, Look, Lock

\* The end of a call stores a fact of this moment and releases the lock.
LEMMA ReturnInv ==
    ASSUME NEW g \in Goroutines, Return(g), CachesInv
    PROVE  CachesInv'
  <1> USE DEF requestVars, checkVars, keyVars, remoteVars, GiveAnswer, Unlock, Answers, Errors
  <1>1. CASE ListQueues(g)
    <2>1. TypeOK'
      BY <1>1 DEF CachesInv, TypeOK, ListQueues, Readiness, Questions
    <2>2. LocksAreForCalls'
      BY <1>1 DEF CachesInv, TypeOK, LocksAreForCalls, ListQueues, Questions
    <2>3. FactsAreRecent'
      BY <1>1 DEF CachesInv, TypeOK, FactsAreRecent, ListQueues
    <2>4. ChecksAreDue'
      BY <1>1 DEF CachesInv, TypeOK, ChecksAreDue, ListQueues
    <2> QED
      BY <2>1, <2>2, <2>3, <2>4 DEF CachesInv
  <1>2. CASE FetchFails(g)
    <2>1. TypeOK' /\ FactsAreRecent' /\ ChecksAreDue'
      BY <1>2 DEF CachesInv, TypeOK, FactsAreRecent, ChecksAreDue, FetchFails, Questions
    <2>2. LocksAreForCalls'
      BY <1>2 DEF CachesInv, TypeOK, LocksAreForCalls, FetchFails, Questions
    <2> QED
      BY <2>1, <2>2 DEF CachesInv
  <1>3. CASE StoreKeys(g)
    <2>1. TypeOK'
      BY <1>3 DEF CachesInv, TypeOK, StoreKeys, KeyAnswer, Usable, Questions
    <2>2. LocksAreForCalls'
      BY <1>3 DEF CachesInv, TypeOK, LocksAreForCalls, StoreKeys, Questions
    <2>3. FactsAreRecent' /\ ChecksAreDue'
      BY <1>3 DEF CachesInv, TypeOK, FactsAreRecent, ChecksAreDue, StoreKeys, Usable
    <2> QED
      BY <2>1, <2>2, <2>3 DEF CachesInv
  <1> QED
    BY <1>1, <1>2, <1>3 DEF Return

\* The inductive invariant holds in every reachable state. (health.go:52-113,
\* validator.go:122-178)
THEOREM CachesInvariant == Spec => []CachesInv
  <1>1. CachesInv /\ [Next]_vars => CachesInv'
    <2> SUFFICES ASSUME CachesInv, [Next]_vars PROVE CachesInv'
      OBVIOUS
    <2>1. CASE UNCHANGED vars
      BY <2>1 DEF vars, requestVars, checkVars, keyVars, remoteVars, CachesInv, TypeOK,
                  LocksAreForCalls, FactsAreRecent, ChecksAreDue
    <2>2. CASE Next
      BY <2>2, TickInv, RemoteInv, LookInv, ReturnInv DEF Next
    <2> QED
      BY <2>1, <2>2
  <1> QED
    BY <1>1, InitInv, PTL DEF Spec

-----------------------------------------------------------------------------
\* The caches and the requests are of their types: only RSA keys that parse are kept.
\* (health.go:20-28, validator.go:160-170)
THEOREM CachesTypes == Spec => []TypeOK
  BY CachesInvariant, PTL DEF CachesInv

\* What a step of the caches may answer: one fact per goroutine that answers.
LEMMA AnswersAreRecent ==
    ASSUME CachesInv, [Next]_vars, NEW g \in Goroutines
    PROVE  /\ Answered(g, "up") => upAge <= CheckTTL
           /\ Answered(g, "down") => troubleAge' <= CheckTTL
           /\ Answered(g, "accepted") => asks[g] \in Kids /\ servedAge[asks[g]] < KeyTTL
           /\ Answered(g, "unknown") => asks[g] \notin served \cap Kids
           /\ asks[g] = Check /\ at[g] = "calling" /\ at'[g] = "idle" => checkAge > CheckTTL
  <1> USE DEF requestVars, checkVars, keyVars, remoteVars, GiveAnswer, GoTo, Answered
  <1>1. CASE UNCHANGED at
    BY <1>1
  <1>2. ASSUME NEW f \in Goroutines,
               \/ \E q \in Questions : Ask(f, q)
               \/ DatabaseDown(f) \/ Look(f) \/ Lock(f) \/ Return(f)
        PROVE  f = g \/ at'[g] = at[g]
    BY <1>2 DEF CachesInv, TypeOK, Ask, DatabaseDown, Look, ReadCheck, ReadKey, Lock, LockCheck,
                LockKeys, Return, ListQueues, FetchFails, StoreKeys
  <1>3. CASE (\E q \in Questions : Ask(g, q)) \/ DatabaseDown(g)
    BY <1>3 DEF CachesInv, TypeOK, Ask, DatabaseDown
  <1>4. CASE ReadCheck(g) \/ LockCheck(g)
    BY <1>4 DEF CachesInv, TypeOK, FactsAreRecent, ReadCheck, LockCheck, Expired, Readiness
  <1>5. CASE ReadKey(g) \/ LockKeys(g)
    BY <1>5 DEF CachesInv, TypeOK, FactsAreRecent, ReadKey, LockKeys, Cached, KeyAnswer
  <1>6. CASE ListQueues(g)
    BY <1>6 DEF CachesInv, TypeOK, LocksAreForCalls, FactsAreRecent, ChecksAreDue, ListQueues,
                Readiness
  <1>7. CASE FetchFails(g)
    BY <1>7 DEF CachesInv, TypeOK, FetchFails
  <1>8. CASE StoreKeys(g)
    BY <1>8 DEF CachesInv, TypeOK, FactsAreRecent, StoreKeys, KeyAnswer, Usable
  <1>9. CASE Tick \/ SwitchSqs \/ RotateKeys
    BY <1>1, <1>9 DEF Tick, SwitchSqs, RotateKeys
  <1> QED
    BY <1>1, <1>2, <1>3, <1>4, <1>5, <1>6, <1>7, <1>8, <1>9 DEF Next, Look, Lock, Return, vars

\* A probe reports what was true of SQS within the time to live. (health.go:68-101)
THEOREM ReadinessStaysRecent == Spec => ReadinessIsRecent
  <1>1. CachesInv /\ [Next]_vars =>
           [\A g \in Goroutines :
               /\ Answered(g, "up") => upAge <= CheckTTL
               /\ Answered(g, "down") => troubleAge' <= CheckTTL]_vars
    BY AnswersAreRecent
  <1> QED
    BY <1>1, CachesInvariant, PTL DEF Spec, ReadinessIsRecent

\* A key is accepted within the time to live of its listing, and a listed one is known.
\* (validator.go:122-178)
THEOREM KeysAlwaysFollowProvider == Spec => KeysFollowProvider
  <1>1. CachesInv /\ [Next]_vars =>
           [\A g \in Goroutines :
               /\ Answered(g, "accepted") => asks[g] \in Kids /\ servedAge[asks[g]] < KeyTTL
               /\ Answered(g, "unknown") => asks[g] \notin served \cap Kids]_vars
    BY AnswersAreRecent
  <1> QED
    BY <1>1, CachesInvariant, PTL DEF Spec, KeysFollowProvider

\* Two checks of SQS end further apart than the time to live, for any number of probes.
\* (health.go:68-89)
THEOREM ChecksStaySpaced == Spec => ChecksAreSpaced
  <1>1. CachesInv /\ [Next]_vars =>
           [\A g \in Goroutines :
               asks[g] = Check /\ at[g] = "calling" /\ at'[g] = "idle"
                  => checkAge > CheckTTL]_vars
    BY AnswersAreRecent
  <1> QED
    BY <1>1, CachesInvariant, PTL DEF Spec, ChecksAreSpaced

=============================================================================
