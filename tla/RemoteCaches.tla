---------------------------- MODULE RemoteCaches ----------------------------
(***************************************************************************)
(* What an instance remembers of remote systems, each under a read-write   *)
(* lock that its HTTP goroutines share: the result of the last check of    *)
(* SQS, which the readiness probe answers from, and the signing keys of    *)
(* the identity provider, which the validation of a token looks up.        *)
(*                                                                         *)
(* A goroutine looks under the read lock, and if that does not do, again   *)
(* under the write lock, which it keeps while it calls the remote system.  *)
(* A step under the read lock is atomic.  Ages are counted in ticks, each  *)
(* longer than a call may take, up to the age from which more makes no     *)
(* difference; an answer travels in no time.                               *)
(***************************************************************************)
EXTENDS Integers

CONSTANTS
    Goroutines,    \* goroutines serving HTTP requests
    Nobody,        \* the holder of a free lock
    None,          \* no question, no answer
    Check,         \* the question of a readiness probe
    Kids,          \* key ids of RSA keys; one of them is a token's question
    OtherKids,     \* key ids the provider may list whose keys are not RSA or do not parse
    CheckTTL,      \* sqsCacheTTL, in ticks
    KeyTTL         \* cacheTTL, in ticks

Questions == {Check} \cup Kids \cup OtherKids

ASSUME CachesAssumption ==
    /\ Nobody \notin Goroutines /\ None \notin Questions
    /\ Check \notin Kids \cup OtherKids /\ Kids \cap OtherKids = {}
    /\ CheckTTL \in Nat /\ KeyTTL \in Nat \ {0}

VARIABLES
    asks,          \* goroutine -> its question
    at,            \* goroutine -> where it is
    firstErr,      \* goroutine -> cachedErr, as read under the read lock
    answer,        \* goroutine -> the last answer
    writer,        \* cache -> the holder of its write lock
    lastSQSErr,    \* the error of the last check of SQS, nil if there was none
    checkAge,      \* ticks since lastSQSCheck
    keys,          \* the ids in the key map
    fetchAge,      \* ticks since lastFetch
    available,     \* whether SQS can be reached
    served,        \* the ids the provider lists
    upAge,         \* ticks since SQS could last be reached (history variable)
    troubleAge,    \* ticks since a check could last fail (history variable)
    servedAge      \* RSA key id -> ticks since the provider last listed it (history variable)

requestVars == <<asks, at, firstErr, answer>>
checkVars == <<lastSQSErr, checkAge>>
keyVars == <<keys, fetchAge>>
remoteVars == <<available, served, upAge, troubleAge, servedAge>>
vars == <<requestVars, writer, checkVars, keyVars, remoteVars>>

Errors == {"nil", "error"}

Answers == {"up", "down", "offline", "accepted", "unknown", "failed"}

Init ==
    /\ asks = [g \in Goroutines |-> None]
    /\ at = [g \in Goroutines |-> "idle"]
    /\ firstErr = [g \in Goroutines |-> "nil"]
    /\ answer = [g \in Goroutines |-> None]
    /\ writer = [c \in {"sqs", "jwks"} |-> Nobody]
    /\ lastSQSErr = "nil" /\ checkAge = CheckTTL + 1
    /\ keys = {} /\ fetchAge = KeyTTL
    /\ available \in BOOLEAN /\ served \in SUBSET (Kids \cup OtherKids)
    /\ upAge = IF available THEN 0 ELSE CheckTTL + 1
    /\ troubleAge = IF available THEN CheckTTL + 1 ELSE 0
    /\ servedAge = [k \in Kids |-> IF k \in served THEN 0 ELSE KeyTTL]

TypeOK ==
    /\ asks \in [Goroutines -> Questions \cup {None}]
    /\ at \in [Goroutines -> {"idle", "reading", "locking", "calling"}]
    /\ firstErr \in [Goroutines -> Errors]
    /\ answer \in [Goroutines -> Answers \cup {None}]
    /\ writer \in [{"sqs", "jwks"} -> Goroutines \cup {Nobody}]
    /\ lastSQSErr \in Errors /\ checkAge \in 0 .. CheckTTL + 1
    /\ keys \subseteq Kids /\ fetchAge \in 0 .. KeyTTL
    /\ available \in BOOLEAN /\ served \subseteq Kids \cup OtherKids
    /\ upAge \in 0 .. CheckTTL + 1 /\ troubleAge \in 0 .. CheckTTL + 1
    /\ servedAge \in [Kids -> 0 .. KeyTTL]

-----------------------------------------------------------------------------
(* Time and the remote systems *)

Older(age, limit) == IF age < limit THEN age + 1 ELSE limit

Tick ==
    /\ checkAge' = Older(checkAge, CheckTTL + 1)
    /\ fetchAge' = Older(fetchAge, KeyTTL)
    /\ upAge' = IF available THEN 0 ELSE Older(upAge, CheckTTL + 1)
    /\ troubleAge' = IF available THEN Older(troubleAge, CheckTTL + 1) ELSE 0
    /\ servedAge' = [k \in Kids |-> IF k \in served THEN 0 ELSE Older(servedAge[k], KeyTTL)]
    /\ UNCHANGED <<requestVars, writer, lastSQSErr, keys, available, served>>

SwitchSqs ==
    /\ available' = ~available
    /\ upAge' = 0 /\ troubleAge' = 0
    /\ UNCHANGED <<requestVars, writer, checkVars, keyVars, served, servedAge>>

RotateKeys ==
    /\ served' \in SUBSET (Kids \cup OtherKids)
    /\ servedAge' = [k \in Kids |->
                        IF k \in served \cup served' THEN 0 ELSE servedAge[k]]
    /\ UNCHANGED <<requestVars, writer, checkVars, keyVars, available, upAge, troubleAge>>

-----------------------------------------------------------------------------
(* Requests and locks *)

Ask(g, q) ==
    /\ at[g] = "idle"
    /\ at' = [at EXCEPT ![g] = "reading"]
    /\ asks' = [asks EXCEPT ![g] = q]
    /\ answer' = [answer EXCEPT ![g] = None]
    /\ UNCHANGED <<firstErr, writer, checkVars, keyVars, remoteVars>>

GiveAnswer(g, a) ==
    /\ at' = [at EXCEPT ![g] = "idle"]
    /\ asks' = [asks EXCEPT ![g] = None]
    /\ firstErr' = [firstErr EXCEPT ![g] = "nil"]
    /\ answer' = [answer EXCEPT ![g] = a]

GoTo(g, s) ==
    /\ at' = [at EXCEPT ![g] = s]
    /\ UNCHANGED <<asks, answer>>

Free(c) == writer[c] = Nobody

Unlock(c) == writer' = [writer EXCEPT ![c] = Nobody]

-----------------------------------------------------------------------------
(* HealthHandler.Ready *)

\* SELECT 1 fails.
DatabaseDown(g) ==
    /\ at[g] = "reading" /\ asks[g] = Check
    /\ GiveAnswer(g, "offline")
    /\ UNCHANGED <<writer, checkVars, keyVars, remoteVars>>

Expired == checkAge > CheckTTL

Readiness(err) == IF err = "nil" THEN "up" ELSE "down"

ReadCheck(g) ==
    /\ at[g] = "reading" /\ asks[g] = Check
    /\ Free("sqs")
    /\ IF Expired
       THEN GoTo(g, "locking") /\ firstErr' = [firstErr EXCEPT ![g] = lastSQSErr]
       ELSE GiveAnswer(g, Readiness(lastSQSErr))
    /\ UNCHANGED <<writer, checkVars, keyVars, remoteVars>>

\* Mutant of LockCheck: the result of another's check is not read again.
LockCheckReadOnce(g) ==
    /\ at[g] = "locking" /\ asks[g] = Check
    /\ Free("sqs")
    /\ IF Expired
       THEN GoTo(g, "calling") /\ writer' = [writer EXCEPT !["sqs"] = g] /\ UNCHANGED firstErr
       ELSE GiveAnswer(g, Readiness(firstErr[g])) /\ UNCHANGED writer
    /\ UNCHANGED <<checkVars, keyVars, remoteVars>>

\* Mutant of LockCheck: whoever waited for the lock calls as well.
LockCheckAnyway(g) ==
    /\ at[g] = "locking" /\ asks[g] = Check
    /\ Free("sqs")
    /\ GoTo(g, "calling") /\ writer' = [writer EXCEPT !["sqs"] = g] /\ UNCHANGED firstErr
    /\ UNCHANGED <<checkVars, keyVars, remoteVars>>

\* Another probe may have made the check meanwhile.
LockCheck(g) ==
    /\ at[g] = "locking" /\ asks[g] = Check
    /\ Free("sqs")
    /\ IF Expired
       THEN GoTo(g, "calling") /\ writer' = [writer EXCEPT !["sqs"] = g] /\ UNCHANGED firstErr
       ELSE GiveAnswer(g, Readiness(lastSQSErr)) /\ UNCHANGED writer
    /\ UNCHANGED <<checkVars, keyVars, remoteVars>>

\* ListQueues returns.  It also fails when the probe's own request is cancelled or takes
\* more than two seconds, and that result is kept for the probes to come.
ListQueues(g) ==
    /\ at[g] = "calling" /\ asks[g] = Check
    /\ \/ available /\ lastSQSErr' = "nil" /\ UNCHANGED troubleAge
       \/ lastSQSErr' = "error" /\ troubleAge' = 0
    /\ checkAge' = 0
    /\ GiveAnswer(g, Readiness(lastSQSErr'))
    /\ Unlock("sqs")
    /\ UNCHANGED <<keyVars, available, served, upAge, servedAge>>

-----------------------------------------------------------------------------
(* KeycloakValidator.getKey *)

Cached(k) == k \in keys /\ fetchAge < KeyTTL

KeyAnswer(k, map) == IF k \in map THEN "accepted" ELSE "unknown"

ReadKey(g) ==
    /\ at[g] = "reading" /\ asks[g] # Check
    /\ Free("jwks")
    /\ IF Cached(asks[g]) THEN GiveAnswer(g, KeyAnswer(asks[g], keys))
                          ELSE GoTo(g, "locking") /\ UNCHANGED firstErr
    /\ UNCHANGED <<writer, checkVars, keyVars, remoteVars>>

LockKeys(g) ==
    /\ at[g] = "locking" /\ asks[g] # Check
    /\ Free("jwks")
    /\ IF Cached(asks[g])
       THEN GiveAnswer(g, KeyAnswer(asks[g], keys)) /\ UNCHANGED writer
       ELSE /\ GoTo(g, "calling") /\ UNCHANGED firstErr
            /\ writer' = [writer EXCEPT !["jwks"] = g]
    /\ UNCHANGED <<checkVars, keyVars, remoteVars>>

\* Mutant of FetchFails: the lock is not released.
FetchFailsLocked(g) ==
    /\ at[g] = "calling" /\ asks[g] # Check
    /\ GiveAnswer(g, "failed")
    /\ UNCHANGED <<writer, checkVars, keyVars, remoteVars>>

\* The request is cancelled, the provider does not answer or not with a key set.
FetchFails(g) ==
    /\ at[g] = "calling" /\ asks[g] # Check
    /\ GiveAnswer(g, "failed")
    /\ Unlock("jwks")
    /\ UNCHANGED <<checkVars, keyVars, remoteVars>>

\* Mutant of Usable: every listed key is kept.
UsableAll(listed) == listed

\* Keys that are not RSA or do not parse are skipped.
Usable(listed) == listed \cap Kids

\* Mutant of StoreKeys: the keys of the answer are added to the map.
StoreKeysAdding(g) ==
    /\ at[g] = "calling" /\ asks[g] # Check
    /\ keys' = keys \cup Usable(served) /\ fetchAge' = 0
    /\ GiveAnswer(g, KeyAnswer(asks[g], keys'))
    /\ Unlock("jwks")
    /\ UNCHANGED <<checkVars, remoteVars>>

\* The map is replaced by the keys of the answer.
StoreKeys(g) ==
    /\ at[g] = "calling" /\ asks[g] # Check
    /\ keys' = Usable(served) /\ fetchAge' = 0
    /\ GiveAnswer(g, KeyAnswer(asks[g], keys'))
    /\ Unlock("jwks")
    /\ UNCHANGED <<checkVars, remoteVars>>

-----------------------------------------------------------------------------
Lock(g) == LockCheck(g) \/ LockKeys(g)

Look(g) == ReadCheck(g) \/ ReadKey(g)

Return(g) == ListQueues(g) \/ FetchFails(g) \/ StoreKeys(g)

Next ==
    \/ Tick \/ SwitchSqs \/ RotateKeys
    \/ \E g \in Goroutines :
          \/ \E q \in Questions : Ask(g, q)
          \/ DatabaseDown(g) \/ Look(g) \/ Lock(g) \/ Return(g)

Spec == Init /\ [][Next]_vars

\* A lock is granted to whoever waits for it, and a call ends, by its timeout at the latest.
FairSpec ==
    /\ Spec
    /\ \A g \in Goroutines : SF_vars(Look(g)) /\ SF_vars(Lock(g)) /\ WF_vars(Return(g))

-----------------------------------------------------------------------------
(* Properties *)

Answered(g, a) == at[g] # "idle" /\ at'[g] = "idle" /\ answer'[g] = a

\* A probe says of SQS what was true of it within the TTL: ready only if it could be
\* reached, not ready only if it could not or a check was cut short.
\* (health.go:68-101)
ReadinessIsRecent ==
    [][\A g \in Goroutines :
          /\ Answered(g, "up") => upAge <= CheckTTL
          /\ Answered(g, "down") => troubleAge' <= CheckTTL]_vars

\* A key is accepted only if the provider listed it within the TTL, and a key it lists is
\* never unknown: rotated keys work at once, removed ones for the TTL at most.
\* (validator.go:122-178)
KeysFollowProvider ==
    [][\A g \in Goroutines :
          /\ Answered(g, "accepted") => asks[g] \in Kids /\ servedAge[asks[g]] < KeyTTL
          /\ Answered(g, "unknown") => asks[g] \notin served \cap Kids]_vars

\* However many probes find the last check too old at once, one of them calls and the
\* others take its result: when a call ends, no other has ended within the TTL.
\* (health.go:68-89, ARCHITECTURE.md:263)
ChecksAreSpaced ==
    [][\A g \in Goroutines :
          asks[g] = Check /\ at[g] = "calling" /\ at'[g] = "idle" => checkAge > CheckTTL]_vars

\* Every request gets past the caches, also when calls fail or take their whole time.
\* (health.go:69-89, validator.go:122-178)
EveryRequestIsAnswered == \A g \in Goroutines : asks[g] # None ~> asks[g] = None

=============================================================================
