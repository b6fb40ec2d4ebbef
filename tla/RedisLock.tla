------------------------------- MODULE RedisLock -------------------------------
(***************************************************************************)
(* LockRedisKey (internal/utils/redis.go): a mutex in redis with an        *)
(* expiry, whose unlock function is run by a RetryTask                     *)
(* (internal/utils/retry.go) under the context of the request.  The mutex  *)
(* itself is external (redsync).  No handler takes the lock today.         *)
(***************************************************************************)
EXTENDS Naturals

CONSTANTS
  Callers,      \* requests that lock one key
  NoOne,        \* the key does not exist
  Asked         \* the attempts that NewRetryTask is asked for (3 in the code)

ASSUME ConstantsAssumption == NoOne \notin Callers /\ Asked \in Nat

VARIABLES
  redis,        \* whose value the key holds
  pc,
  cancelled,    \* is the context of the request cancelled?
  due,          \* has the timer of the task fired?
  i,            \* iterations of the task so far
  ran,          \* history: how often the function was called
  overran       \* history: a mutex has expired under its holder

vars == <<redis, pc, cancelled, due, i, ran, overran>>

-----------------------------------------------------------------------------

\* NewRetryTask: "make sure to execute at least once".
MaxAttempts == IF Asked < 1 THEN 1 ELSE Asked

PC == {"idle", "lock", "held", "run", "done"}

TypeOK ==
  /\ redis \in Callers \cup {NoOne} /\ pc \in [Callers -> PC]
  /\ cancelled \in [Callers -> BOOLEAN] /\ due \in [Callers -> BOOLEAN]
  /\ i \in [Callers -> 0 .. MaxAttempts] /\ ran \in [Callers -> 0 .. MaxAttempts]
  /\ overran \in BOOLEAN

Init ==
  /\ redis = NoOne
  /\ pc = [c \in Callers |-> "idle"]
  /\ cancelled = [c \in Callers |-> FALSE] /\ due = [c \in Callers |-> FALSE]
  /\ i = [c \in Callers |-> 0] /\ ran = [c \in Callers |-> 0]
  /\ overran = FALSE

Goto(c, p) == pc' = [pc EXCEPT ![c] = p]

\* A request with a context of its own comes to lock the key.
Arrive(c) ==
  /\ pc[c] \in {"idle", "done"}
  /\ Goto(c, "lock")
  /\ cancelled' = [cancelled EXCEPT ![c] = FALSE] /\ due' = [due EXCEPT ![c] = FALSE]
  /\ i' = [i EXCEPT ![c] = 0] /\ ran' = [ran EXCEPT ![c] = 0]
  /\ UNCHANGED <<redis, overran>>

\* Its context ends at any time: the client is gone, or the time is over.
Cancel(c) ==
  /\ pc[c] # "idle" /\ ~cancelled[c]
  /\ cancelled' = [cancelled EXCEPT ![c] = TRUE]
  /\ UNCHANGED <<redis, pc, due, i, ran, overran>>

\* LockContext: the key is set if there is none, or the caller gets an error.
Lock(c) ==
  /\ pc[c] = "lock"
  /\ \/ redis = NoOne /\ redis' = c /\ Goto(c, "held")
     \/ UNCHANGED redis /\ Goto(c, "idle")
  /\ UNCHANGED <<cancelled, due, i, ran, overran>>

\* The caller calls the function that LockRedisKey returned: a retry task
\* with a timer of no duration.
Unlock(c) ==
  /\ pc[c] = "held"
  /\ Goto(c, "run")
  /\ due' = [due EXCEPT ![c] = TRUE]
  /\ UNCHANGED <<redis, cancelled, i, ran, overran>>

\* The expiry of the key.
Expire ==
  /\ redis # NoOne
  /\ redis' = NoOne
  /\ overran' = (overran \/ \E c \in Callers : c = redis /\ pc[c] = "held")
  /\ UNCHANGED <<pc, cancelled, due, i, ran>>

-----------------------------------------------------------------------------
(* RetryTask.Run: a select of the context and the timer, which takes either  *)
(* when both are ready.                                                      *)

Abort(c) ==
  /\ pc[c] = "run" /\ i[c] < MaxAttempts /\ cancelled[c]
  /\ Goto(c, "done")
  /\ UNCHANGED <<redis, cancelled, due, i, ran, overran>>

\* Mutant: the key is deleted, whoever holds it.
Release_Del(c) == redis' = NoOne

\* Mutex.Unlock deletes the key if it has the value of the caller.
Release(c) == redis' = IF redis = c THEN NoOne ELSE redis

\* Mutant: an attempt that failed is not counted.
Attempt_Uncounted(c) ==
  /\ pc[c] = "run" /\ i[c] < MaxAttempts /\ due[c]
  /\ ran' = [ran EXCEPT ![c] = @ + 1]
  /\ \/ Release(c) /\ Goto(c, "done") /\ UNCHANGED due
     \/ (Release(c) \/ UNCHANGED redis) /\ due' = [due EXCEPT ![c] = FALSE] /\ UNCHANGED pc
  /\ UNCHANGED <<cancelled, i, overran>>

\* The function is called.  Its error may come before or after its effect;
\* then the timer is set again.
Attempt(c) ==
  /\ pc[c] = "run" /\ i[c] < MaxAttempts /\ due[c]
  /\ ran' = [ran EXCEPT ![c] = @ + 1]
  /\ \/ Release(c) /\ Goto(c, "done") /\ UNCHANGED <<due, i>>
     \/ /\ Release(c) \/ UNCHANGED redis
        /\ due' = [due EXCEPT ![c] = FALSE] /\ i' = [i EXCEPT ![c] = @ + 1]
        /\ UNCHANGED pc
  /\ UNCHANGED <<cancelled, overran>>

\* Mutant: the timer is not set again.
Timer_Once(c) ==
  /\ pc[c] = "run" /\ ~due[c] /\ i[c] = 0
  /\ due' = [due EXCEPT ![c] = TRUE]
  /\ UNCHANGED <<redis, pc, cancelled, i, ran, overran>>

Timer(c) ==
  /\ pc[c] = "run" /\ ~due[c] /\ i[c] < MaxAttempts
  /\ due' = [due EXCEPT ![c] = TRUE]
  /\ UNCHANGED <<redis, pc, cancelled, i, ran, overran>>

\* The loop is over.
GiveUp(c) ==
  /\ pc[c] = "run" /\ i[c] = MaxAttempts
  /\ Goto(c, "done")
  /\ UNCHANGED <<redis, cancelled, due, i, ran, overran>>

Run(c) == Abort(c) \/ Attempt(c) \/ Timer(c) \/ GiveUp(c)

-----------------------------------------------------------------------------

Next ==
  \/ \E c \in Callers : Arrive(c) \/ Cancel(c) \/ Lock(c) \/ Unlock(c) \/ Run(c)
  \/ Expire

Spec == Init /\ [][Next]_vars /\ \A c \in Callers : WF_vars(Run(c))

-----------------------------------------------------------------------------
(* Properties *)

\* Two callers hold the mutex at the same time only if it has expired under
\* one of them: late unlocks and repeated ones never free the mutex of the
\* next holder.
HoldersExclude ==
  ~overran => \A c, d \in Callers : pc[c] = "held" /\ pc[d] = "held" => c = d

\* The unlock function returns, whatever redis answers.
UnlockReturns == \A c \in Callers : pc[c] = "run" ~> pc[c] = "done"
=============================================================================
