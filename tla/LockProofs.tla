------------------------------ MODULE LockProofs ------------------------------
(***************************************************************************)
(* Theorems of RedisLock for any number of callers and of attempts.        *)
(***************************************************************************)
EXTENDS RedisLock, TLAPS

\* A task is tried once at least.
LEMMA MaxAttemptsType == MaxAttempts \in Nat \ {0}
BY ConstantsAssumption DEF MaxAttempts

\* Until a task ends, every call of its function has been an iteration.
CallsCounted == \A c \in Callers : pc[c] # "done" => ran[c] = i[c]
TypeInv == TypeOK /\ CallsCounted

\* Types, inductively.
LEMMA TypeInit == Init => TypeInv
<1> SUFFICES ASSUME Init PROVE TypeInv
  OBVIOUS
<1>1. 0 \in 0 .. MaxAttempts
  BY MaxAttemptsType
<1>2. TypeOK
  BY <1>1 DEF Init, TypeOK, PC
<1>3. CallsCounted
  BY DEF Init, CallsCounted
<1> QED BY <1>2, <1>3 DEF TypeInv

LEMMA TypeStep == TypeInv /\ [Next]_vars => TypeInv'
<1> SUFFICES ASSUME TypeInv, [Next]_vars PROVE TypeInv'
  OBVIOUS
<1> USE MaxAttemptsType DEF TypeInv, TypeOK, CallsCounted, PC
<1>1. ASSUME NEW c \in Callers, Arrive(c) PROVE TypeInv'
  BY <1>1 DEF Arrive, Goto
<1>2. ASSUME NEW c \in Callers, Cancel(c) PROVE TypeInv'
  BY <1>2 DEF Cancel
<1>3. ASSUME NEW c \in Callers, Lock(c) PROVE TypeInv'
  BY <1>3 DEF Lock, Goto
<1>4. ASSUME NEW c \in Callers, Unlock(c) PROVE TypeInv'
  BY <1>4 DEF Unlock, Goto
<1>5. ASSUME NEW c \in Callers, Run(c) PROVE TypeInv'
  <2>1. CASE Abort(c)   BY <2>1 DEF Abort, Goto
  <2>2. CASE Attempt(c)
    <3> USE <2>2 DEF Attempt
    <3>1. redis' \in Callers \cup {NoOne}
      BY DEF Release
    <3>2. i[c] + 1 \in 0 .. MaxAttempts /\ ran[c] + 1 \in 0 .. MaxAttempts
      OBVIOUS
    <3>3. CASE Goto(c, "done") /\ UNCHANGED <<due, i>>
      BY <3>1, <3>2, <3>3 DEF Goto
    <3>4. CASE /\ due' = [due EXCEPT ![c] = FALSE] /\ i' = [i EXCEPT ![c] = @ + 1]
               /\ UNCHANGED pc
      BY <3>1, <3>2, <3>4
    <3> QED BY <3>3, <3>4
  <2>3. CASE Timer(c)   BY <2>3 DEF Timer
  <2>4. CASE GiveUp(c)  BY <2>4 DEF GiveUp, Goto
  <2> QED BY <1>5, <2>1, <2>2, <2>3, <2>4 DEF Run
<1>6. CASE Expire
  BY <1>6, ConstantsAssumption DEF Expire
<1>7. CASE UNCHANGED vars
  BY <1>7 DEF vars
<1> QED BY <1>1, <1>2, <1>3, <1>4, <1>5, <1>6, <1>7 DEF Next

\* Every reachable state is well typed: in particular a task never calls its
\* function more often than it was asked to, whatever redis answers.
THEOREM TypeCorrect == Spec => []TypeOK
<1>1. TypeInv => TypeOK
  BY DEF TypeInv
<1> QED BY <1>1, TypeInit, TypeStep, PTL DEF Spec

-----------------------------------------------------------------------------

\* As long as no mutex has expired under its holder, the key holds the value
\* of every holder, and so there is one at most.
HolderInRedis == ~overran => \A c \in Callers : pc[c] = "held" => redis = c

\* Every step keeps it.
LEMMA HolderStep == TypeOK /\ HolderInRedis /\ [Next]_vars => HolderInRedis'
<1> SUFFICES ASSUME TypeOK, HolderInRedis, [Next]_vars PROVE HolderInRedis'
  OBVIOUS
<1> USE DEF TypeOK, HolderInRedis
<1>1. ASSUME NEW c \in Callers, Arrive(c) PROVE HolderInRedis'
  BY <1>1 DEF Arrive, Goto
<1>2. ASSUME NEW c \in Callers, Cancel(c) PROVE HolderInRedis'
  BY <1>2 DEF Cancel
<1>3. ASSUME NEW c \in Callers, Lock(c) PROVE HolderInRedis'
  BY <1>3, ConstantsAssumption DEF Lock, Goto
<1>4. ASSUME NEW c \in Callers, Unlock(c) PROVE HolderInRedis'
  BY <1>4 DEF Unlock, Goto
<1>5. ASSUME NEW c \in Callers, Run(c) PROVE HolderInRedis'
  \* The key is only deleted with the value of a caller that is past "held".
  <2>1. pc[c] = "run"
    BY <1>5 DEF Run, Abort, Attempt, Timer, GiveUp
  <2>2. redis' = redis \/ redis = c
    BY <1>5 DEF Run, Abort, Attempt, Release, Timer, GiveUp
  <2>3. \A d \in Callers : pc'[d] = "held" => pc[d] = "held"
    BY <1>5 DEF Run, Abort, Attempt, Timer, GiveUp, Goto
  <2>4. overran' = overran
    BY <1>5 DEF Run, Abort, Attempt, Timer, GiveUp
  <2> QED BY <2>1, <2>2, <2>3, <2>4
<1>6. CASE Expire
  BY <1>6 DEF Expire
<1>7. CASE UNCHANGED vars
  BY <1>7 DEF vars
<1> QED BY <1>1, <1>2, <1>3, <1>4, <1>5, <1>6, <1>7 DEF Next

\* Two callers never hold the mutex at the same time unless it has expired
\* under one of them: an unlock that is repeated, late, or whose answer was
\* lost never frees the mutex of the next holder.
THEOREM MutexExcludes == Spec => []HoldersExclude
<1>1. Init => HolderInRedis
  BY DEF Init, HolderInRedis
<1>2. HolderInRedis => HoldersExclude
  BY DEF HolderInRedis, HoldersExclude
<1> QED BY <1>1, <1>2, TypeCorrect, HolderStep, PTL DEF Spec
=============================================================================
