---------------------------- MODULE TransferProofs ----------------------------
(***************************************************************************)
(* Theorems of an image on its way between client and hub, for any image,  *)
(* any pool, any sizes and any loss: what a push has reached when it asks  *)
(* for the merge and when it returns; which files and records a pull       *)
(* leaves behind; which bytes the loops that cut an image hand over.       *)
(***************************************************************************)
EXTENDS MCTransfers, FiniteSetTheorems, SequenceTheorems, TLAPS

-----------------------------------------------------------------------------
(* A push: where a chunk can be *)

\* A chunk that has not been counted as a success is not sent yet, in a
\* goroutine, in the channel, or about to be sent again.
Unsent   == {i \in Chunks : i >= next}
Reported == {results[k].idx : k \in 1 .. Len(results)}
Pending  == Unsent \cup Busy \cup Reported \cup ({again} \ {N})

\* ... and in one of these places only, once.
OnePlace ==
  /\ \A i \in Busy : i < next /\ i \notin Reported /\ i # again
  /\ \A k \in 1 .. Len(results) :
       /\ results[k].idx < next /\ results[k].idx # again
       /\ \A m \in 1 .. Len(results) : m # k => results[m].idx # results[k].idx
  /\ again # N => again < next

\* A chunk whose success is known somewhere is stored at the hub.
SuccessIsStored ==
  /\ \A i \in Chunks : task[i] \in {"answer", "ok"} => i \in stored
  /\ \A k \in 1 .. Len(results) : results[k].ok => results[k].idx \in stored
  /\ closed \/ Chunks \ Pending \subseteq stored

\* The caller has counted exactly the chunks that are not pending.
CountedOnce == closed \/ success + Cardinality(Pending) = N

\* What the place of the caller says of the rest.
CallerPhases ==
  /\ closed <=> pc = "done"
  /\ closed <=> answer # "none"
  /\ again # N => pc = "again"
  /\ pc = "again" => again # N
  /\ pc \in {"start", "upload"} => next = 0 /\ Busy = {} /\ results = <<>>
  /\ pc \in {"collect", "again", "merge"} => next = N
  /\ pc = "merge" => success = N
  /\ pc \in {"submit", "collect", "again", "merge"} => kind = "chunks"
  /\ pc = "upload" => kind = "single"
  /\ pc = "again" => retries > 0
  /\ late => closed

PushInv == /\ TypeOK /\ OnePlace /\ SuccessIsStored /\ CountedOnce /\ CallerPhases
           /\ PushedIsWhole /\ QuietAfterSuccess

-----------------------------------------------------------------------------
(* Lemmas about the places *)

LEMMA ResultsOfChunks ==
  ASSUME TypeOK
  PROVE  \A k \in 1 .. Len(results) : results[k] \in Result /\ results[k].idx \in Chunks
<1>1. \A k \in 1 .. Len(results) : results[k] \in Result
  BY ElementOfSeq DEF TypeOK
<1> QED BY <1>1 DEF Result

LEMMA PendingFinite ==
  ASSUME TypeOK
  PROVE  Pending \subseteq Chunks /\ IsFiniteSet(Pending) /\ Cardinality(Pending) \in 0 .. N
<1>1. Pending \subseteq Chunks
  <2>1. Reported \subseteq Chunks
    BY ResultsOfChunks DEF Reported
  <2>2. again \in 0 .. N
    BY DEF TypeOK
  <2>3. {again} \ {N} \subseteq Chunks
    BY <2>2, ConstantsAssumption DEF Chunks
  <2> QED BY <2>1, <2>3 DEF Pending, Unsent, Busy
<1>2. IsFiniteSet(Chunks) /\ Cardinality(Chunks) = N
  BY FS_Interval, ConstantsAssumption DEF Chunks
<1>3. IsFiniteSet(Pending) /\ Cardinality(Pending) <= N
  BY <1>1, <1>2, FS_Subset
<1> QED BY <1>1, <1>3, FS_CardinalityType, ConstantsAssumption

\* The channel when a result is sent and when one is taken.
LEMMA ResultSent ==
  ASSUME TypeOK, OnePlace, NEW i \in Chunks, i \notin Reported, NEW ok \in BOOLEAN,
         results' = Append(results, [idx |-> i, ok |-> ok])
  PROVE  /\ results' \in Seq(Result)
         /\ Reported' = Reported \cup {i}
         /\ \A k \in 1 .. Len(results') :
              \/ k \in 1 .. Len(results) /\ results'[k] = results[k]
              \/ k = Len(results) + 1 /\ results'[k] = [idx |-> i, ok |-> ok]
<1> DEFINE r == [idx |-> i, ok |-> ok]
<1>1. r \in Result /\ r.idx = i
  BY DEF Result
<1>2. results \in Seq(Result)
  BY DEF TypeOK
<1> HIDE DEF r
<1>3. /\ results' \in Seq(Result) /\ Len(results') = Len(results) + 1
      /\ \A k \in 1 .. Len(results) : results'[k] = results[k]
      /\ results'[Len(results) + 1] = r
  BY <1>1, <1>2, AppendProperties DEF r
<1>4. Len(results) \in Nat
  BY <1>2
<1>5. Reported' = Reported \cup {i}
  BY <1>1, <1>3, <1>4 DEF Reported
<1> QED BY <1>3, <1>4, <1>5 DEF r

LEMMA ResultTaken ==
  ASSUME TypeOK, OnePlace, results # <<>>, results' = Tail(results)
  PROVE  /\ results' \in Seq(Result) /\ Head(results) \in Result
         /\ Head(results) = results[1] /\ 1 \in 1 .. Len(results)
         /\ Reported' = Reported \ {Head(results).idx}
         /\ Head(results).idx \in Reported
         /\ \A k \in 1 .. Len(results') :
              k + 1 \in 1 .. Len(results) /\ results'[k] = results[k + 1]
<1>1. results \in Seq(Result)
  BY DEF TypeOK
<1>2. /\ results' \in Seq(Result) /\ Head(results) \in Result
      /\ Len(results') = Len(results) - 1
      /\ \A k \in 1 .. Len(results') : results'[k] = results[k + 1]
  BY <1>1, HeadTailProperties
<1>3. Len(results) \in Nat \ {0} /\ Head(results) = results[1]
  BY <1>1, EmptySeq
<1>4. \A k \in 1 .. Len(results') :
        k + 1 \in 1 .. Len(results) /\ results'[k] = results[k + 1]
  BY <1>2, <1>3
<1>5. \A k \in 1 .. Len(results) :
        k = 1 \/ (k - 1 \in 1 .. Len(results') /\ results'[k - 1] = results[k])
  BY <1>2, <1>3
<1>6. Reported' = Reported \ {Head(results).idx}
  <2>1. \A m \in 1 .. Len(results) : m # 1 => results[m].idx # results[1].idx
    BY <1>3 DEF OnePlace
  <2>2. \A i \in Reported' : i \in Reported /\ i # results[1].idx
    BY <1>3, <1>4, <2>1 DEF Reported
  <2>3. \A i \in Reported : i # results[1].idx => i \in Reported'
    BY <1>5 DEF Reported
  <2> QED BY <1>3, <2>2, <2>3
<1> QED BY <1>2, <1>3, <1>4, <1>6 DEF Reported

-----------------------------------------------------------------------------
(* A push: the invariant is kept *)

\* No chunk changes its place when only answer, hub or caller move.
LEMMA SamePlaces ==
  ASSUME UNCHANGED <<next, again, task, results>>
  PROVE  /\ Pending' = Pending /\ Reported' = Reported /\ Busy' = Busy
         /\ OnePlace' = OnePlace
BY DEF Pending, Unsent, Reported, Busy, OnePlace

LEMMA InitPush == Init => PushInv
<1> SUFFICES ASSUME Init PROVE PushInv
  OBVIOUS
<1>1. TypeOK
  <2>1. task \in [Chunks -> Tasks] /\ stored \subseteq Chunks
    BY DEF Init, Tasks
  <2>2. results \in Seq(Result)
    BY EmptySeq DEF Init
  <2>3. next \in 0 .. N /\ again \in 0 .. N /\ retries \in 0 .. N /\ success \in 0 .. N
    BY ConstantsAssumption DEF Init
  <2>4. kind \in Kinds /\ target \in Targets
    BY DEF Init
  <2> QED BY <2>1, <2>2, <2>3, <2>4 DEF Init, TypeOK, PC, Images
<1>2. Busy = {} /\ Reported = {} /\ Unsent = Chunks /\ Pending = Chunks
  BY ConstantsAssumption DEF Init, Busy, Reported, Unsent, Pending, Chunks
<1>3. Cardinality(Chunks) = N
  BY FS_Interval, ConstantsAssumption DEF Chunks
<1>4. OnePlace
  BY <1>2 DEF Init, OnePlace
<1>5. SuccessIsStored /\ CountedOnce
  BY <1>2, <1>3, ConstantsAssumption DEF Init, SuccessIsStored, CountedOnce
<1>6. CallerPhases /\ PushedIsWhole /\ QuietAfterSuccess
  BY <1>2 DEF Init, CallerPhases, PushedIsWhole, QuietAfterSuccess
<1> QED BY <1>1, <1>4, <1>5, <1>6 DEF PushInv

\* A chunk goes into a goroutine that was not there: Submit, Resubmit.
LEMMA Invoked ==
  ASSUME TypeOK, NEW i \in Chunks, Invoke(i)
  PROVE  /\ task' \in [Chunks -> Tasks]
         /\ Busy' = Busy \cup {i}
         /\ \A j \in Chunks : task'[j] = IF j = i THEN "send" ELSE task[j]
BY DEF TypeOK, Invoke, Busy, Tasks

LEMMA SubmitKeeps == ASSUME PushInv, Submit PROVE PushInv'
<1> USE DEF hub
<1>1. CASE next < N
  <2>1. next \in Chunks /\ next' = next + 1 /\ next' \in 0 .. N
    BY <1>1, ConstantsAssumption DEF Submit, PushInv, TypeOK, Chunks
  <2>2. Invoke(next)
    BY <1>1 DEF Submit
  <2>3. /\ task' \in [Chunks -> Tasks] /\ Busy' = Busy \cup {next}
        /\ \A j \in Chunks : task'[j] = IF j = next THEN "send" ELSE task[j]
    BY <2>1, <2>2, Invoked DEF PushInv
  <2>4. UNCHANGED <<kind, target, pc, again, results, closed, retries, success, answer, hub, late>>
    BY <1>1 DEF Submit
  <2>5. Reported' = Reported /\ Unsent' = Unsent \ {next}
    BY <2>1, <2>4 DEF Reported, Unsent, Chunks
  <2>6. Pending' = Pending
    BY <2>1, <2>3, <2>4, <2>5 DEF Pending, Unsent, Chunks
  <2>7. TypeOK'
    BY <2>1, <2>3, <2>4 DEF PushInv, TypeOK
  <2>8. OnePlace'
    <3>1. next \in Nat /\ OnePlace /\ again = N
      BY <1>1, <2>1 DEF PushInv, CallerPhases, Chunks, Submit
    <3>2. \A k \in 1 .. Len(results) : results[k].idx \in Chunks
      BY ResultsOfChunks DEF PushInv
    <3>3. next \notin Reported
      <4>1. \A k \in 1 .. Len(results) : results[k].idx < next
        BY <3>1 DEF OnePlace
      <4>2. \A k \in 1 .. Len(results) : results[k].idx # next
        BY <3>1, <3>2, <4>1 DEF Chunks
      <4> QED BY <4>2 DEF Reported
    <3>4. \A i \in Busy' : i < next' /\ i \notin Reported' /\ i # again'
      <4>1. \A i \in Busy : i < next /\ i \in Nat /\ i \notin Reported /\ i # again
        BY <3>1 DEF OnePlace, Busy, Chunks
      <4> QED BY <1>1, <2>1, <2>3, <2>4, <2>5, <3>1, <3>3, <4>1
    <3>5. \A k \in 1 .. Len(results) : results[k].idx < next + 1 /\ results[k].idx # again
      <4>1. \A k \in 1 .. Len(results) : results[k].idx < next /\ results[k].idx # again
        BY <3>1 DEF OnePlace
      <4> QED BY <3>1, <3>2, <4>1 DEF Chunks
    <3> QED BY <2>1, <2>4, <3>1, <3>4, <3>5 DEF OnePlace
  <2>9. SuccessIsStored' /\ CountedOnce'
    BY <2>3, <2>4, <2>6 DEF PushInv, SuccessIsStored, CountedOnce
  <2>10. CallerPhases' /\ PushedIsWhole' /\ QuietAfterSuccess'
    BY <2>4 DEF Submit, PushInv, CallerPhases, PushedIsWhole, QuietAfterSuccess
  <2> QED BY <2>7, <2>8, <2>9, <2>10 DEF PushInv
<1>2. CASE ~(next < N)
  <2>1. /\ pc = "submit" /\ pc' = "collect"
        /\ UNCHANGED <<kind, target, next, task, again, results, closed, retries, success,
                       answer, hub, late>>
    BY <1>2 DEF Submit
  <2>2. next = N
    BY <1>2, ConstantsAssumption DEF PushInv, TypeOK
  <2>3. TypeOK'
    BY <2>1 DEF PushInv, TypeOK, PC
  <2>4. OnePlace' /\ SuccessIsStored' /\ CountedOnce'
    BY <2>1, SamePlaces DEF PushInv, SuccessIsStored, CountedOnce
  <2>5. CallerPhases' /\ PushedIsWhole' /\ QuietAfterSuccess'
    BY <2>1, <2>2, SamePlaces DEF PushInv, CallerPhases, PushedIsWhole, QuietAfterSuccess
  <2> QED BY <2>3, <2>4, <2>5 DEF PushInv
<1> QED BY <1>1, <1>2

LEMMA CollectKeeps == ASSUME PushInv, Collect PROVE PushInv'
<1> USE DEF hub
<1> DEFINE r == Head(results)
<1>1. /\ pc = "collect" /\ results # <<>> /\ results' = Tail(results)
      /\ UNCHANGED <<kind, target, next, task, retries, hub, late>>
  BY DEF Collect
<1>2. /\ results' \in Seq(Result) /\ r \in Result
      /\ r = results[1] /\ 1 \in 1 .. Len(results)
      /\ Reported' = Reported \ {r.idx} /\ r.idx \in Reported
      /\ \A k \in 1 .. Len(results') :
           k + 1 \in 1 .. Len(results) /\ results'[k] = results[k + 1]
  BY <1>1, ResultTaken DEF PushInv
<1>3. next = N /\ again = N /\ ~closed /\ answer = "none" /\ ~late
  BY <1>1 DEF PushInv, CallerPhases
<1>4. r.idx \in Chunks /\ r.idx \notin Busy /\ Busy' = Busy /\ Unsent = {} /\ Unsent' = {}
  BY <1>1, <1>2, <1>3, ConstantsAssumption
     DEF PushInv, OnePlace, Result, Unsent, Chunks, Busy
<1>5. Len(results) \in Nat /\ Len(results') \in Nat
  BY <1>2 DEF PushInv, TypeOK
<1>6. /\ \A k \in 1 .. Len(results') :
             /\ results'[k].idx < next /\ results'[k].idx # N
             /\ results'[k].ok => results'[k].idx \in stored
      /\ \A k, m \in 1 .. Len(results') : m # k => results'[m].idx # results'[k].idx
  <2>1. \A k \in 1 .. Len(results) :
          /\ results[k].idx < next /\ results[k].idx # N
          /\ results[k].ok => results[k].idx \in stored
    BY <1>3 DEF PushInv, OnePlace, SuccessIsStored
  <2>2. \A k, m \in 1 .. Len(results) : m # k => results[m].idx # results[k].idx
    BY DEF PushInv, OnePlace
  <2>3. \A k, m \in 1 .. Len(results') : m # k => results'[m].idx # results'[k].idx
    <3> SUFFICES ASSUME NEW k \in 1 .. Len(results'), NEW m \in 1 .. Len(results'), m # k
                 PROVE  results'[m].idx # results'[k].idx
      OBVIOUS
    <3>1. k + 1 \in 1 .. Len(results) /\ m + 1 \in 1 .. Len(results) /\ m + 1 # k + 1
      BY <1>2, <1>5
    <3> QED BY <1>2, <2>2, <3>1
  <2> QED BY <1>2, <2>1, <2>3
<1> HIDE DEF r
<1>7. CASE r.ok
  <2>1. /\ success' = success + 1 /\ pc' = IF success' = N THEN "merge" ELSE "collect"
        /\ UNCHANGED <<again, answer, closed>>
    BY <1>7 DEF Collect, r
  <2>2. Pending' = Pending \ {r.idx} /\ r.idx \in Pending
    BY <1>1, <1>2, <1>3, <1>4, <2>1 DEF Pending
  <2>3. /\ Cardinality(Pending') = Cardinality(Pending) - 1
        /\ Cardinality(Pending') \in 0 .. N
    <3>1. IsFiniteSet(Pending) /\ Cardinality(Pending) \in 0 .. N
      BY PendingFinite DEF PushInv
    <3>2. IsFiniteSet(Pending \ {r.idx}) /\ Cardinality(Pending \ {r.idx}) = Cardinality(Pending) - 1
      BY <2>2, <3>1, FS_RemoveElement
    <3>3. Cardinality(Pending \ {r.idx}) \in Nat
      BY <3>2, FS_CardinalityType
    <3> QED BY <2>2, <3>1, <3>2, <3>3, ConstantsAssumption
  <2>4. CountedOnce' /\ success' \in 0 .. N
    <3>1. success \in 0 .. N /\ Cardinality(Pending) \in 0 .. N
      BY PendingFinite DEF PushInv, TypeOK
    <3>2. success + Cardinality(Pending) = N
      BY <1>3 DEF PushInv, CountedOnce
    <3>3. success' + Cardinality(Pending') = N /\ success' \in 0 .. N
      BY <2>1, <2>3, <3>1, <3>2, ConstantsAssumption
    <3> QED BY <3>3 DEF CountedOnce
  <2>5. TypeOK'
    BY <1>1, <1>2, <2>1, <2>4 DEF PushInv, TypeOK, PC
  <2>6. OnePlace'
    BY <1>1, <1>2, <1>3, <1>4, <1>6, <2>1 DEF PushInv, OnePlace
  <2>7. SuccessIsStored'
    <3>1. r.idx \in stored
      BY <1>2, <1>7 DEF PushInv, SuccessIsStored
    <3> QED BY <1>1, <1>6, <2>1, <2>2, <3>1 DEF PushInv, SuccessIsStored
  <2>8. CallerPhases' /\ PushedIsWhole' /\ QuietAfterSuccess'
    BY <1>1, <1>3, <2>1 DEF PushInv, CallerPhases, PushedIsWhole, QuietAfterSuccess
  <2> QED BY <2>4, <2>5, <2>6, <2>7, <2>8 DEF PushInv
<1>8. CASE ~r.ok /\ retries > 0
  <2>1. success' = success /\ pc' = "again" /\ again' = r.idx /\ UNCHANGED <<answer, closed>>
    BY <1>8 DEF Collect, r
  <2>2. again' \in Chunks /\ again' # N /\ again' < next
    BY <1>3, <1>4, <2>1, ConstantsAssumption DEF Chunks
  <2>3. Pending' = Pending
    BY <1>1, <1>2, <1>3, <1>4, <2>1, <2>2 DEF Pending
  <2>4. CountedOnce'
    BY <2>1, <2>3 DEF PushInv, CountedOnce
  <2>5. TypeOK'
    <3>1. again' \in 0 .. N
      BY <2>2, ConstantsAssumption DEF Chunks
    <3> QED BY <1>1, <1>2, <2>1, <3>1 DEF PushInv, TypeOK, PC
  <2>6. OnePlace'
    <3>1. \A k \in 1 .. Len(results') : results'[k].idx # r.idx
      BY <1>2 DEF Reported
    <3> QED BY <1>1, <1>2, <1>4, <1>6, <2>1, <2>2, <3>1 DEF PushInv, OnePlace
  <2>7. SuccessIsStored'
    BY <1>1, <1>6, <2>1, <2>3 DEF PushInv, SuccessIsStored
  <2>8. CallerPhases' /\ PushedIsWhole' /\ QuietAfterSuccess'
    BY <1>1, <1>3, <1>8, <2>1, <2>2 DEF PushInv, CallerPhases, PushedIsWhole, QuietAfterSuccess
  <2> QED BY <2>4, <2>5, <2>6, <2>7, <2>8 DEF PushInv
<1>9. CASE ~r.ok /\ ~(retries > 0)
  <2>1. success' = success /\ Return("error") /\ again' = again
    BY <1>9 DEF Collect, r
  <2>2. CountedOnce' /\ TypeOK'
    BY <1>1, <1>2, <2>1 DEF PushInv, TypeOK, PC, CountedOnce, Return
  <2>3. OnePlace'
    BY <1>1, <1>2, <1>3, <1>4, <1>6, <2>1 DEF PushInv, OnePlace
  <2>4. SuccessIsStored'
    BY <1>1, <1>6, <2>1 DEF PushInv, SuccessIsStored, Return
  <2>5. CallerPhases' /\ PushedIsWhole' /\ QuietAfterSuccess'
    BY <1>1, <1>3, <2>1 DEF PushInv, CallerPhases, PushedIsWhole, QuietAfterSuccess, Return
  <2> QED BY <2>2, <2>3, <2>4, <2>5 DEF PushInv
<1> QED BY <1>7, <1>8, <1>9

LEMMA ResubmitKeeps == ASSUME PushInv, Resubmit PROVE PushInv'
<1> USE DEF hub
<1>1. /\ pc = "again" /\ Invoke(again) /\ retries' = retries - 1 /\ again' = N /\ pc' = "collect"
      /\ UNCHANGED <<kind, target, next, results, closed, success, answer, hub, late>>
  BY DEF Resubmit
<1>2. again # N /\ next = N /\ retries > 0
  BY <1>1 DEF PushInv, CallerPhases
<1>3. again \in Chunks /\ retries' \in 0 .. N
  BY <1>1, <1>2, ConstantsAssumption DEF PushInv, TypeOK, Chunks
<1>4. /\ task' \in [Chunks -> Tasks] /\ Busy' = Busy \cup {again}
      /\ \A j \in Chunks : task'[j] = IF j = again THEN "send" ELSE task[j]
  BY <1>1, <1>3, Invoked DEF PushInv
<1>5. Reported' = Reported /\ Unsent' = Unsent
  BY <1>1 DEF Reported, Unsent
<1>6. Pending' = Pending
  BY <1>1, <1>2, <1>4, <1>5 DEF Pending
<1>7. TypeOK'
  BY <1>1, <1>3, <1>4, ConstantsAssumption DEF PushInv, TypeOK, PC
<1>8. OnePlace'
  <2>1. again \notin Reported
    BY DEF PushInv, OnePlace, Reported
  <2>2. \A i \in Busy' : i < next' /\ i \notin Reported' /\ i # again'
    BY <1>1, <1>2, <1>3, <1>4, <1>5, <2>1 DEF PushInv, OnePlace, Chunks, Busy
  <2>3. \A k \in 1 .. Len(results) : results[k].idx < next /\ results[k].idx # N
    BY <1>2, ResultsOfChunks, ConstantsAssumption DEF PushInv, Chunks
  <2> QED BY <1>1, <2>2, <2>3 DEF PushInv, OnePlace
<1>9. SuccessIsStored' /\ CountedOnce'
  BY <1>1, <1>4, <1>6 DEF PushInv, SuccessIsStored, CountedOnce
<1>10. CallerPhases' /\ PushedIsWhole' /\ QuietAfterSuccess'
  BY <1>1, <1>2 DEF PushInv, CallerPhases, PushedIsWhole, QuietAfterSuccess
<1> QED BY <1>7, <1>8, <1>9, <1>10 DEF PushInv

\* A goroutine that goes on stays where it was: Send, Answer.
LEMMA StaysBusy ==
  ASSUME PushInv, NEW i \in Chunks, task[i] # "none", NEW t \in Tasks \ {"none"},
         task' = [task EXCEPT ![i] = t], stored' \subseteq Chunks, stored \subseteq stored',
         t \in {"answer", "ok"} => i \in stored',
         UNCHANGED <<kind, target, pc, next, again, results, closed, retries, success,
                     answer, session, image, saved, late>>
  PROVE  PushInv'
<1>1. /\ task' \in [Chunks -> Tasks]
      /\ \A j \in Chunks : task'[j] = IF j = i THEN t ELSE task[j]
  BY DEF PushInv, TypeOK
<1>2. Busy' = Busy
  BY <1>1 DEF Busy
<1>3. Reported' = Reported /\ Pending' = Pending
  BY <1>2 DEF Reported, Pending, Unsent
<1>4. TypeOK'
  BY <1>1 DEF PushInv, TypeOK
<1>5. OnePlace' /\ CountedOnce'
  BY <1>2, <1>3 DEF PushInv, OnePlace, CountedOnce
<1>6. SuccessIsStored'
  BY <1>1, <1>3 DEF PushInv, SuccessIsStored
<1>7. CallerPhases' /\ QuietAfterSuccess'
  BY <1>2 DEF PushInv, CallerPhases, QuietAfterSuccess
<1>8. PushedIsWhole'
  BY DEF PushInv, PushedIsWhole, CutOffUnseen, TailKept
<1> QED BY <1>4, <1>5, <1>6, <1>7, <1>8 DEF PushInv

LEMMA SendKeeps == ASSUME PushInv, NEW i \in Chunks, Send(i) PROVE PushInv'
<1>1. /\ task[i] = "send"
      /\ UNCHANGED <<kind, target, pc, next, again, results, closed, retries, success,
                     answer, session, image, saved, late>>
  BY DEF Send
<1>2. stored \subseteq Chunks
  BY DEF PushInv, TypeOK
<1>3. CASE stored' = stored \cup {i} /\ task' = [task EXCEPT ![i] = "answer"]
  BY <1>1, <1>2, <1>3, StaysBusy DEF Tasks
<1>4. CASE UNCHANGED stored /\ task' = [task EXCEPT ![i] = "error"]
  BY <1>1, <1>2, <1>4, StaysBusy DEF Tasks
<1> QED BY <1>3, <1>4 DEF Send

LEMMA AnswerKeeps == ASSUME PushInv, NEW i \in Chunks, Answer(i) PROVE PushInv'
<1>1. /\ task[i] = "answer"
      /\ UNCHANGED <<kind, target, pc, next, again, results, closed, retries, success,
                     answer, session, stored, image, saved, late>>
  BY DEF Answer, hub
<1>2. stored \subseteq Chunks /\ i \in stored
  BY <1>1 DEF PushInv, TypeOK, SuccessIsStored
<1>3. PICK t \in {"ok", "error"} : task' = [task EXCEPT ![i] = t]
  BY DEF Answer
<1> QED BY <1>1, <1>2, <1>3, StaysBusy DEF Tasks

LEMMA PutResultKeeps == ASSUME PushInv, NEW i \in Chunks, PutResult(i) PROVE PushInv'
<1> USE DEF hub
<1>1. /\ task[i] \in {"ok", "error"} /\ task' = [task EXCEPT ![i] = "none"]
      /\ UNCHANGED <<kind, target, pc, next, again, closed, retries, success, answer, hub>>
  BY DEF PutResult
<1>2. /\ task' \in [Chunks -> Tasks]
      /\ \A j \in Chunks : task'[j] = IF j = i THEN "none" ELSE task[j]
  BY <1>1 DEF PushInv, TypeOK, Tasks
<1>3. i \in Busy /\ Busy' = Busy \ {i} /\ Unsent' = Unsent
  BY <1>1, <1>2 DEF Busy, Unsent
<1>4. i < next /\ i \notin Reported /\ i # again /\ answer # "ok"
  BY <1>3 DEF PushInv, OnePlace, QuietAfterSuccess
<1>5. pc \notin {"start", "upload"}
  BY <1>3 DEF PushInv, CallerPhases
<1>6. CASE closed
  <2>1. late' = TRUE /\ UNCHANGED results
    BY <1>6 DEF PutResult
  <2>2. answer = "error"
    BY <1>4, <1>6 DEF PushInv, TypeOK, CallerPhases
  <2>3. Reported' = Reported
    BY <2>1 DEF Reported
  <2>4. TypeOK'
    BY <1>1, <1>2, <2>1 DEF PushInv, TypeOK
  <2>5. OnePlace'
    BY <1>1, <1>3, <2>1, <2>3 DEF PushInv, OnePlace
  <2>6. SuccessIsStored' /\ CountedOnce'
    BY <1>1, <1>2, <1>6, <2>1 DEF PushInv, SuccessIsStored, CountedOnce
  <2>7. CallerPhases' /\ PushedIsWhole' /\ QuietAfterSuccess'
    BY <1>1, <1>5, <1>6, <2>1, <2>2 DEF PushInv, CallerPhases, PushedIsWhole, QuietAfterSuccess
  <2> QED BY <2>4, <2>5, <2>6, <2>7 DEF PushInv
<1>7. CASE ~closed
  <2> DEFINE ok == task[i] = "ok"
  <2>1. ok \in BOOLEAN /\ (ok => i \in stored)
    BY DEF PushInv, SuccessIsStored
  <2>2. results' = Append(results, [idx |-> i, ok |-> ok]) /\ UNCHANGED late
    BY <1>7 DEF PutResult
  <2> HIDE DEF ok
  <2>3. /\ results' \in Seq(Result) /\ Reported' = Reported \cup {i}
        /\ \A k \in 1 .. Len(results') :
             \/ k \in 1 .. Len(results) /\ results'[k] = results[k]
             \/ k = Len(results) + 1 /\ results'[k] = [idx |-> i, ok |-> ok]
    BY <1>4, <2>1, <2>2, ResultSent DEF PushInv
  <2>4. Pending' = Pending
    BY <1>1, <1>3, <2>3 DEF Pending
  <2>5. TypeOK'
    BY <1>1, <1>2, <2>2, <2>3 DEF PushInv, TypeOK
  <2>6. OnePlace'
    <3>1. \A j \in Busy' : j < next' /\ j \notin Reported' /\ j # again'
      BY <1>1, <1>3, <2>3 DEF PushInv, OnePlace
    <3>2. \A k \in 1 .. Len(results) :
            results[k].idx < next /\ results[k].idx # again /\ results[k].idx # i
      BY <1>4 DEF PushInv, OnePlace, Reported
    <3>3. \A k \in 1 .. Len(results') : results'[k].idx < next /\ results'[k].idx # again
      BY <1>4, <2>3, <3>2
    <3>4. \A k, m \in 1 .. Len(results') : m # k => results'[m].idx # results'[k].idx
      BY <2>3, <3>2 DEF PushInv, OnePlace
    <3> QED BY <1>1, <3>1, <3>3, <3>4 DEF PushInv, OnePlace
  <2>7. SuccessIsStored'
    <3>1. \A k \in 1 .. Len(results') : results'[k].ok => results'[k].idx \in stored
      BY <2>1, <2>3 DEF PushInv, SuccessIsStored
    <3> QED BY <1>1, <1>2, <2>4, <3>1 DEF PushInv, SuccessIsStored
  <2>8. CountedOnce'
    BY <1>1, <2>4 DEF PushInv, CountedOnce
  <2>9. CallerPhases' /\ PushedIsWhole' /\ QuietAfterSuccess'
    BY <1>1, <1>3, <1>4, <1>5, <1>7, <2>2 DEF PushInv, CallerPhases, PushedIsWhole, QuietAfterSuccess
  <2> QED BY <2>5, <2>6, <2>7, <2>8, <2>9 DEF PushInv
<1> QED BY <1>6, <1>7

\* The caller has N successes: every chunk is stored and nothing is under way.
LEMMA MergeIsQuiet ==
  ASSUME PushInv, pc = "merge"
  PROVE  stored = Chunks /\ Busy = {}
<1>1. ~closed /\ success = N
  BY DEF PushInv, CallerPhases
<1>2. IsFiniteSet(Pending) /\ Cardinality(Pending) = 0
  <2>1. IsFiniteSet(Pending) /\ Cardinality(Pending) \in 0 .. N
    BY PendingFinite DEF PushInv
  <2>2. N + Cardinality(Pending) = N
    BY <1>1 DEF PushInv, CountedOnce
  <2> QED BY <2>1, <2>2, ConstantsAssumption
<1>3. Pending = {}
  BY <1>2, FS_EmptySet
<1>4. stored = Chunks /\ Busy = {}
  BY <1>1, <1>3 DEF PushInv, TypeOK, SuccessIsStored, Pending
<1> QED BY <1>4

\* Push returns while no goroutine is left, or with an error.
LEMMA ReturnKeeps ==
  ASSUME PushInv, ~closed, again = N, NEW a \in {"ok", "error"}, Return(a),
         a = "ok" => Busy = {} /\ image' # "old" /\ (saved' \/ kind = "chunks")
                     /\ (image' = "pushed" \/ CutOffUnseen \/ TailKept),
         image' \in Images, saved' \in BOOLEAN, session' \in {"none", "open", "gone"},
         UNCHANGED <<kind, target, next, again, task, results, retries, success, stored, late>>
  PROVE  PushInv'
<1>1. Busy' = Busy /\ OnePlace'
  BY SamePlaces DEF PushInv
<1>2. pc' = "done" /\ answer' = a /\ closed' = TRUE
  BY DEF Return
<1>3. ~late
  BY DEF PushInv, CallerPhases
<1>4. TypeOK'
  BY <1>2 DEF PushInv, TypeOK, PC
<1>5. SuccessIsStored' /\ CountedOnce'
  BY <1>2 DEF PushInv, SuccessIsStored, CountedOnce
<1>6. CallerPhases' /\ QuietAfterSuccess'
  BY <1>1, <1>2, <1>3 DEF PushInv, CallerPhases, QuietAfterSuccess
<1>7. PushedIsWhole'
  BY <1>2 DEF PushedIsWhole, CutOffUnseen, TailKept
<1> QED BY <1>1, <1>4, <1>5, <1>6, <1>7 DEF PushInv

LEMMA MergeKeeps == ASSUME PushInv, Merge PROVE PushInv'
<1>1. /\ pc = "merge"
      /\ UNCHANGED <<kind, target, next, again, task, results, retries, success, stored, late>>
  BY DEF Merge
<1>2. Busy = {} /\ ~closed /\ again = N /\ kind = "chunks"
  BY <1>1, MergeIsQuiet DEF PushInv, CallerPhases
<1>3. CASE /\ image' = "pushed" /\ saved' \in BOOLEAN /\ session' \in {"open", "gone"}
           /\ \E a \in {"ok", "error"} : Return(a)
  BY <1>1, <1>2, <1>3, ReturnKeeps DEF Images
<1>4. CASE UNCHANGED <<image, saved, session>> /\ Return("error")
  <2>1. image \in Images /\ saved \in BOOLEAN /\ session \in {"none", "open", "gone"}
    BY DEF PushInv, TypeOK
  <2> QED BY <1>1, <1>2, <1>4, <2>1, ReturnKeeps
<1> QED BY <1>3, <1>4 DEF Merge

\* What the hub writes, and when it is the whole file.
LEMMA WrittenFile ==
  ASSUME NEW sent \in {"pushed", "partial"}
  PROVE  /\ Written(sent) \in Images \ {"old"}
         /\ kind # "chunks" /\ Written(sent) # sent => TailKept
         /\ kind = "single" /\ Accepts(sent) => Written(sent) = "pushed" \/ CutOffUnseen \/ TailKept
BY DEF Written, Images, TailKept, Accepts, CutOffUnseen

LEMMA UploadKeeps == ASSUME PushInv, Upload PROVE PushInv'
<1>1. /\ pc = "upload"
      /\ UNCHANGED <<kind, target, next, again, task, results, retries, success, session,
                     stored, late>>
  BY DEF Upload
<1>2. /\ Busy = {} /\ ~closed /\ again = N /\ kind = "single"
      /\ saved \in BOOLEAN /\ session \in {"none", "open", "gone"} /\ Torn \subseteq Images
  BY <1>1 DEF PushInv, CallerPhases, TypeOK, Torn, Images
<1>3. ASSUME NEW sent \in {"pushed", "partial"}, Accepts(sent), image' = Written(sent),
             saved' = TRUE, \E a \in {"ok", "error"} : Return(a)
      PROVE  PushInv'
  <2>1. /\ image' \in Images /\ image' # "old"
        /\ image' = "pushed" \/ CutOffUnseen \/ TailKept
    BY <1>2, <1>3, WrittenFile
  <2> QED BY <1>1, <1>2, <1>3, <2>1, ReturnKeeps
<1>4. CASE image' \in Torn /\ UNCHANGED saved /\ Return("error")
  BY <1>1, <1>2, <1>4, ReturnKeeps
<1> QED BY <1>3, <1>4 DEF Upload

\* What is left moves the caller or the session only.
LEMMA MovesKeep ==
  ASSUME PushInv,
         \/ pc = pc'
         \/ pc = "start" /\ kind = "chunks" /\ pc' = "submit"
         \/ pc = "start" /\ kind = "single" /\ pc' = "upload",
         session' \in {"none", "open", "gone"},
         UNCHANGED <<kind, target, next, again, task, results, closed, retries, success,
                     answer, stored, image, saved, late>>
  PROVE  PushInv'
<1>1. Busy' = Busy /\ Pending' = Pending /\ OnePlace'
  BY SamePlaces DEF PushInv
<1>2. TypeOK'
  BY DEF PushInv, TypeOK, PC
<1>3. SuccessIsStored' /\ CountedOnce'
  BY <1>1 DEF PushInv, SuccessIsStored, CountedOnce
<1>4. CallerPhases' /\ QuietAfterSuccess'
  BY <1>1 DEF PushInv, CallerPhases, QuietAfterSuccess
<1>5. PushedIsWhole'
  BY DEF PushInv, PushedIsWhole, CutOffUnseen, TailKept
<1> QED BY <1>1, <1>2, <1>3, <1>4, <1>5 DEF PushInv

LEMMA StartKeeps == ASSUME PushInv, StartChunks \/ StartUpload PROVE PushInv'
<1>1. /\ pc = "start"
      /\ UNCHANGED <<kind, target, next, again, task, results, retries, success, stored, late>>
  BY DEF StartChunks, StartUpload
<1>2. /\ Busy = {} /\ ~closed /\ again = N
      /\ image \in Images /\ saved \in BOOLEAN /\ session \in {"none", "open", "gone"}
      /\ Torn \subseteq Images
  BY <1>1 DEF PushInv, CallerPhases, TypeOK, Torn, Images
<1>3. CASE StartChunks
  <2>1. UNCHANGED <<image, saved>> /\ kind = "chunks"
    BY <1>3 DEF StartChunks
  <2>2. CASE session' = "open" /\ pc' = "submit" /\ UNCHANGED <<answer, closed>>
    BY <1>1, <2>1, <2>2, MovesKeep
  <2>3. CASE session' \in {"none", "open"} /\ Return("error")
    BY <1>1, <1>2, <2>1, <2>3, ReturnKeeps
  <2> QED BY <1>3, <2>2, <2>3 DEF StartChunks
<1>4. CASE StartUpload
  <2>1. CASE /\ kind = "single" /\ session' = "open" /\ pc' = "upload"
             /\ UNCHANGED <<image, saved, answer, closed>>
    BY <1>1, <2>1, MovesKeep
  <2>2. CASE /\ kind = "remote" /\ image' = Written("pushed") /\ saved' = TRUE
             /\ UNCHANGED session /\ \E a \in {"ok", "error"} : Return(a)
    <3>1. image' \in Images /\ image' # "old" /\ (image' = "pushed" \/ TailKept)
      BY <2>2, WrittenFile
    <3> QED BY <1>1, <1>2, <2>2, <3>1, ReturnKeeps
  <2>3. CASE /\ image' \in (IF kind = "remote" THEN Torn ELSE {image})
             /\ UNCHANGED <<saved, session>> /\ Return("error")
    BY <1>1, <1>2, <2>3, ReturnKeeps
  <2> QED BY <1>4, <2>1, <2>2, <2>3 DEF StartUpload
<1> QED BY <1>3, <1>4

LEMMA NextPush == PushInv /\ [Next]_vars => PushInv'
<1> SUFFICES ASSUME PushInv, [Next]_vars PROVE PushInv'
  OBVIOUS
<1>1. CASE UNCHANGED vars
  <2>1. session \in {"none", "open", "gone"}
    BY DEF PushInv, TypeOK
  <2> QED BY <1>1, <2>1, MovesKeep DEF vars, hub
<1>2. CASE Expire
  BY <1>2, MovesKeep DEF Expire
<1>3. CASE Caller
  BY <1>3, StartKeeps, SubmitKeeps, CollectKeeps, ResubmitKeeps, MergeKeeps, UploadKeeps
     DEF Caller
<1>4. ASSUME NEW i \in Chunks, Goroutine(i) PROVE PushInv'
  BY <1>4, SendKeeps, AnswerKeeps, PutResultKeeps DEF Goroutine
<1> QED BY <1>1, <1>2, <1>3, <1>4 DEF Next

LEMMA PushInvariant == Spec => []PushInv
<1> QED BY InitPush, NextPush, PTL DEF Spec

-----------------------------------------------------------------------------
(* A push: what it promises *)

\* Whatever image, pool, order and loss: the client asks the hub to merge only
\* when every chunk is stored there (uploadWithChunk counts the successes on
\* resCh and sends a chunk again until there is none left to try).
THEOREM AsksWhenComplete == Spec => []MergeAsksAll
<1>1. PushInv => MergeAsksAll
  BY MergeIsQuiet DEF MergeAsksAll
<1> QED BY <1>1, PushInvariant, PTL

\* A push that returned without an error has put the whole file under the tag,
\* and saved its row, for both stores and any length of the file, but in the
\* cases that nothing compares: a body cut off over S3 or for a file that is
\* written in parts (storage/s3/s3.go, api/image/image.go), the tail of a longer
\* file, and the commit of a merge (api/image/chunk.go).
THEOREM SuccessIsWhole == Spec => []PushedIsWhole
<1>1. PushInv => PushedIsWhole
  BY DEF PushInv
<1> QED BY <1>1, PushInvariant, PTL

\* After a success no goroutine of the push is left, and none sends on the
\* channel that the deferred close has closed, unless the push failed.
THEOREM SuccessIsQuiet == Spec => []QuietAfterSuccess
<1>1. PushInv => QuietAfterSuccess
  BY DEF PushInv
<1> QED BY <1>1, PushInvariant, PTL

-----------------------------------------------------------------------------
(* Pulls: what is on the disk and where a pull stands *)

Announced(v)      == v \in Versions /\ announced = Store!Image(v)
ChunksOf(content) == 0 .. Store!NChunks(Len(content)) - 1

\* Which files there are while a pull goes on.
FilePhases ==
  /\ pullPc \in {"cached", "chunks"} => \E v \in Versions : Announced(v)
  /\ pullPc = "chunks" =>
       failed \/ \A i \in ChunksOf(announced) : i \in todo \/ chunkFiles[i] # None
  /\ pullPc = "merge" => slice # None /\ \A i \in todo : chunkFiles[i] # None
  /\ pullPc \in {"merge", "open", "copy"} => body # None
  /\ pullPc \in {"clean", "verify"} => file # None /\ file = record /\ digest = file

StoreInv == Store!TypeOK /\ FilePhases /\ RecordHasFile

\* The contents that are made of the images up to version h.
Contents(h) == Seq([version : {v \in Versions : v <= h}, at : Nat])

\* Nothing of a later image is anywhere.
OfHub ==
  /\ {file, record, slice, digest, announced, body} \ {None} \subseteq Contents(hubVersion)
  /\ \A i \in Store!Indices : chunkFiles[i] \in Contents(hubVersion) \cup {None}

\* A record that is not that of the file is older than version h.
Older(h)       == \A v \in Versions : v >= h => record # Store!Image(v)
TrustedFrom(h) == file = record \/ record = None \/ Older(h)

\* When a pull replaces the file the record is old already.
TrustPhases ==
  /\ pullPc = "cached" =>
       /\ digest = announced
       /\ \E v \in Versions :
            /\ v <= hubVersion /\ Announced(v)
            /\ {file, record} \ {None} \subseteq Contents(v) /\ TrustedFrom(v)
  /\ pullPc \in {"request", "chunks", "merge", "open", "copy"} => Older(hubVersion)

TrustInv == OfHub /\ TrustedFrom(hubVersion) /\ TrustPhases /\ PullReturnsRecorded

-----------------------------------------------------------------------------
(* Lemmas about contents *)

LEMMA StoreConstants ==
  /\ Versions \subseteq Nat /\ 1 \in Versions /\ Size \in [Versions -> Nat \ {0}]
  /\ Threshold \in Nat /\ ChunkLen \in Nat \ {0}
  /\ None \notin Store!Content /\ Budget \in [Store!Events -> Nat]
BY TransfersAssumption DEF Store!ConstantsOK

LEMMA ImageIsContent ==
  ASSUME NEW v \in Versions, NEW S, [version : {v}, at : Nat] \subseteq S
  PROVE  Store!Image(v) \in Seq(S) /\ Len(Store!Image(v)) = Size[v] /\ Size[v] \in Nat \ {0}
<1>1. Size[v] \in Nat \ {0}
  BY StoreConstants
<1>2. Store!Image(v) \in [1 .. Size[v] -> S]
  BY <1>1 DEF Store!Image
<1>3. Store!Image(v) \in Seq(S)
  BY <1>1, <1>2, SeqDef
<1>4. Len(Store!Image(v)) = Size[v]
  BY <1>1, <1>2, <1>3, LenProperties
<1> QED BY <1>1, <1>3, <1>4

LEMMA TornIsContent ==
  ASSUME NEW S, NEW s \in Seq(S), NEW t \in Store!Torn(s)
  PROVE  t \in Seq(S)
<1>1. PICK l \in 0 .. Len(s) : t = SubSeq(s, 1, l)
  BY DEF Store!Torn, Store!Prefixes
<1>2. Len(s) \in Nat
  BY LenProperties
<1>3. \A i \in 1 .. l : s[i] \in S
  BY <1>2, ElementOfSeq
<1> QED BY <1>1, <1>2, <1>3, SubSeqProperties

LEMMA OverIsContent ==
  ASSUME NEW S, NEW new \in Seq(S), NEW old \in Seq(S) \cup {None}
  PROVE  Store!Over(new, old) \in Seq(S)
<1>1. CASE old = None
  BY <1>1 DEF Store!Over
<1>2. CASE old # None
  <2>1. Len(new) \in Nat /\ Len(old) \in Nat
    BY <1>2, LenProperties
  <2>2. \A i \in Len(new) + 1 .. Len(old) : old[i] \in S
    BY <1>2, <2>1, ElementOfSeq
  <2>3. SubSeq(old, Len(new) + 1, Len(old)) \in Seq(S)
    BY <2>1, <2>2, SubSeqProperties
  <2> QED BY <1>2, <2>3, ConcatProperties DEF Store!Over
<1> QED BY <1>1, <1>2

LEMMA ServedIsContent ==
  ASSUME NEW S, hubVersion \in Versions, [version : {hubVersion}, at : Nat] \subseteq S,
         NEW i \in Nat
  PROVE  Store!Served(i) \in Seq(S)
<1> DEFINE s == Store!Image(hubVersion)
           m == i * ChunkLen + 1
           n == IF (i + 1) * ChunkLen < Size[hubVersion]
                THEN (i + 1) * ChunkLen ELSE Size[hubVersion]
<1>1. s \in Seq(S) /\ Len(s) = Size[hubVersion] /\ Size[hubVersion] \in Nat
  BY ImageIsContent
<1>2. i * ChunkLen \in Nat /\ (i + 1) * ChunkLen \in Nat
  BY StoreConstants
<1>3. m \in Int /\ n \in Int /\ m >= 1 /\ n <= Size[hubVersion]
  BY <1>1, <1>2
<1>4. Store!Served(i) = SubSeq(s, m, n)
  BY DEF Store!Served
<1> HIDE DEF s, m, n
<1>5. \A k \in m .. n : s[k] \in S
  BY <1>1, <1>3, ElementOfSeq
<1> QED BY <1>3, <1>4, <1>5, SubSeqProperties

\* Every image is a content, none is None, and a chunk's file has an index.
LEMMA ContentFacts ==
  /\ <<>> \in Store!Content
  /\ \A v \in Versions : Store!Image(v) \in Store!Content /\ ChunksOf(Store!Image(v)) \subseteq Store!Indices
  /\ Store!Indices \subseteq Nat
<1>1. <<>> \in Store!Content
  BY EmptySeq DEF Store!Content
<1>2. \A v \in Versions : Store!Image(v) \in Store!Content /\ Len(Store!Image(v)) = Size[v]
  BY ImageIsContent DEF Store!Content, Store!Cell
<1>3. \A v \in Versions : ChunksOf(Store!Image(v)) \subseteq Store!Indices
  BY <1>2 DEF ChunksOf, Store!NChunks, Store!Indices
<1>4. Store!Indices \subseteq Nat
  BY DEF Store!Indices
<1> QED BY <1>1, <1>2, <1>3, <1>4

-----------------------------------------------------------------------------
(* Pulls: the files *)

LEMMA InitStore == Store!Init => StoreInv
<1> SUFFICES ASSUME Store!Init PROVE StoreInv
  OBVIOUS
<1>1. Store!TypeOK
  BY StoreConstants DEF Store!Init, Store!TypeOK, Store!PC, Store!Policies
<1>2. FilePhases /\ RecordHasFile
  BY DEF Store!Init, FilePhases, RecordHasFile, Store!RecordHasFile
<1> QED BY <1>1, <1>2 DEF StoreInv

LEMMA SpendIsTyped ==
  ASSUME Store!TypeOK, NEW e \in Store!Events, Store!Spend(e)
  PROVE  left' \in [Store!Events -> Nat]
BY DEF Store!TypeOK, Store!Spend

LEMMA NextStore == StoreInv /\ Store!Next => StoreInv'
<1> SUFFICES ASSUME StoreInv, Store!Next PROVE StoreInv'
  OBVIOUS
<1> USE StoreConstants, ContentFacts
    DEF StoreInv, Store!TypeOK, FilePhases, RecordHasFile, Store!RecordHasFile,
        Store!disk, Store!Goto, Store!Keep, Store!PC, Store!Policies
<1>1. CASE Store!Replace
  <2>1. hubVersion' \in Versions
    BY <1>1 DEF Store!Replace
  <2>2. UNCHANGED <<file, record, chunkFiles, slice, pullPc, policy, digest, announced,
                    body, todo, failed, left>>
    BY <1>1 DEF Store!Replace
  <2> QED BY <2>1, <2>2 DEF Announced
<1>2. CASE Store!Crash
  BY <1>2, SpendIsTyped DEF Store!Crash, Store!Events
<1>3. CASE Store!Forget \/ Store!RemoveFile
  BY <1>3, SpendIsTyped DEF Store!Forget, Store!RemoveFile, Store!Events
<1>4. CASE Store!Pull
  BY <1>4, SpendIsTyped DEF Store!Pull, Store!Events
<1>5. CASE Store!NewImage
  BY <1>5 DEF Store!NewImage, Store!Loaded, Store!Meta
<1>6. CASE Store!GetInfo
  BY <1>6 DEF Store!GetInfo, Announced
<1>7. CASE Store!Cached
  BY <1>7 DEF Store!Cached, Store!Loaded, Store!Meta, Announced, ChunksOf
<1>8. CASE Store!Request
  BY <1>8 DEF Store!Request
<1>9. CASE Store!OpenFile
  BY <1>9 DEF Store!OpenFile
<1>10. CASE Store!Copy
  BY <1>10, TornIsContent, SpendIsTyped DEF Store!Copy, Store!Events, Store!Content
<1>11. CASE Store!Update
  BY <1>11 DEF Store!Update
<1>12. CASE Store!Verify
  BY <1>12 DEF Store!Verify, Store!Loaded, Store!Meta
<1>13. CASE Store!Collect
  BY <1>13 DEF Store!Collect, Announced, ChunksOf
<1>14. ASSUME NEW i \in Store!Indices, Store!MergeSlice(i) PROVE StoreInv'
  <2>1. /\ pullPc = "merge" /\ pullPc' = "merge" /\ i \in todo /\ todo' = todo \ {i}
        /\ body' = body \o chunkFiles[i] /\ slice' = Store!Over(body', slice)
        /\ UNCHANGED <<hubVersion, policy, left, file, record, chunkFiles, digest,
                       announced, failed>>
    BY <1>14 DEF Store!MergeSlice
  <2>2. /\ body \in Store!Content /\ chunkFiles[i] \in Store!Content
        /\ slice \in Store!Content
    BY <2>1
  <2>3. body' \in Store!Content
    BY <2>1, <2>2, ConcatProperties DEF Store!Content
  <2>4. slice' \in Store!Content
    BY <2>1, <2>2, <2>3, OverIsContent DEF Store!Content
  <2> QED BY <2>1, <2>3, <2>4
<1>15. CASE Store!CopyFrom
  BY <1>15 DEF Store!CopyFrom
<1>16. CASE Store!CleanSlice
  BY <1>16 DEF Store!CleanSlice
<1>17. ASSUME NEW i \in Store!Indices, Store!GetChunk(i) PROVE StoreInv'
  <2>1. /\ pullPc = "chunks" /\ pullPc' = "chunks" /\ i \in todo /\ todo' = todo \ {i}
        /\ chunkFiles' = [chunkFiles EXCEPT ![i] = Store!Over(Store!Served(i), @)]
        /\ UNCHANGED <<hubVersion, policy, left, file, record, slice, digest, announced,
                       body, failed>>
    BY <1>17 DEF Store!GetChunk
  <2>2. Store!Served(i) \in Store!Content
    BY ServedIsContent DEF Store!Content, Store!Cell
  <2>3. Store!Over(Store!Served(i), chunkFiles[i]) \in Store!Content
    BY <2>2, OverIsContent DEF Store!Content
  <2>4. /\ chunkFiles' \in [Store!Indices -> Store!Content \cup {None}]
        /\ \A j \in Store!Indices : j = i \/ chunkFiles'[j] = chunkFiles[j]
        /\ chunkFiles'[i] # None
    BY <2>1, <2>3
  <2>5. ChunksOf(announced) \subseteq Store!Indices
    BY <2>1 DEF Announced
  <2> QED BY <2>1, <2>4, <2>5 DEF Announced
<1>18. ASSUME NEW i \in Store!Indices, Store!ChunkBreaks(i) PROVE StoreInv'
  <2>1. /\ pullPc = "chunks" /\ Store!Spend("fail") /\ UNCHANGED todo
        /\ UNCHANGED <<hubVersion, policy, file, record, slice, pullPc, digest, announced,
                       body, failed>>
    BY <1>18 DEF Store!ChunkBreaks
  <2>2. PICK p \in Store!Torn(Store!Served(i)) :
          chunkFiles' = [chunkFiles EXCEPT ![i] = Store!Over(p, @)]
    BY <1>18 DEF Store!ChunkBreaks
  <2>3. p \in Store!Content
    BY ServedIsContent, TornIsContent DEF Store!Content, Store!Cell
  <2>4. Store!Over(p, chunkFiles[i]) \in Store!Content
    BY <2>3, OverIsContent DEF Store!Content
  <2>5. /\ chunkFiles' \in [Store!Indices -> Store!Content \cup {None}]
        /\ \A j \in Store!Indices : j = i \/ chunkFiles'[j] = chunkFiles[j]
        /\ chunkFiles'[i] # None
    BY <2>2, <2>4
  <2>6. left' \in [Store!Events -> Nat]
    BY <2>1, SpendIsTyped DEF Store!Events
  <2>7. ChunksOf(announced) \subseteq Store!Indices
    BY <2>1 DEF Announced
  <2> QED BY <2>1, <2>5, <2>6, <2>7 DEF Announced
<1>19. ASSUME NEW i \in Store!Indices, Store!GiveUp(i) PROVE StoreInv'
  <2>1. /\ pullPc = "chunks" /\ todo' = todo \ {i} /\ failed' = TRUE
        /\ UNCHANGED <<hubVersion, policy, left, file, record, chunkFiles, slice, pullPc,
                       digest, announced, body>>
    BY <1>19 DEF Store!GiveUp
  <2> QED BY <2>1 DEF Announced
<1> QED BY <1>1, <1>2, <1>3, <1>4, <1>5, <1>6, <1>7, <1>8, <1>9, <1>10, <1>11, <1>12,
           <1>13, <1>14, <1>15, <1>16, <1>17, <1>18, <1>19
        DEF Store!Next, Store!Step, Store!Worker

-----------------------------------------------------------------------------
(* Pulls: whom the record may be trusted *)

LEMMA ContentsGrow ==
  ASSUME NEW g \in Nat, NEW h \in Nat, g <= h
  PROVE  Contents(g) \subseteq Contents(h)
<1> DEFINE C(k) == [version : {v \in Versions : v <= k}, at : Nat]
<1>1. C(g) \subseteq C(h)
  <2>1. \A v \in Versions : v \in Nat
    BY StoreConstants
  <2>2. \A v \in Versions : v <= g => v <= h
    BY <2>1
  <2> QED BY <2>2
<1> HIDE DEF C
<1>2. Seq(C(g)) \subseteq Seq(C(h))
  BY <1>1, SeqMonotonic
<1> QED BY <1>2 DEF Contents, C

LEMMA ImageOfHub ==
  ASSUME NEW h \in Nat, NEW v \in Versions, v <= h
  PROVE  Store!Image(v) \in Contents(h)
<1>1. [version : {v}, at : Nat] \subseteq [version : {w \in Versions : w <= h}, at : Nat]
  OBVIOUS
<1> QED BY <1>1, ImageIsContent DEF Contents

\* A later image is made of later cells.
LEMMA LaterImage ==
  ASSUME NEW g \in Versions, NEW v \in Versions, v > g, NEW s \in Contents(g)
  PROVE  s # Store!Image(v)
<1> SUFFICES ASSUME s = Store!Image(v) PROVE FALSE
  OBVIOUS
<1>1. Len(s) = Size[v] /\ 1 \in 1 .. Len(s)
  <2>1. [version : {v}, at : Nat] \subseteq Store!Cell
    BY DEF Store!Cell
  <2>2. Len(Store!Image(v)) = Size[v] /\ Size[v] \in Nat \ {0}
    BY <2>1, ImageIsContent
  <2> QED BY <2>2
<1>2. s[1] \in [version : {w \in Versions : w <= g}, at : Nat]
  BY <1>1, ElementOfSeq DEF Contents
<1>3. s[1].version = v
  BY <1>1 DEF Store!Image
<1> QED BY <1>2, <1>3, StoreConstants

\* What is no later than an image, and not this image, is older.
LEMMA OlderThanImage ==
  ASSUME NEW v \in Versions, record \in Contents(v) \cup {None}, record # Store!Image(v)
  PROVE  Older(v)
<1> SUFFICES ASSUME NEW w \in Versions, w >= v, record = Store!Image(w) PROVE FALSE
  BY DEF Older
<1>1. record # None
  BY StoreConstants, ContentFacts
<1>2. w > v
  BY StoreConstants
<1> QED BY <1>1, <1>2, LaterImage

LEMMA OlderStays ==
  ASSUME NEW g \in Versions, NEW h \in Versions, g <= h
  PROVE  (Older(g) => Older(h)) /\ (TrustedFrom(g) => TrustedFrom(h))
BY StoreConstants DEF Older, TrustedFrom

LEMMA InitTrust == Store!Init => TrustInv
<1> SUFFICES ASSUME Store!Init PROVE TrustInv
  OBVIOUS
<1>1. OfHub
  BY DEF Store!Init, OfHub
<1>2. TrustedFrom(hubVersion) /\ TrustPhases
  BY DEF Store!Init, TrustedFrom, TrustPhases
<1>3. PullReturnsRecorded
  BY DEF Store!Init, PullReturnsRecorded, Store!PullReturnsRecorded
<1> QED BY <1>1, <1>2, <1>3 DEF TrustInv

\* The hub only moves on to later images.
LEMMA ReplaceKeepsTrust ==
  ASSUME Returning = FALSE, StoreInv, TrustInv, Store!Replace
  PROVE  TrustInv'
<1>1. /\ hubVersion' \in Versions /\ hubVersion' > hubVersion /\ hubVersion \in Versions
      /\ UNCHANGED <<file, record, chunkFiles, slice, pullPc, policy, digest, announced, body>>
  BY DEF Store!Replace, Store!disk, StoreInv, Store!TypeOK
<1>2. hubVersion \in Nat /\ hubVersion' \in Nat
  BY <1>1, StoreConstants
<1>3. Contents(hubVersion) \subseteq Contents(hubVersion')
  BY <1>1, <1>2, ContentsGrow
<1>4. OfHub'
  BY <1>1, <1>3 DEF TrustInv, OfHub
<1>5. /\ Older(hubVersion) => Older(hubVersion')
      /\ TrustedFrom(hubVersion) => TrustedFrom(hubVersion')
  BY <1>1, <1>2, OlderStays
<1>6. TrustedFrom(hubVersion)'
  BY <1>1, <1>5 DEF TrustInv, TrustedFrom, Older
<1>7. TrustPhases'
  <2>1. pullPc \in {"request", "chunks", "merge", "open", "copy"} => Older(hubVersion)'
    BY <1>1, <1>5 DEF TrustInv, TrustPhases, Older
  <2>2. \A v \in Versions : v <= hubVersion => v <= hubVersion'
    BY <1>1, <1>2, StoreConstants
  <2> QED BY <1>1, <2>1, <2>2 DEF TrustInv, TrustPhases, Announced, TrustedFrom, Older
<1>8. PullReturnsRecorded'
  BY <1>1 DEF TrustInv, PullReturnsRecorded, Store!PullReturnsRecorded
<1> QED BY <1>4, <1>6, <1>7, <1>8 DEF TrustInv

LEMMA CachedKeepsTrust ==
  ASSUME StoreInv, TrustInv, Store!Cached
  PROVE  TrustInv'
<1>1. /\ pullPc = "cached" /\ record' = Store!Loaded
      /\ UNCHANGED <<hubVersion, policy, file, chunkFiles, slice, digest, announced, body>>
  BY DEF Store!Cached, Store!Goto, Store!Keep
<1>2. digest = announced
  BY <1>1 DEF TrustInv, TrustPhases
<1>3. PICK v \in Versions : /\ v <= hubVersion /\ Announced(v)
                            /\ {file, record} \ {None} \subseteq Contents(v) /\ TrustedFrom(v)
  BY <1>1 DEF TrustInv, TrustPhases
<1>4. digest = Store!Image(v) /\ digest # None /\ hubVersion \in Versions
  BY <1>2, <1>3, StoreConstants, ContentFacts DEF Announced, StoreInv, Store!TypeOK
<1>5. record' \in {file, record} /\ (record # None => record' = record)
  BY <1>1 DEF Store!Loaded
<1>6. OfHub'
  BY <1>1, <1>5 DEF TrustInv, OfHub
<1>7. TrustedFrom(hubVersion)'
  BY <1>1, <1>5 DEF TrustInv, TrustedFrom, Older, Store!Loaded
<1>8. CASE Store!Meta = digest
  <2>1. pullPc' = "ok" /\ file # None /\ record' = digest
    BY <1>1, <1>4, <1>8 DEF Store!Cached, Store!Goto, Store!Meta
  <2>2. file = digest
    <3>1. CASE record = None
      BY <1>1, <2>1, <3>1 DEF Store!Loaded
    <3>2. CASE record # None
      <4>1. record = Store!Image(v)
        BY <1>4, <1>5, <2>1, <3>2
      <4>2. ~Older(v)
        BY <4>1, StoreConstants DEF Older
      <4> QED BY <1>3, <1>4, <3>2, <4>1, <4>2 DEF TrustedFrom
    <3> QED BY <3>1, <3>2
  <2> QED BY <1>1, <1>6, <1>7, <2>1, <2>2
          DEF TrustInv, TrustPhases, PullReturnsRecorded, Store!PullReturnsRecorded
<1>9. CASE Store!Meta # digest
  <2>1. pullPc' \in {"request", "chunks"}
    BY <1>9 DEF Store!Cached, Store!Goto
  <2>2. record' # digest
    <3>1. CASE file = None
      BY <1>1, <1>4, <3>1 DEF StoreInv, RecordHasFile, Store!RecordHasFile, Store!Loaded
    <3>2. CASE file # None
      BY <1>1, <1>9, <3>2 DEF Store!Meta
    <3> QED BY <3>1, <3>2
  <2>3. record' \in Contents(v) \cup {None}
    BY <1>3, <1>5
  <2>4. \A w \in Versions : w >= v => record' # Store!Image(w)
    <3> SUFFICES ASSUME NEW w \in Versions, w >= v, record' = Store!Image(w) PROVE FALSE
      OBVIOUS
    <3>1. record' # None /\ w > v
      BY <1>4, <2>2, StoreConstants, ContentFacts
    <3> QED BY <2>3, <3>1, LaterImage
  <2>5. Older(hubVersion)'
    BY <1>1, <1>3, <1>4, <2>4, StoreConstants DEF Older
  <2> QED BY <1>1, <1>6, <1>7, <2>1, <2>5
          DEF TrustInv, TrustPhases, PullReturnsRecorded, Store!PullReturnsRecorded
<1> QED BY <1>8, <1>9

LEMMA GetInfoKeepsTrust ==
  ASSUME StoreInv, TrustInv, Store!GetInfo
  PROVE  TrustInv'
<1>1. /\ pullPc' = "cached" /\ digest' = Store!Image(hubVersion) /\ announced' = digest'
      /\ UNCHANGED <<hubVersion, policy, file, record, chunkFiles, slice, body>>
  BY DEF Store!GetInfo, Store!Goto, Store!Keep, Store!disk
<1>2. hubVersion \in Versions /\ hubVersion \in Nat
  BY StoreConstants DEF StoreInv, Store!TypeOK
<1>3. Store!Image(hubVersion) \in Contents(hubVersion)
  BY <1>2, ImageOfHub
<1>4. OfHub'
  BY <1>1, <1>3 DEF TrustInv, OfHub
<1>5. TrustedFrom(hubVersion)'
  BY <1>1 DEF TrustInv, TrustedFrom, Older
<1>6. Announced(hubVersion)' /\ {file', record'} \ {None} \subseteq Contents(hubVersion)
  BY <1>1, <1>2, <1>4 DEF Announced, OfHub
<1>7. TrustPhases'
  BY <1>1, <1>2, <1>5, <1>6 DEF TrustPhases, Announced, TrustedFrom, Older
<1>8. PullReturnsRecorded'
  BY <1>1 DEF PullReturnsRecorded, Store!PullReturnsRecorded
<1> QED BY <1>4, <1>5, <1>7, <1>8 DEF TrustInv

LEMMA NextTrust ==
  ASSUME Returning = FALSE, StoreInv, StoreInv', TrustInv, Store!Next
  PROVE  TrustInv'
<1> USE StoreConstants, ContentFacts
    DEF TrustInv, OfHub, TrustPhases, PullReturnsRecorded, Store!PullReturnsRecorded,
        StoreInv, Store!TypeOK, Store!disk, Store!Goto, Store!Keep
<1>0. <<>> \in Contents(hubVersion)
  BY EmptySeq DEF Contents
<1>1. CASE Store!Replace
  BY <1>1, ReplaceKeepsTrust
<1>2. CASE Store!Crash
  BY <1>2 DEF Store!Crash, TrustedFrom, Older
<1>3. CASE Store!Forget \/ Store!RemoveFile
  BY <1>3 DEF Store!Forget, Store!RemoveFile, TrustedFrom
<1>4. CASE Store!Pull
  BY <1>4 DEF Store!Pull, TrustedFrom, Older
<1>5. CASE Store!NewImage
  BY <1>5 DEF Store!NewImage, Store!Loaded, Store!Meta, TrustedFrom, Older
<1>6. CASE Store!GetInfo
  BY <1>6, GetInfoKeepsTrust
<1>7. CASE Store!Cached
  BY <1>7, CachedKeepsTrust
<1>8. CASE Store!Request
  BY <1>8, ImageOfHub DEF Store!Request, TrustedFrom, Older
<1>9. CASE Store!OpenFile
  BY <1>0, <1>9 DEF Store!OpenFile, TrustedFrom, Older
<1>10. CASE Store!Copy
  <2>1. body \in Contents(hubVersion)
    BY <1>10 DEF Store!Copy, FilePhases
  <2>2. Store!Torn(body) \subseteq Contents(hubVersion)
    BY <2>1, TornIsContent DEF Contents
  <2> QED BY <1>10, <2>1, <2>2 DEF Store!Copy, TrustedFrom, Older
<1>11. CASE Store!Update
  BY <1>11 DEF Store!Update, TrustedFrom
<1>12. CASE Store!Verify
  BY <1>12 DEF Store!Verify, Store!Loaded, Store!Meta, FilePhases, TrustedFrom
<1>13. CASE Store!Collect
  BY <1>0, <1>13 DEF Store!Collect, TrustedFrom, Older
<1>14. ASSUME NEW i \in Store!Indices, Store!MergeSlice(i) PROVE TrustInv'
  <2>1. /\ pullPc = "merge" /\ pullPc' = "merge" /\ i \in todo
        /\ body' = body \o chunkFiles[i] /\ slice' = Store!Over(body', slice)
        /\ UNCHANGED <<hubVersion, policy, file, record, chunkFiles, digest, announced>>
    BY <1>14 DEF Store!MergeSlice
  <2>2. {body, chunkFiles[i], slice} \subseteq Contents(hubVersion)
    BY <2>1 DEF FilePhases
  <2>3. body' \in Contents(hubVersion)
    BY <2>1, <2>2, ConcatProperties DEF Contents
  <2>4. slice' \in Contents(hubVersion)
    BY <2>1, <2>2, <2>3, OverIsContent DEF Contents
  <2> QED BY <2>1, <2>3, <2>4 DEF TrustedFrom, Older
<1>15. CASE Store!CopyFrom
  BY <1>15 DEF Store!CopyFrom, TrustedFrom, Older
<1>16. CASE Store!CleanSlice
  BY <1>16 DEF Store!CleanSlice, TrustedFrom, Older
<1>17. ASSUME NEW i \in Store!Indices, Store!GetChunk(i) \/ Store!ChunkBreaks(i)
       PROVE  TrustInv'
  <2>1. /\ pullPc = "chunks"
        /\ UNCHANGED <<hubVersion, policy, file, record, slice, pullPc, digest, announced, body>>
    BY <1>17 DEF Store!GetChunk, Store!ChunkBreaks
  <2>2. PICK p \in {Store!Served(i)} \cup Store!Torn(Store!Served(i)) :
          chunkFiles' = [chunkFiles EXCEPT ![i] = Store!Over(p, @)]
    BY <1>17 DEF Store!GetChunk, Store!ChunkBreaks
  <2>3. [version : {hubVersion}, at : Nat]
          \subseteq [version : {v \in Versions : v <= hubVersion}, at : Nat]
    OBVIOUS
  <2>4. p \in Contents(hubVersion)
    <3>1. i \in Nat /\ hubVersion \in Versions
      OBVIOUS
    <3>2. Store!Served(i) \in Contents(hubVersion)
      BY <2>3, <3>1, ServedIsContent DEF Contents
    <3>3. Store!Torn(Store!Served(i)) \subseteq Contents(hubVersion)
      BY <3>2, TornIsContent DEF Contents
    <3> QED BY <2>2, <3>2, <3>3
  <2>5. Store!Over(p, chunkFiles[i]) \in Contents(hubVersion)
    BY <2>4, OverIsContent DEF Contents
  <2>6. \A j \in Store!Indices : chunkFiles'[j] \in Contents(hubVersion) \cup {None}
    BY <2>2, <2>5
  <2> QED BY <2>1, <2>6 DEF TrustedFrom, Older
<1>18. ASSUME NEW i \in Store!Indices, Store!GiveUp(i) PROVE TrustInv'
  BY <1>18 DEF Store!GiveUp, TrustedFrom, Older
<1> QED BY <1>1, <1>2, <1>3, <1>4, <1>5, <1>6, <1>7, <1>8, <1>9, <1>10, <1>11, <1>12,
           <1>13, <1>14, <1>15, <1>16, <1>17, <1>18
        DEF Store!Next, Store!Step, Store!Worker

-----------------------------------------------------------------------------
(* Pulls: what they promise.  A behaviour of TransferSpec is one command; the *)
(* other commands leave the disk of the client alone.                        *)

LEMMA PullSteps ==
  [TransferNext]_TransferVars => Store!Next \/ UNCHANGED pullVars
BY DEF TransferNext, TransferVars, Pushing, Pulling, Cutting

LEMMA OtherKeepsStore == StoreInv /\ UNCHANGED pullVars => StoreInv'
<1> SUFFICES ASSUME StoreInv, UNCHANGED pullVars PROVE StoreInv'
  OBVIOUS
<1>1. UNCHANGED <<hubVersion, file, record, chunkFiles, slice, pullPc, policy, digest,
                  announced, body, todo, failed, left>>
  BY DEF pullVars
<1> QED BY <1>1 DEF StoreInv, Store!TypeOK, FilePhases, Announced, RecordHasFile,
                    Store!RecordHasFile

LEMMA OtherKeepsTrust == TrustInv /\ UNCHANGED pullVars => TrustInv'
<1> SUFFICES ASSUME TrustInv, UNCHANGED pullVars PROVE TrustInv'
  OBVIOUS
<1>1. UNCHANGED <<hubVersion, file, record, chunkFiles, slice, pullPc, policy, digest,
                  announced, body>>
  BY DEF pullVars
<1> QED BY <1>1 DEF TrustInv, OfHub, TrustedFrom, Older, TrustPhases, Announced,
                    PullReturnsRecorded, Store!PullReturnsRecorded

LEMMA StoreInvariant == TransferSpec => []StoreInv
<1>1. TransferInit => StoreInv
  BY InitStore DEF TransferInit
<1>2. StoreInv /\ [TransferNext]_TransferVars => StoreInv'
  BY PullSteps, NextStore, OtherKeepsStore
<1> QED BY <1>1, <1>2, PTL DEF TransferSpec

LEMMA TrustInvariant == Returning = FALSE => (TransferSpec => []TrustInv)
<1> SUFFICES ASSUME Returning = FALSE PROVE TransferSpec => []TrustInv
  OBVIOUS
<1>1. TransferInit => TrustInv
  BY InitTrust DEF TransferInit
<1>2. StoreInv /\ StoreInv' /\ TrustInv /\ [TransferNext]_TransferVars => TrustInv'
  BY PullSteps, NextTrust, OtherKeepsTrust
<1> QED BY <1>1, <1>2, StoreInvariant, PTL DEF TransferSpec

\* Whatever crashes, breaks off or is replaced, and whether or not the hub goes
\* back to an old image: the metadata database (client/types/image.go) never
\* has a record of an image whose file is not there.
THEOREM RecordsHaveFiles == TransferSpec => []RecordHasFile
<1>1. StoreInv => RecordHasFile
  BY DEF StoreInv
<1> QED BY <1>1, StoreInvariant, PTL

\* If the hub never goes back to an earlier image, a pull that succeeds leaves
\* a file of which record and img.Digest are the digest, although a crash may
\* have left the record of one image beside the torn file of another.
THEOREM PullsReturnRecorded ==
  Returning = FALSE => (TransferSpec => []PullReturnsRecorded)
<1> SUFFICES ASSUME Returning = FALSE PROVE TransferSpec => []PullReturnsRecorded
  OBVIOUS
<1>1. TrustInv => PullReturnsRecorded
  BY DEF TrustInv
<1> QED BY <1>1, TrustInvariant, PTL

-----------------------------------------------------------------------------
(* Cuts: the arithmetic of chunks *)

LEMMA RangeConstants == Ranges!ConstantsOK
BY TransfersAssumption

\* The number of chunks is the least that holds the bytes.
LEMMA CeilIsLeast ==
  ASSUME NEW s \in Nat \ {0}, NEW c \in Nat \ {0}
  PROVE  LET n == Ranges!Ceil(s, c)
         IN n \in Nat \ {0} /\ (n - 1) * c < s /\ s <= n * c
BY DEF Ranges!Ceil

\* The ranges of a copy: full ones, and one more for what is left.
LEMMA FloorAndRest ==
  ASSUME NEW s \in Nat \ {0}, NEW c \in Nat \ {0}
  PROVE  LET q == s \div c
             n == IF s > q * c THEN q + 1 ELSE q
         IN n \in Nat \ {0} /\ (n - 1) * c < s /\ s <= n * c
<1> DEFINE q == s \div c
<1>1. q \in Nat /\ q * c <= s /\ s < (q + 1) * c
  OBVIOUS
<1>2. (q + 1 - 1) * c = q * c
  BY <1>1
<1>3. (q - 1) * c = q * c - c
  BY <1>1
<1>4. s = q * c => q # 0
  OBVIOUS
<1> HIDE DEF q
<1> QED BY <1>1, <1>2, <1>3, <1>4 DEF q

LEMMA UnsignedOf ==
  ASSUME NEW n \in Int, -Word < n, n < Word
  PROVE  Ranges!Unsigned(n) = IF n < 0 THEN n + Word ELSE n
<1>1. Word \in Nat
  BY RangeConstants DEF Ranges!ConstantsOK
<1>2. CASE n < 0
  <2>1. n % Word = n + Word
    BY <1>1, <1>2
  <2> QED BY <1>2, <2>1 DEF Ranges!Unsigned
<1>3. CASE n >= 0
  <2>1. n % Word = n
    BY <1>1, <1>3
  <2> QED BY <1>3, <2>1 DEF Ranges!Unsigned
<1> QED BY <1>2, <1>3

\* What is left of a file as the hub computes it: the difference itself.
LEMMA SignedUnsigned ==
  ASSUME NEW n \in Int, -(Word \div 2) < n, n < Word \div 2
  PROVE  Ranges!Signed(Ranges!Unsigned(n)) = n
<1>1. Word \in Nat
  BY RangeConstants DEF Ranges!ConstantsOK
<1>2. -Word < n /\ n < Word
  BY <1>1
<1>3. Ranges!Unsigned(n) = IF n < 0 THEN n + Word ELSE n
  BY <1>2, UnsignedOf
<1> QED BY <1>1, <1>2, <1>3 DEF Ranges!Signed

\* A size written as text and read again is positive and not twice as large.
LEMMA HumanizedBounds ==
  ASSUME NEW s \in Nat \ {0}
  PROVE  Ranges!Humanized(s) \in 1 .. 2 * s
<1>1. CASE s < 1000
  BY <1>1 DEF Ranges!Humanized
<1>2. CASE s >= 1000 /\ s < 1000000
  <2>1. Ranges!Unit(s) = 1000
    BY <1>2 DEF Ranges!Unit
  <2> QED BY <1>2, <2>1 DEF Ranges!Humanized, Ranges!HalfToEven
<1>3. CASE s >= 1000000
  <2>1. Ranges!Unit(s) = 1000000
    BY <1>3 DEF Ranges!Unit
  <2> QED BY <1>3, <2>1 DEF Ranges!Humanized, Ranges!HalfToEven
<1> QED BY <1>1, <1>2, <1>3

-----------------------------------------------------------------------------
(* Cuts: the jobs *)

\* What a job is, and what it never becomes.
JobOK ==
  /\ job.kind \in Jobs
  /\ job.chunk \in ChunkSizes /\ job.size \in Ranges!Sizes(job.chunk)
  /\ job.stored \in Nat /\ job.stored <= job.size
  /\ job.kind # "pull" => job.stored = job.size
  /\ job.first \in -1 .. MaxPieces + 2 /\ (job.kind # "ask" => job.first = 0)

LEMMA SizeBounds ==
  ASSUME JobOK
  PROVE  /\ job.chunk \in Nat \ {0, 1} /\ job.size \in Nat \ {0} /\ MaxPieces \in Nat \ {0}
         /\ job.size <= MaxPieces * job.chunk + 1
         /\ job.size < Word \div 2 /\ 2 * job.chunk < Word \div 2
         /\ MaxPieces + 2 < Word \div 2 /\ Word \in Nat
<1> DEFINE c == job.chunk
<1>1. c \in Nat \ {0, 1} /\ MaxPieces \in Nat \ {0} /\ Word \in Nat
      /\ (MaxPieces + 2) * c + 1 < Word \div 2
  BY RangeConstants DEF JobOK, Ranges!ConstantsOK
<1>2. PICK k \in 1 .. MaxPieces, d \in {-1, 0, 1} : job.size = k * c + d
  BY DEF JobOK, Ranges!Sizes
<1>3. (MaxPieces + 2) * c = MaxPieces * c + 2 * c
  BY <1>1
<1>4. k * c <= MaxPieces * c /\ c <= k * c /\ k * c \in Nat /\ MaxPieces * c \in Nat
  BY <1>1
<1>5. MaxPieces + 2 <= (MaxPieces + 2) * c
  BY <1>1
<1>6. Word \div 2 \in Nat
  BY <1>1
<1> HIDE DEF c
<1> QED BY <1>1, <1>2, <1>3, <1>4, <1>5, <1>6 DEF c

\* The number of pieces of a job that is more than one request.
LEMMA CountOf ==
  ASSUME JobOK, job.kind # "ask"
  PROVE  LET n == Ranges!Count(job)
         IN /\ n \in Nat \ {0} /\ n <= MaxPieces + 1 /\ Ranges!Pieces = 0 .. n - 1
            /\ (n - 1) * job.chunk < job.size /\ job.size <= n * job.chunk
            /\ job.size \in Nat \ {0} /\ job.chunk \in Nat \ {0} /\ job.first = 0
<1> DEFINE n == Ranges!Count(job)
           c == job.chunk
<1>1. c \in Nat \ {0, 1} /\ job.size \in Nat \ {0} /\ MaxPieces \in Nat \ {0}
      /\ job.size <= MaxPieces * c + 1
  BY SizeBounds
<1>2. n \in Nat \ {0} /\ (n - 1) * c < job.size /\ job.size <= n * c
  <2>1. CASE job.kind = "move"
    BY <1>1, <2>1, FloorAndRest DEF Ranges!Count
  <2>2. CASE job.kind # "move"
    <3>1. n = Ranges!Ceil(job.size, c)
      BY <2>2 DEF Ranges!Count, Ranges!SliceNum
    <3> QED BY <1>1, <3>1, CeilIsLeast
  <2> QED BY <2>1, <2>2
<1>3. n <= MaxPieces + 1
  <2>1. SUFFICES ASSUME n > MaxPieces + 1 PROVE FALSE
    BY <1>1, <1>2
  <2>2. n - 1 >= MaxPieces + 1
    BY <1>1, <1>2, <2>1
  <2>3. (n - 1) * c >= (MaxPieces + 1) * c
    BY <1>1, <1>2, <2>2
  <2>4. (MaxPieces + 1) * c = MaxPieces * c + c
    BY <1>1
  <2>5. (n - 1) * c \in Nat /\ MaxPieces * c \in Nat
    BY <1>1, <1>2
  <2> HIDE DEF n, c
  <2> QED BY <1>1, <1>2, <2>3, <2>4, <2>5
<1>4. Ranges!Pieces = 0 .. n - 1
  BY <1>2 DEF Ranges!Pieces, JobOK
<1> QED BY <1>1, <1>2, <1>3, <1>4 DEF JobOK

-----------------------------------------------------------------------------
(* Cuts: what the hub serves *)

Asked == Ranges!AskedSize(job.chunk)

\* A request that is not refused names a slice of the image or the one behind
\* the last: of the first kind all bytes are served, of the other none.
LEMMA ServedOf ==
  ASSUME JobOK, NEW i \in -1 .. MaxPieces + 2, ~Ranges!Refused(job, i)
  PROVE  LET p == Ranges!Served(job, i)
         IN /\ i \in Nat /\ Asked \in Nat \ {0} /\ i * Asked \in Nat
            /\ p = [offset |-> i * Asked, limit |-> p.limit, read |-> 0]
            /\ i * Asked < job.size =>
                 /\ p.limit = Ranges!Least(Asked, job.size - i * Asked)
                 /\ p.limit > 0
            /\ i * Asked >= job.size => p.limit = 0
<1> DEFINE a == Asked
           n == Ranges!Ceil(job.size, a)
           w == Word \div 2
           left1 == job.size - i * a
<1>1. /\ job.chunk \in Nat \ {0, 1} /\ job.size \in Nat \ {0} /\ MaxPieces \in Nat \ {0}
      /\ job.size < w /\ 2 * job.chunk < w /\ MaxPieces + 2 < w /\ Word \in Nat
  BY SizeBounds
<1>2. a \in Nat \ {0} /\ a < w
  BY <1>1, HumanizedBounds DEF Asked, Ranges!AskedSize
<1> HIDE DEF a
<1>3. n \in Nat \ {0} /\ (n - 1) * a < job.size /\ job.size <= n * a
  BY <1>1, <1>2, CeilIsLeast
<1>4. ~(Ranges!Unsigned(i) > n)
  BY DEF Ranges!Refused, Ranges!SliceNum, a, Asked
<1> HIDE DEF n
<1>5. w \in Nat /\ 2 * w <= Word
  BY <1>1
<1> HIDE DEF w
<1>6. n <= job.size
  <2>1. n - 1 <= (n - 1) * a
    BY <1>2, <1>3
  <2> QED BY <1>1, <1>2, <1>3, <2>1
<1>7. Ranges!Unsigned(i) = IF i < 0 THEN i + Word ELSE i
  BY <1>1, <1>5, UnsignedOf
<1>8. i \in Nat /\ i <= n
  BY <1>1, <1>3, <1>4, <1>5, <1>6, <1>7
<1>9. i * a \in Nat /\ i * a < job.size + a
  <2>1. i * a <= n * a /\ n * a = (n - 1) * a + a /\ i * a \in Nat
    BY <1>2, <1>3, <1>8
  <2>2. (n - 1) * a \in Int
    BY <1>2, <1>3
  <2> QED BY <1>1, <1>2, <1>3, <2>1, <2>2
<1>10. Ranges!Signed(Ranges!Unsigned(left1)) = left1
  <2>1. left1 \in Int /\ -w < left1 /\ left1 < w
    BY <1>1, <1>2, <1>5, <1>9
  <2> HIDE DEF left1
  <2> QED BY <2>1, SignedUnsigned DEF w
<1> DEFINE p == Ranges!Served(job, i)
<1>11. p = [offset |-> i * a, read |-> 0,
            limit |-> LET content == IF i * a + a > job.size THEN left1 ELSE a
                      IN IF content < 0 THEN 0 ELSE content]
  BY <1>10 DEF Ranges!Served, a, Asked
<1> HIDE DEF p
<1> QED BY <1>1, <1>2, <1>8, <1>9, <1>11 DEF Ranges!Least, a, p

\* A slice that begins within the image is not refused when client and hub
\* mean the same size.
LEMMA NotRefused ==
  ASSUME JobOK, Asked = job.chunk, job.kind = "pull", NEW i \in Ranges!Pieces
  PROVE  ~Ranges!Refused(job, i) /\ i * job.chunk < job.size
<1> DEFINE n == Ranges!Count(job)
<1>1. n \in 1 .. MaxPieces + 1 /\ i \in 0 .. n - 1 /\ (n - 1) * job.chunk < job.size
  <2>1. job.kind # "ask"
    OBVIOUS
  <2> QED BY <2>1, CountOf
<1>2. n = Ranges!SliceNum(job.size, Asked)
  BY DEF JobOK, Ranges!Count, Asked
<1> HIDE DEF n
<1>3. i \in Int /\ -Word < i /\ i < Word /\ i >= 0 /\ i <= n
  BY <1>1, SizeBounds
<1>4. Ranges!Unsigned(i) = i
  BY <1>3, UnsignedOf
<1>5. i * job.chunk <= (n - 1) * job.chunk
  BY <1>1, SizeBounds
<1>6. i * job.chunk \in Nat /\ (n - 1) * job.chunk \in Nat
  BY <1>1, SizeBounds
<1> QED BY <1>1, <1>2, <1>3, <1>4, <1>5, <1>6, SizeBounds DEF Ranges!Refused, Asked

-----------------------------------------------------------------------------
(* Cuts: the invariant *)

Piece == [at : Nat, from : Nat, to : Nat]
Last  == pieces[Len(pieces)]

\* A piece is of the image and not empty; the next one is put behind it.
PiecesOK ==
  /\ pieces \in Seq(Piece)
  /\ \A k \in 1 .. Len(pieces) :
       pieces[k].from < pieces[k].to /\ pieces[k].to <= job.size

\* Where a job stands that cuts by itself: behind its idx-th piece.
CutHere ==
  job.kind \notin {"pull", "ask"} =>
    /\ piece = Ranges!NoPiece /\ result # "error" /\ Len(pieces) = idx
    /\ \A k \in 1 .. Len(pieces) :
         /\ pieces[k].at = (k - 1) * job.chunk /\ pieces[k].from = (k - 1) * job.chunk
         /\ pieces[k].to = Ranges!Least(k * job.chunk, job.size)

\* The answer that is being read: the rest of the slice idx of the hub.
AnswerOK ==
  /\ piece \in [offset : Nat, limit : Nat, read : Nat]
  /\ piece # Ranges!NoPiece =>
       /\ job.kind \in {"pull", "ask"} /\ idx \in Ranges!Pieces /\ idx \in Nat
       /\ piece.offset = idx * Asked /\ piece.read <= piece.limit
       /\ idx * Asked < job.size =>
            piece.limit = Ranges!Least(Asked, job.size - idx * Asked) /\ piece.limit > 0
       /\ idx * Asked >= job.size => piece.limit = 0

\* A single request: the pieces are the bytes of its slice, one after the other.
AskOK ==
  job.kind = "ask" =>
    /\ idx = job.first /\ piece = Ranges!NoPiece => pieces = <<>>
    /\ piece # Ranges!NoPiece => Ranges!End = piece.read
    /\ pieces # <<>> => job.first \in Nat /\ job.first * Asked \in Nat
    /\ \A k \in 1 .. Len(pieces) :
         /\ pieces[k].from = job.first * Asked + pieces[k].at
         /\ pieces[k].to <= Ranges!Least(job.first * Asked + Asked, job.size)

\* A pull with one meaning of the size: everything up to here is there.
PullOK ==
  job.kind = "pull" /\ Asked = job.chunk =>
    /\ \A k \in 1 .. Len(pieces) :
         /\ pieces[k].at = pieces[k].from
         /\ pieces[k].from = IF k = 1 THEN 0 ELSE pieces[k - 1].to
    /\ result = "none" /\ piece # Ranges!NoPiece =>
         Ranges!End = idx * job.chunk + piece.read
    /\ result = "none" /\ piece = Ranges!NoPiece =>
         Ranges!End = Ranges!Least(idx * job.chunk, job.size)
    /\ result = "ok" => Ranges!End = job.size
    /\ job.stored = job.size => result # "error"

RangeInv ==
  /\ JobOK /\ PiecesOK /\ CutHere /\ AnswerOK /\ AskOK /\ PullOK
  /\ idx \in job.first .. job.first + Ranges!Count(job)
  /\ result \in {"none", "ok", "error"}
  /\ result = "ok" => idx \notin Ranges!Pieces
-----------------------------------------------------------------------------
(* Cuts: the invariant is kept *)

LEMMA EndOf ==
  ASSUME PiecesOK
  PROVE  /\ Ranges!End = IF pieces = <<>> THEN 0 ELSE Last.at + (Last.to - Last.from)
         /\ Ranges!End \in Nat
         /\ pieces = <<>> <=> Len(pieces) = 0
         /\ Len(pieces) \in Nat /\ \A k \in 1 .. Len(pieces) : pieces[k] \in Piece
<1>1. pieces \in Seq(Piece)
  BY DEF PiecesOK
<1>2. /\ pieces = <<>> <=> Len(pieces) = 0
      /\ Len(pieces) \in Nat /\ \A k \in 1 .. Len(pieces) : pieces[k] \in Piece
  BY <1>1, EmptySeq, ElementOfSeq
<1>3. Ranges!End = IF pieces = <<>> THEN 0 ELSE Last.at + (Last.to - Last.from)
  BY DEF Ranges!End, Ranges!Length, Last
<1>4. CASE pieces # <<>>
  <2>1. Len(pieces) \in 1 .. Len(pieces)
    BY <1>2, <1>4
  <2>2. Last \in Piece /\ Last.from < Last.to
    BY <1>2, <2>1 DEF PiecesOK, Last
  <2> QED BY <1>2, <1>3, <1>4, <2>2 DEF Piece
<1> QED BY <1>2, <1>3, <1>4

\* One more piece, put behind the others.
LEMMA PieceAdded ==
  ASSUME PiecesOK, NEW p \in Piece, p.from < p.to, p.to <= job.size,
         pieces' = Append(pieces, p), UNCHANGED job
  PROVE  /\ PiecesOK' /\ Ranges!End' = p.at + (p.to - p.from)
         /\ Len(pieces') = Len(pieces) + 1 /\ pieces' # <<>>
         /\ pieces'[Len(pieces) + 1] = p
         /\ \A k \in 1 .. Len(pieces) : pieces'[k] = pieces[k]
<1>1. pieces \in Seq(Piece) /\ Len(pieces) \in Nat
  BY DEF PiecesOK
<1>2. /\ pieces' \in Seq(Piece) /\ Len(pieces') = Len(pieces) + 1
      /\ \A k \in 1 .. Len(pieces) : pieces'[k] = pieces[k]
      /\ pieces'[Len(pieces) + 1] = p
  BY <1>1, AppendProperties
<1>3. PiecesOK'
  BY <1>1, <1>2 DEF PiecesOK
<1>4. pieces' # <<>>
  BY <1>1, <1>2, EmptySeq
<1>5. Ranges!End' = p.at + (p.to - p.from)
  BY <1>2, <1>4 DEF Ranges!End, Ranges!Length
<1> QED BY <1>2, <1>3, <1>4, <1>5

LEMMA InitRanges == Ranges!Init => RangeInv
<1> SUFFICES ASSUME Ranges!Init PROVE RangeInv
  OBVIOUS
<1>1. idx = job.first /\ piece = Ranges!NoPiece /\ pieces = <<>> /\ result = "none"
  BY DEF Ranges!Init
<1>2. JobOK
  <2>1. \A c \in ChunkSizes : \A s \in Ranges!Sizes(c) : s \in Nat
    <3> SUFFICES ASSUME NEW c \in ChunkSizes, NEW s \in Ranges!Sizes(c) PROVE s \in Nat
      OBVIOUS
    <3>1. c \in Nat \ {0, 1} /\ MaxPieces \in Nat
      BY RangeConstants DEF Ranges!ConstantsOK
    <3>2. PICK k \in 1 .. MaxPieces, d \in {-1, 0, 1} : s = k * c + d
      BY DEF Ranges!Sizes
    <3>3. k * c >= c /\ k * c \in Nat
      BY <3>1, <3>2
    <3> QED BY <3>1, <3>2, <3>3
  <2>2. Jobs \subseteq {"push", "pull", "ask", "put", "move", "write"} /\ Missing \subseteq Nat
        /\ MaxPieces \in Nat
    BY RangeConstants DEF Ranges!ConstantsOK
  <2>3. CASE \E k \in Jobs \ {"pull", "ask"}, c \in ChunkSizes : \E s \in Ranges!Sizes(c) :
               job = Ranges!Job(k, c, s, s, 0)
    BY <2>1, <2>2, <2>3 DEF Ranges!Job, JobOK
  <2>4. CASE \E k \in Ranges!Pulls, c \in ChunkSizes, m \in Missing :
               \E s \in Ranges!Sizes(c) : m <= s /\ job = Ranges!Job(k, c, s, s - m, 0)
    BY <2>1, <2>2, <2>4 DEF Ranges!Job, JobOK, Ranges!Pulls
  <2>5. CASE \E k \in Ranges!Asks, c \in ChunkSizes : \E s \in Ranges!Sizes(c) :
               \E i \in -1 .. MaxPieces + 2 : job = Ranges!Job(k, c, s, s, i)
    BY <2>1, <2>2, <2>5 DEF Ranges!Job, JobOK, Ranges!Asks
  <2> QED BY <2>3, <2>4, <2>5 DEF Ranges!Init
<1>3. PiecesOK /\ Len(pieces) = 0 /\ Ranges!End = 0
  BY <1>1 DEF PiecesOK, Ranges!End
<1>4. Ranges!Count(job) \in Nat /\ job.first \in Int
  BY <1>2, CountOf, SizeBounds DEF JobOK, Ranges!Count
<1>5. CutHere /\ AnswerOK /\ AskOK
  BY <1>1, <1>2, <1>3 DEF CutHere, AnswerOK, AskOK, Ranges!NoPiece, JobOK
<1>6. PullOK
  BY <1>1, <1>2, <1>3, SizeBounds DEF PullOK, Ranges!Least, JobOK
<1> QED BY <1>1, <1>2, <1>3, <1>4, <1>5, <1>6 DEF RangeInv

\* The job at idx cuts itself: every formula gives the piece behind the last.
LEMMA PieceCut ==
  ASSUME RangeInv, job.kind \notin {"pull", "ask"}, idx \in Ranges!Pieces,
         NEW p,
         \/ job.kind = "push"  /\ p = Ranges!PushPiece(job, idx)
         \/ job.kind = "put"   /\ p = Ranges!PutPiece(job, idx)
         \/ job.kind = "move"  /\ p = Ranges!MovePiece(job, idx)
         \/ job.kind = "write" /\ p = Ranges!WritePiece(job, idx)
  PROVE  /\ p \in Piece /\ p.from < p.to /\ p.to <= job.size
         /\ p = Ranges!Range(idx * job.chunk, idx * job.chunk,
                             Ranges!Least((idx + 1) * job.chunk, job.size))
         /\ idx \in Nat
<1> DEFINE n == Ranges!Count(job)
           c == job.chunk
           s == job.size
           from == idx * c
           to == Ranges!Least((idx + 1) * c, s)
<1>1. /\ n \in Nat \ {0} /\ idx \in 0 .. n - 1 /\ (n - 1) * c < s /\ s <= n * c
      /\ c \in Nat \ {0} /\ s \in Nat
  <2>1. JobOK /\ job.kind # "ask"
    BY DEF RangeInv
  <2> QED BY <2>1, CountOf
<1>2. from \in Nat /\ (idx + 1) * c = from + c /\ from <= (n - 1) * c /\ (n - 1) * c \in Nat
  BY <1>1
<1>3. from < s
  BY <1>1, <1>2
<1>4. idx < n - 1 => (idx + 1) * c <= (n - 1) * c
  BY <1>1
<1>5. to = IF idx = n - 1 THEN s ELSE from + c
  BY <1>1, <1>2, <1>4 DEF Ranges!Least
<1>6. from < to /\ to <= s /\ to \in Nat
  BY <1>1, <1>2, <1>3 DEF Ranges!Least
<1>7. Ranges!End = from
  <2>1. PiecesOK /\ Len(pieces) = idx
    BY DEF RangeInv, CutHere
  <2>2. CASE idx = 0
    BY <1>1, <2>1, <2>2, EndOf
  <2>3. CASE idx # 0
    <3>1. idx \in 1 .. Len(pieces) /\ Last = pieces[idx]
      BY <1>1, <2>1, <2>3 DEF Last
    <3>2. Last.at = (idx - 1) * c /\ Last.from = (idx - 1) * c
          /\ Last.to = Ranges!Least(idx * c, s)
      BY <3>1 DEF RangeInv, CutHere
    <3>3. Last.to = from
      BY <1>1, <1>2, <1>3, <3>2 DEF Ranges!Least
    <3>4. Last \in Piece
      BY <2>1, <3>1, EndOf
    <3>5. pieces # <<>>
      BY <2>1, <2>3, EndOf
    <3> QED BY <2>1, <3>2, <3>3, <3>4, <3>5, EndOf DEF Piece
  <2> QED BY <2>2, <2>3
<1>8. p = Ranges!Range(from, from, to)
  <2>1. CASE job.kind = "push"
    BY <2>1 DEF Ranges!PushPiece
  <2>2. CASE job.kind = "put"
    <3>1. p = Ranges!Range(from, from, from + (IF idx = n - 1 THEN s - from ELSE c))
      BY <1>7, <2>2 DEF Ranges!PutPiece
    <3> HIDE DEF from, to, n, c, s
    <3> QED BY <1>1, <1>2, <1>5, <3>1
  <2>3. CASE job.kind = "move"
    <3>1. p = Ranges!Range(from, from, (IF idx = n - 1 THEN s - 1 ELSE (idx + 1) * c - 1) + 1)
      BY <1>7, <2>3 DEF Ranges!MovePiece
    <3> HIDE DEF from, to, n, c, s
    <3> QED BY <1>1, <1>2, <1>5, <3>1
  <2>4. CASE job.kind = "write"
    <3>1. p = Ranges!Range(from, from, from + (IF idx = n - 1 THEN s - from ELSE c))
      BY <2>4 DEF Ranges!WritePiece
    <3> HIDE DEF from, to, n, c, s
    <3> QED BY <1>1, <1>2, <1>5, <3>1
  <2> QED BY <2>1, <2>2, <2>3, <2>4
<1> HIDE DEF to, from
<1>9. p \in Piece /\ p.from < p.to /\ p.to <= s
  BY <1>2, <1>6, <1>8 DEF Piece, Ranges!Range
<1> QED BY <1>1, <1>8, <1>9 DEF from, to

LEMMA CutKeeps == ASSUME RangeInv, Ranges!Cut PROVE RangeInv'
<1>1. PICK p : 
      /\ \/ job.kind = "push"  /\ p = Ranges!PushPiece(job, idx)
         \/ job.kind = "put"   /\ p = Ranges!PutPiece(job, idx)
         \/ job.kind = "move"  /\ p = Ranges!MovePiece(job, idx)
         \/ job.kind = "write" /\ p = Ranges!WritePiece(job, idx)
      /\ pieces' = Append(pieces, p)
      /\ idx' = idx + 1 /\ UNCHANGED <<job, piece, result>>
  BY DEF Ranges!Cut, Ranges!Append1
<1>2. result = "none" /\ idx \in Ranges!Pieces /\ job.kind \notin {"pull", "ask"}
  BY <1>1 DEF Ranges!Cut
<1>3. /\ p \in Piece /\ p.from < p.to /\ p.to <= job.size /\ idx \in Nat
      /\ p = Ranges!Range(idx * job.chunk, idx * job.chunk,
                          Ranges!Least((idx + 1) * job.chunk, job.size))
  BY <1>1, <1>2, PieceCut
<1>4. /\ PiecesOK' /\ Len(pieces') = Len(pieces) + 1
      /\ pieces'[Len(pieces) + 1] = p
      /\ \A k \in 1 .. Len(pieces) : pieces'[k] = pieces[k]
  BY <1>1, <1>3, PieceAdded DEF RangeInv
<1>5. Len(pieces) = idx
  BY <1>2 DEF RangeInv, CutHere
<1>6. CutHere'
  <2>1. ASSUME NEW k \in 1 .. Len(pieces')
        PROVE  /\ pieces'[k].at = (k - 1) * job.chunk /\ pieces'[k].from = (k - 1) * job.chunk
               /\ pieces'[k].to = Ranges!Least(k * job.chunk, job.size)
    <3>1. CASE k \in 1 .. Len(pieces)
      BY <1>2, <1>4, <3>1 DEF RangeInv, CutHere
    <3>2. CASE k = idx + 1
      <4>1. k - 1 = idx
        BY <1>3, <3>2
      <4> QED BY <1>3, <1>4, <1>5, <3>2, <4>1 DEF Ranges!Range
    <3> QED BY <1>3, <1>4, <1>5, <3>1, <3>2
  <2>2. piece' = Ranges!NoPiece' /\ result' # "error" /\ Len(pieces') = idx'
    BY <1>1, <1>2, <1>4, <1>5 DEF RangeInv, CutHere, Ranges!NoPiece
  <2> QED BY <1>1, <2>1, <2>2 DEF CutHere, Ranges!Least
<1>7. JobOK' /\ AskOK' /\ PullOK' /\ AnswerOK' 
  BY <1>1, <1>2 DEF RangeInv, JobOK, AskOK, PullOK, AnswerOK, CutHere, Ranges!NoPiece
<1>8. idx' \in job'.first .. job'.first + Ranges!Count(job)'
  <2>1. Ranges!Count(job)' = Ranges!Count(job)
    BY <1>1 DEF Ranges!Count
  <2>2. Ranges!Count(job) \in Nat /\ Ranges!Pieces = 0 .. Ranges!Count(job) - 1 /\ job.first = 0
    BY <1>2, CountOf, SizeBounds DEF RangeInv, JobOK
  <2> QED BY <1>1, <1>2, <1>3, <2>1, <2>2
<1> QED BY <1>1, <1>2, <1>4, <1>6, <1>7, <1>8 DEF RangeInv

\* The bounds of what is asked for, and nothing of it beyond the image.
LEMMA AnswerBounds ==
  ASSUME RangeInv, piece # Ranges!NoPiece
  PROVE  /\ Asked \in Nat \ {0} /\ idx * Asked \in Nat /\ idx \in Nat
         /\ piece.offset = idx * Asked /\ piece.limit \in Nat /\ piece.read \in 0 .. piece.limit
         /\ piece.limit > 0 =>
              /\ idx * Asked < job.size
              /\ piece.offset + piece.limit = Ranges!Least((idx + 1) * Asked, job.size)
              /\ piece.limit = Ranges!Least(Asked, job.size - idx * Asked)
<1>1. /\ idx \in Nat /\ piece \in [offset : Nat, limit : Nat, read : Nat]
      /\ piece.offset = idx * Asked /\ piece.read <= piece.limit
      /\ idx * Asked < job.size =>
           piece.limit = Ranges!Least(Asked, job.size - idx * Asked) /\ piece.limit > 0
      /\ idx * Asked >= job.size => piece.limit = 0
  BY DEF RangeInv, AnswerOK
<1>2. job.chunk \in Nat \ {0} /\ job.size \in Nat
  BY SizeBounds DEF RangeInv
<1>3. Asked \in Nat \ {0}
  BY <1>2, HumanizedBounds DEF Asked, Ranges!AskedSize
<1>4. idx * Asked \in Nat /\ (idx + 1) * Asked = idx * Asked + Asked
  BY <1>1, <1>3
<1> QED BY <1>1, <1>2, <1>3, <1>4 DEF Ranges!Least

LEMMA AskKeeps == ASSUME RangeInv, Ranges!Ask PROVE RangeInv'
<1>1. /\ result = "none" /\ idx \in Ranges!Pieces /\ piece = Ranges!NoPiece
      /\ job.kind \in {"pull", "ask"} /\ UNCHANGED <<job, idx, pieces>>
  BY DEF Ranges!Ask
<1>2. /\ idx \in -1 .. MaxPieces + 2
      /\ job.kind = "ask" => idx = job.first /\ pieces = <<>>
  <2>1. JobOK
    BY DEF RangeInv
  <2>2. CASE job.kind = "ask"
    <3>1. idx = job.first
      BY <1>1, <2>1, <2>2 DEF Ranges!Pieces, Ranges!Count, JobOK
    <3> QED BY <1>1, <2>1, <2>2, <3>1 DEF RangeInv, AskOK, JobOK
  <2>3. CASE job.kind = "pull"
    BY <1>1, <2>1, <2>3, CountOf, SizeBounds
  <2> QED BY <1>1, <2>2, <2>3
<1>3. CASE Ranges!Refused(job, idx)
  <2>1. result' = "error" /\ piece' = piece
    BY <1>1, <1>3 DEF Ranges!Ask
  <2>2. job.kind = "pull" => Asked # job.chunk
    BY <1>1, <1>3, NotRefused DEF RangeInv
  <2> QED BY <1>1, <2>1, <2>2 DEF RangeInv, JobOK, PiecesOK, CutHere, AnswerOK, AskOK, PullOK,
             Ranges!NoPiece, Ranges!Count, Ranges!Pieces, Ranges!End, Asked
<1>4. CASE ~Ranges!Refused(job, idx)
  <2>1. piece' = Ranges!Served(job, idx) /\ result' = result
    BY <1>1, <1>4 DEF Ranges!Ask
  <2> DEFINE off == idx * Asked
             lim == piece'.limit
  <2>2. /\ idx \in Nat /\ Asked \in Nat \ {0} /\ off \in Nat
        /\ piece' = [offset |-> off, limit |-> lim, read |-> 0]
        /\ off < job.size => lim = Ranges!Least(Asked, job.size - off) /\ lim > 0
        /\ off >= job.size => lim = 0
    BY <1>2, <1>4, <2>1, ServedOf DEF RangeInv
  <2>3. lim \in Nat
    BY <2>2, SizeBounds DEF RangeInv, Ranges!Least
  <2> HIDE DEF lim
  <2>4. AnswerOK'
    BY <1>1, <2>2, <2>3
       DEF AnswerOK, Ranges!NoPiece, Ranges!Pieces, Ranges!Count, Asked, Ranges!Least
  <2>5. AskOK'
    <3>1. CASE job.kind = "ask"
      <4>1. pieces' = <<>> /\ piece'.read = 0 /\ Ranges!End' = 0
        BY <1>1, <1>2, <2>2, <3>1 DEF Ranges!End
      <4>2. Len(pieces') = 0
        BY <4>1
      <4> QED BY <4>1, <4>2 DEF AskOK
    <3> QED BY <1>1, <3>1 DEF AskOK
  <2>6. PullOK'
    <3>1. CASE job.kind = "pull" /\ Asked = job.chunk
      <4>1. off < job.size
        BY <1>1, <3>1, NotRefused DEF RangeInv
      <4>2. Ranges!End = off /\ Ranges!End' = Ranges!End
        BY <1>1, <2>2, <3>1, <4>1 DEF RangeInv, PullOK, Ranges!Least, Ranges!End
      <4>3. piece' # Ranges!NoPiece /\ piece'.read = 0
        BY <2>2, <2>3, <4>1 DEF Ranges!NoPiece
      <4> QED BY <1>1, <2>1, <2>2, <3>1, <4>2, <4>3 DEF RangeInv, PullOK, Asked, Ranges!NoPiece
    <3> QED BY <1>1, <3>1 DEF PullOK, Asked
  <2>7. JobOK' /\ PiecesOK' /\ CutHere'
    BY <1>1 DEF RangeInv, JobOK, PiecesOK, CutHere
  <2> QED BY <1>1, <2>1, <2>4, <2>5, <2>6, <2>7 DEF RangeInv, Ranges!Count, Ranges!Pieces
<1> QED BY <1>3, <1>4

LEMMA ReadKeeps == ASSUME RangeInv, Ranges!Read PROVE RangeInv'
<1> DEFINE place == Ranges!Place
           to == Ranges!Least(place + Ranges!Wanted, job.stored)
           p == Ranges!Range(Ranges!End, place, to)
<1>1. /\ piece # Ranges!NoPiece /\ result = "none" /\ Ranges!Wanted > 0 /\ place < job.stored
      /\ pieces' = Append(pieces, p)
      /\ piece' = [piece EXCEPT !.read = @ + (to - place)]
      /\ UNCHANGED <<job, idx, result>>
  BY DEF Ranges!Read, Ranges!InObject
<1>2. /\ Asked \in Nat \ {0} /\ idx * Asked \in Nat /\ idx \in Nat
      /\ piece.offset = idx * Asked /\ piece.limit \in Nat /\ piece.read \in 0 .. piece.limit
      /\ piece.limit > 0 =>
           /\ idx * Asked < job.size
           /\ piece.offset + piece.limit = Ranges!Least((idx + 1) * Asked, job.size)
           /\ piece.limit = Ranges!Least(Asked, job.size - idx * Asked)
  BY <1>1, AnswerBounds
<1>3. Buffer \in Nat \ {0} /\ job.stored \in Nat /\ job.stored <= job.size /\ job.size \in Nat
  BY RangeConstants, SizeBounds DEF RangeInv, JobOK, Ranges!ConstantsOK
<1> DEFINE off == idx * Asked
<1>21. /\ off \in Nat /\ piece.offset = off
       /\ piece.limit > 0 =>
            /\ off < job.size /\ piece.limit = Ranges!Least(Asked, job.size - off)
            /\ off + piece.limit <= job.size
  BY <1>2, <1>3 DEF Ranges!Least
<1> HIDE DEF off
<1>4. /\ place = piece.offset + piece.read /\ place \in Nat
      /\ Ranges!Wanted \in Nat /\ Ranges!Wanted <= piece.limit - piece.read /\ piece.limit > 0
  <2> DEFINE r == piece.limit - piece.read
  <2>1. r \in Nat /\ r <= piece.limit
    BY <1>2
  <2>2. Ranges!Wanted \in Nat /\ Ranges!Wanted <= r
    BY <1>3, <2>1 DEF Ranges!Wanted, Ranges!Least
  <2>3. place = piece.offset + piece.read
    BY DEF Ranges!Place
  <2> HIDE DEF place, r
  <2>4. piece.read \in Nat /\ piece.offset \in Nat /\ piece.limit \in Nat
    BY <1>2, <1>21
  <2>5. piece.limit > 0
    BY <1>1, <2>1, <2>2, <2>4
  <2> QED BY <2>2, <2>3, <2>4, <2>5 DEF r
<1>5. to \in Nat /\ place < to /\ to <= job.size /\ to <= piece.offset + piece.limit
  <2> HIDE DEF place
  <2>1. piece.read \in Nat /\ piece.offset \in Nat /\ piece.limit \in Nat
    BY <1>2, <1>21
  <2>2. Ranges!Wanted \in Nat \ {0} /\ place < job.stored
    BY <1>1, <1>4
  <2>3. to = IF place + Ranges!Wanted < job.stored THEN place + Ranges!Wanted ELSE job.stored
    BY DEF Ranges!Least
  <2> HIDE DEF to
  <2> QED BY <1>3, <1>4, <2>1, <2>2, <2>3
<1>6. piece'.offset = piece.offset /\ piece'.limit = piece.limit
      /\ piece'.read = piece.read + (to - place) /\ piece'.read \in 0 .. piece.limit
      /\ piece' \in [offset : Nat, limit : Nat, read : Nat] /\ piece' # Ranges!NoPiece
  <2> HIDE DEF to, place
  <2>1. piece \in [offset : Nat, limit : Nat, read : Nat]
    BY DEF RangeInv, AnswerOK
  <2>2. piece.read \in Nat /\ piece.offset \in Nat /\ piece.limit \in Nat
    BY <2>1
  <2>3. piece' = [offset |-> piece.offset, limit |-> piece.limit,
                  read |-> piece.read + (to - place)]
    BY <1>1, <2>1
  <2>4. piece.read + (to - place) \in 0 .. piece.limit
    BY <1>2, <1>4, <1>5, <2>2
  <2> QED BY <1>4, <2>2, <2>3, <2>4 DEF Ranges!NoPiece
<1> HIDE DEF to, place
<1>7. Ranges!End \in Nat /\ PiecesOK /\ Len(pieces) \in Nat
      /\ \A k \in 1 .. Len(pieces) : pieces[k] \in Piece
  BY EndOf DEF RangeInv
<1>8. p \in Piece /\ p.from = place /\ p.to = to /\ p.at = Ranges!End
  BY <1>4, <1>5, <1>7 DEF Piece, Ranges!Range
<1> HIDE DEF p
<1>9. /\ PiecesOK' /\ Ranges!End' = Ranges!End + (to - place)
      /\ Len(pieces') = Len(pieces) + 1 /\ pieces' # <<>>
      /\ pieces'[Len(pieces) + 1] = p
      /\ \A k \in 1 .. Len(pieces) : pieces'[k] = pieces[k]
  BY <1>1, <1>5, <1>7, <1>8, PieceAdded
<1>10. job.kind \in {"pull", "ask"} /\ idx \in Ranges!Pieces
  BY <1>1 DEF RangeInv, AnswerOK
<1>11. AnswerOK'
  BY <1>1, <1>6, <1>10 DEF RangeInv, AnswerOK, Ranges!Pieces, Ranges!Count, Asked, Ranges!Least,
     Ranges!NoPiece
<1>12. AskOK'
  <2>1. CASE job.kind = "ask"
    <3>1. idx = job.first
      BY <1>2, <1>10, <2>1 DEF Ranges!Pieces, Ranges!Count, RangeInv, JobOK
    <3>2. Ranges!End = piece.read
      BY <1>1, <2>1 DEF RangeInv, AskOK
    <3>3. Ranges!End' = piece'.read
      BY <1>6, <1>9, <3>2
    <3>4. p.from = job.first * Asked + p.at
      BY <1>2, <1>4, <1>8, <3>1, <3>2
    <3>5. p.to <= Ranges!Least(job.first * Asked + Asked, job.size)
      <4>1. (idx + 1) * Asked = idx * Asked + Asked
        BY <1>2
      <4> QED BY <1>2, <1>4, <1>5, <1>8, <3>1, <4>1
    <3>6. ASSUME NEW k \in 1 .. Len(pieces')
          PROVE  /\ pieces'[k].from = job.first * Asked + pieces'[k].at
                 /\ pieces'[k].to <= Ranges!Least(job.first * Asked + Asked, job.size)
      <4>1. CASE k \in 1 .. Len(pieces)
        BY <1>9, <2>1, <4>1 DEF RangeInv, AskOK
      <4>2. CASE k = Len(pieces) + 1
        BY <1>9, <3>4, <3>5, <4>2
      <4> QED BY <1>7, <1>9, <4>1, <4>2
    <3> QED BY <1>1, <1>2, <1>6, <3>1, <3>3, <3>6 DEF AskOK, Asked, Ranges!Least, Ranges!NoPiece
  <2> QED BY <1>1, <2>1 DEF AskOK
<1>13. PullOK'
  <2>1. CASE job.kind = "pull" /\ Asked = job.chunk
    <3>1. Ranges!End = idx * job.chunk + piece.read
      BY <1>1, <2>1 DEF RangeInv, PullOK
    <3>2. Ranges!End' = idx * job.chunk + piece'.read
      <4>1. piece.read \in Nat /\ off = idx * job.chunk
        BY <1>2, <2>1 DEF off
      <4>2. piece'.read = piece.read + (to - place) /\ Ranges!End' = Ranges!End + (to - place)
        BY <1>6, <1>9
      <4>3. to \in Nat /\ place \in Nat /\ off \in Nat
        BY <1>4, <1>5, <1>21
      <4> QED BY <3>1, <4>1, <4>2, <4>3
    <3>3. p.at = p.from
      BY <1>2, <1>4, <1>8, <2>1, <3>1
    <3>4. p.from = IF Len(pieces) = 0 THEN 0 ELSE pieces[Len(pieces)].to
      <4>1. CASE Len(pieces) = 0
        BY <1>8, <3>3, <4>1, EndOf DEF RangeInv
      <4>2. CASE Len(pieces) # 0
        <5>1. Len(pieces) \in 1 .. Len(pieces) /\ pieces # <<>>
          BY <1>7, <4>2, EndOf
        <5>2. Last.at = Last.from /\ Last \in Piece
          BY <1>7, <2>1, <5>1 DEF RangeInv, PullOK, Last
        <5>3. Ranges!End = Last.to
          BY <1>7, <5>1, <5>2, EndOf DEF Piece
        <5> QED BY <1>8, <3>3, <4>2, <5>3 DEF Last
      <4> QED BY <4>1, <4>2
    <3>5. ASSUME NEW k \in 1 .. Len(pieces')
          PROVE  /\ pieces'[k].at = pieces'[k].from
                 /\ pieces'[k].from = IF k = 1 THEN 0 ELSE pieces'[k - 1].to
      <4>1. CASE k \in 1 .. Len(pieces)
        <5>1. k # 1 => k - 1 \in 1 .. Len(pieces)
          BY <1>7, <4>1
        <5> QED BY <1>9, <2>1, <4>1, <5>1 DEF RangeInv, PullOK
      <4>2. CASE k = Len(pieces) + 1
        <5>1. k # 1 => k - 1 \in 1 .. Len(pieces) /\ k - 1 = Len(pieces)
          BY <1>7, <4>2
        <5> QED BY <1>7, <1>9, <3>3, <3>4, <4>2, <5>1
      <4> QED BY <1>7, <1>9, <4>1, <4>2
    <3> QED BY <1>1, <1>6, <3>2, <3>5 DEF PullOK, Asked, Ranges!NoPiece
  <2> QED BY <1>1, <2>1 DEF PullOK, Asked
<1>14. JobOK' /\ CutHere'
  BY <1>1, <1>10 DEF RangeInv, JobOK, CutHere
<1> QED BY <1>1, <1>9, <1>11, <1>12, <1>13, <1>14 DEF RangeInv, Ranges!Count, Ranges!Pieces

LEMMA NextPieceKeeps == ASSUME RangeInv, Ranges!NextPiece PROVE RangeInv'
<1>1. /\ piece # Ranges!NoPiece /\ result = "none" /\ (Ranges!Wanted = 0 \/ ~Ranges!InObject)
      /\ result' = IF piece.read = piece.limit THEN "none" ELSE "error"
      /\ piece' = Ranges!NoPiece /\ idx' = idx + 1
      /\ UNCHANGED <<job, pieces>>
  BY DEF Ranges!NextPiece, Ranges!Answered
<1>2. job.kind \in {"pull", "ask"} /\ idx \in Ranges!Pieces /\ idx \in Nat
  BY <1>1 DEF RangeInv, AnswerOK
<1>3. JobOK' /\ PiecesOK' /\ CutHere'
  BY <1>1, <1>2 DEF RangeInv, JobOK, PiecesOK, CutHere
<1>4. AnswerOK'
  BY <1>1 DEF AnswerOK, Ranges!NoPiece
<1>5. AskOK'
  <2>1. CASE job.kind = "ask"
    <3>1. idx = job.first /\ idx' # job'.first
      BY <1>1, <1>2, <2>1 DEF Ranges!Pieces, Ranges!Count, RangeInv, JobOK
    <3> QED BY <1>1, <2>1, <3>1
            DEF RangeInv, AskOK, Asked, Ranges!Least, Ranges!NoPiece
  <2> QED BY <1>1, <2>1 DEF AskOK
<1>6. PullOK'
  <2>1. CASE job.kind = "pull" /\ Asked = job.chunk
    <3> DEFINE off == idx * job.chunk
               next1 == (idx + 1) * job.chunk
    <3>1. /\ off \in Nat /\ off < job.size /\ next1 = off + job.chunk
          /\ job.chunk \in Nat \ {0} /\ job.size \in Nat
      BY <1>2, <2>1, NotRefused, SizeBounds DEF RangeInv
    <3>2. /\ piece.offset = off /\ piece.limit \in Nat /\ piece.read \in 0 .. piece.limit
          /\ piece.limit = Ranges!Least(job.chunk, job.size - off)
      BY <1>1, <2>1, <3>1 DEF RangeInv, AnswerOK
    <3>3. Ranges!End = off + piece.read
      BY <1>1, <2>1 DEF RangeInv, PullOK
    <3> HIDE DEF off, next1
    <3>4. off + piece.limit = Ranges!Least(next1, job.size)
      BY <3>1, <3>2 DEF Ranges!Least
    <3>5. Ranges!End' = Ranges!End
      BY <1>1 DEF Ranges!End, Ranges!Length
    <3>6. job.stored = job.size => piece.read = piece.limit
      <4>1. SUFFICES ASSUME job.stored = job.size, piece.read # piece.limit PROVE FALSE
        OBVIOUS
      <4>2. Buffer \in Nat \ {0}
        BY RangeConstants DEF Ranges!ConstantsOK
      <4>3. Ranges!Wanted # 0
        BY <3>2, <4>1, <4>2 DEF Ranges!Wanted, Ranges!Least
      <4>4. ~(piece.offset + piece.read < job.size)
        BY <1>1, <4>1, <4>3 DEF Ranges!InObject, Ranges!Place
      <4>5. off + piece.limit <= job.size
        BY <3>1, <3>2 DEF Ranges!Least
      <4> QED BY <3>1, <3>2, <4>1, <4>4, <4>5
    <3>7. result' = "none" => Ranges!End' = Ranges!Least(idx' * job'.chunk, job'.size)
      BY <1>1, <3>3, <3>4, <3>5 DEF next1
    <3>8. \A k \in 1 .. Len(pieces') :
            /\ pieces'[k].at = pieces'[k].from
            /\ pieces'[k].from = IF k = 1 THEN 0 ELSE pieces'[k - 1].to
      BY <1>1, <2>1 DEF RangeInv, PullOK
    <3>9. job'.stored = job'.size => result' # "error"
      BY <1>1, <3>6
    <3> QED BY <1>1, <3>7, <3>8, <3>9 DEF PullOK, Ranges!NoPiece, Ranges!Least
  <2> QED BY <1>1, <2>1 DEF PullOK, Asked
<1>7. idx' \in job'.first .. job'.first + Ranges!Count(job)'
  <2>1. Ranges!Count(job)' = Ranges!Count(job)
    BY <1>1 DEF Ranges!Count
  <2>2. Ranges!Count(job) \in Nat /\ job.first \in Int
    BY CountOf, SizeBounds DEF RangeInv, JobOK, Ranges!Count
  <2> QED BY <1>1, <1>2, <2>1, <2>2 DEF Ranges!Pieces
<1> QED BY <1>1, <1>3, <1>4, <1>5, <1>6, <1>7 DEF RangeInv

LEMMA DoneKeeps == ASSUME RangeInv, Ranges!Done PROVE RangeInv'
<1>1. /\ result = "none" /\ idx \notin Ranges!Pieces /\ result' = "ok"
      /\ UNCHANGED <<job, idx, piece, pieces>>
  BY DEF Ranges!Done
<1>2. piece = Ranges!NoPiece
  BY <1>1 DEF RangeInv, AnswerOK
<1>3. PullOK'
  <2>1. CASE job.kind = "pull" /\ Asked = job.chunk
    <3> DEFINE n == Ranges!Count(job)
    <3>1. /\ n \in Nat \ {0} /\ Ranges!Pieces = 0 .. n - 1 /\ job.size <= n * job.chunk
          /\ job.size \in Nat /\ job.chunk \in Nat /\ job.first = 0
      <4>1. JobOK /\ job.kind # "ask"
        BY <2>1 DEF RangeInv
      <4> QED BY <4>1, CountOf
    <3>2. idx \in 0 .. n
      BY <3>1 DEF RangeInv
    <3> HIDE DEF n
    <3>3. idx = n
      BY <1>1, <3>1, <3>2
    <3>4. Ranges!End = Ranges!Least(n * job.chunk, job.size)
      BY <1>1, <1>2, <2>1, <3>3 DEF RangeInv, PullOK
    <3>5. n * job.chunk \in Nat
      BY <3>1
    <3>6. Ranges!End = job.size
      BY <3>1, <3>4, <3>5 DEF Ranges!Least
    <3>7. Ranges!End' = job'.size
      BY <1>1, <3>6 DEF Ranges!End, Ranges!Length
    <3> QED BY <1>1, <2>1, <3>7 DEF RangeInv, PullOK
  <2> QED BY <1>1, <2>1 DEF PullOK, Asked
<1>4. AskOK' /\ AnswerOK'
  BY <1>1 DEF RangeInv, AskOK, AnswerOK, Asked, Ranges!Pieces, Ranges!Count, Ranges!NoPiece,
              Ranges!End, Ranges!Least
<1> QED BY <1>1, <1>3, <1>4 DEF RangeInv, JobOK, PiecesOK, CutHere, Ranges!Pieces, Ranges!Count,
              Ranges!NoPiece, Ranges!Least

LEMMA NextRanges == RangeInv /\ Ranges!Next => RangeInv'
BY CutKeeps, AskKeeps, ReadKeeps, NextPieceKeeps, DoneKeeps DEF Ranges!Next

LEMMA OtherKeepsRanges == RangeInv /\ UNCHANGED cutVars => RangeInv'
<1> SUFFICES ASSUME RangeInv, UNCHANGED cutVars PROVE RangeInv'
  OBVIOUS
<1>1. UNCHANGED <<job, idx, piece, pieces, result>>
  BY DEF cutVars
<1> QED BY <1>1 DEF RangeInv, JobOK, PiecesOK, CutHere, AnswerOK, AskOK, PullOK, Asked,
              Ranges!Pieces, Ranges!Count, Ranges!NoPiece, Ranges!End, Ranges!Least

LEMMA RangeInvariant == TransferSpec => []RangeInv
<1>1. TransferInit => RangeInv
  BY InitRanges DEF TransferInit
<1>2. [TransferNext]_TransferVars => Ranges!Next \/ UNCHANGED cutVars
  BY DEF TransferNext, TransferVars, Pushing, Pulling, Cutting
<1>3. RangeInv /\ [TransferNext]_TransferVars => RangeInv'
  BY <1>2, NextRanges, OtherKeepsRanges
<1> QED BY <1>1, <1>3, PTL DEF TransferSpec

-----------------------------------------------------------------------------
(* Cuts: what they promise *)

\* Client and hub mean the same size in a pull: no chunk size changes when it
\* is written as text with a unit and read again.
SizesAgree == "pull" \in Jobs => \A c \in ChunkSizes : Ranges!AskedSize(c) = c

LEMMA RangesTyped == RangeInv => Ranges!TypeOK
<1> SUFFICES ASSUME RangeInv PROVE Ranges!TypeOK
  OBVIOUS
<1>1. Ranges!Count(job) \in 1 .. MaxPieces + 1 /\ job.first \in -1 .. MaxPieces + 2
      /\ MaxPieces \in Nat \ {0}
  BY CountOf, SizeBounds DEF RangeInv, JobOK, Ranges!Count
<1>2. idx \in job.first .. job.first + Ranges!Count(job)
  BY DEF RangeInv
<1>3. idx \in -1 .. 2 * MaxPieces + 4
  BY <1>1, <1>2
<1>4. job.size \in Nat /\ job.size <= Word /\ Word \in Nat
  BY SizeBounds DEF RangeInv
<1>5. ASSUME NEW n \in DOMAIN pieces
      PROVE  /\ pieces[n].at \in Nat /\ pieces[n].from \in Nat
             /\ pieces[n].to \in pieces[n].from .. Word
  <2>1. pieces \in Seq(Piece) /\ n \in 1 .. Len(pieces)
    BY DEF RangeInv, PiecesOK
  <2>2. pieces[n] \in Piece
    BY <2>1, ElementOfSeq
  <2>3. pieces[n].from < pieces[n].to /\ pieces[n].to <= job.size
    BY <2>1 DEF RangeInv, PiecesOK
  <2> QED BY <1>4, <2>2, <2>3 DEF Piece
<1> QED BY <1>3, <1>5 DEF Ranges!TypeOK, RangeInv

LEMMA CutTiles ==
  ASSUME RangeInv, job.kind \notin {"pull", "ask"}, result = "ok"
  PROVE  Ranges!Tiles
<1> DEFINE n == Ranges!Count(job)
           c == job.chunk
           s == job.size
<1>1. /\ n \in Nat \ {0} /\ Ranges!Pieces = 0 .. n - 1 /\ (n - 1) * c < s /\ s <= n * c
      /\ c \in Nat \ {0} /\ s \in Nat /\ job.first = 0
  <2>1. JobOK /\ job.kind # "ask"
    BY DEF RangeInv
  <2> QED BY <2>1, CountOf
<1>2. idx \in 0 .. n /\ idx \notin Ranges!Pieces
  BY <1>1 DEF RangeInv
<1> HIDE DEF n, c, s
<1>3. Len(pieces) = n /\ PiecesOK
  BY <1>1, <1>2 DEF RangeInv, CutHere
<1>4. ASSUME NEW k \in 1 .. n
      PROVE  /\ pieces[k].at = (k - 1) * c /\ pieces[k].from = (k - 1) * c
             /\ pieces[k].to = IF k = n THEN s ELSE k * c
             /\ (k - 1) * c \in Nat /\ pieces[k] \in Piece
  <2>1. pieces[k].at = (k - 1) * c /\ pieces[k].from = (k - 1) * c
        /\ pieces[k].to = Ranges!Least(k * c, s)
    BY <1>3 DEF RangeInv, CutHere, c, s
  <2>2. k # n => k * c <= (n - 1) * c
    BY <1>1
  <2>3. k * c \in Nat /\ (n - 1) * c \in Nat /\ n * c \in Nat /\ (k - 1) * c \in Nat
    BY <1>1
  <2>4. pieces[k] \in Piece
    BY <1>3, EndOf
  <2>5. k # n => k * c < s
    BY <1>1, <2>2, <2>3
  <2>6. Ranges!Least(k * c, s) = IF k = n THEN s ELSE k * c
    BY <1>1, <2>3, <2>5 DEF Ranges!Least
  <2> QED BY <2>1, <2>3, <2>4, <2>6
<1>5. pieces # <<>> /\ DOMAIN pieces = 1 .. n
  BY <1>1, <1>3, EndOf DEF PiecesOK
<1>6. Ranges!End = s
  <2>1. n \in 1 .. n
    BY <1>1
  <2>2. Last.at = Last.from /\ Last.to = s /\ Last \in Piece
    BY <1>3, <1>4, <2>1 DEF Last
  <2> QED BY <1>1, <1>3, <1>5, <2>2, EndOf DEF Piece
<1>7. ASSUME NEW k \in DOMAIN pieces
      PROVE  /\ pieces[k].at = pieces[k].from
             /\ k > 1 => pieces[k].from = pieces[k - 1].to
  <2>1. k > 1 => k - 1 \in 1 .. n /\ k - 1 # n
    BY <1>1, <1>5
  <2>2. k > 1 => pieces[k - 1].to = (k - 1) * c
    BY <1>4, <2>1
  <2> QED BY <1>4, <1>5, <2>2
<1> QED BY <1>5, <1>6, <1>7 DEF Ranges!Tiles, s

LEMMA PullTiles ==
  ASSUME RangeInv, job.kind = "pull", Asked = job.chunk, result = "ok"
  PROVE  Ranges!Tiles
<1>1. Ranges!End = job.size /\ job.size \in Nat \ {0}
  BY SizeBounds DEF RangeInv, PullOK
<1>2. pieces # <<>> /\ DOMAIN pieces = 1 .. Len(pieces)
  BY <1>1, EndOf DEF RangeInv, PiecesOK
<1>3. \A k \in 1 .. Len(pieces) :
        /\ pieces[k].at = pieces[k].from
        /\ pieces[k].from = IF k = 1 THEN 0 ELSE pieces[k - 1].to
  BY DEF RangeInv, PullOK
<1> QED BY <1>1, <1>2, <1>3 DEF Ranges!Tiles

LEMMA WholeByParts ==
  ASSUME RangeInv, SizesAgree
  PROVE  WholeImage
<1>1. \A n \in DOMAIN pieces : Ranges!Length(pieces[n]) > 0
  <2>1. ASSUME NEW n \in DOMAIN pieces PROVE Ranges!Length(pieces[n]) > 0
    <3>1. n \in 1 .. Len(pieces) /\ pieces[n] \in Piece
      BY ElementOfSeq DEF RangeInv, PiecesOK
    <3>2. pieces[n].from < pieces[n].to
      BY <3>1 DEF RangeInv, PiecesOK
    <3> QED BY <3>1, <3>2 DEF Ranges!Length, Piece
  <2> QED BY <2>1
<1>2. CASE job.kind = "pull"
  <2>1. Asked = job.chunk
    BY <1>2 DEF RangeInv, JobOK, SizesAgree, Asked
  <2> QED BY <1>1, <1>2, <2>1, PullTiles DEF WholeImage, Ranges!WholeImage
<1>3. CASE job.kind # "pull"
  BY <1>1, <1>3, CutTiles DEF WholeImage, Ranges!WholeImage
<1> QED BY <1>2, <1>3

\* Every state of a push, of pulls and of cutting is well typed, for any
\* image, any pool, any sizes and any failures.
THEOREM TypesCorrect == TransferSpec => []TypesOK
<1>1. TransferInit => PushInv
  BY InitPush DEF TransferInit
<1>2. [TransferNext]_TransferVars => [Next]_vars
  BY DEF TransferNext, TransferVars, Pushing, Pulling, Cutting
<1>3. PushInv /\ [TransferNext]_TransferVars => PushInv'
  BY <1>2, NextPush
<1>4. TransferSpec => []PushInv
  BY <1>1, <1>3, PTL DEF TransferSpec
<1>5. PushInv /\ StoreInv /\ RangeInv => TypesOK
  BY RangesTyped DEF PushInv, StoreInv, TypesOK
<1> QED BY <1>4, <1>5, StoreInvariant, RangeInvariant, PTL

\* Whatever the sizes of image and chunk: each of the six loops that cut an
\* image (client/image/chunk.go, chunk.go, image.go and s3.go of the hub) covers
\* every byte once and in its place, with no empty piece; a pull does if the
\* hub understands the size of a chunk as the client means it.
THEOREM CutsAreWhole == SizesAgree => (TransferSpec => []WholeImage)
<1> SUFFICES ASSUME SizesAgree PROVE TransferSpec => []WholeImage
  OBVIOUS
<1>1. RangeInv => WholeImage
  BY WholeByParts
<1> QED BY <1>1, RangeInvariant, PTL

\* A request for a slice (DownloadImageChunk) gets bytes of that slice only and
\* in their order, whatever index it names, although the hub computes what is
\* left in unsigned integers; and a pull of a whole object is not refused.
THEOREM AsksAreServed == SizesAgree => (TransferSpec => []SlicesServed)
<1> SUFFICES ASSUME SizesAgree PROVE TransferSpec => []SlicesServed
  OBVIOUS
<1>1. RangeInv => SlicesServed
  <2> SUFFICES ASSUME RangeInv PROVE SlicesServed
    OBVIOUS
  <2>1. Ranges!SliceOfImage
    <3> SUFFICES ASSUME job.kind = "ask", NEW n \in DOMAIN pieces
                 PROVE  /\ pieces[n].from = job.first * Asked + pieces[n].at
                        /\ pieces[n].from \in Nat
                        /\ pieces[n].to <= Ranges!Least(job.first * Asked + Asked, job.size)
      BY DEF Ranges!SliceOfImage, Asked
    <3>1. n \in 1 .. Len(pieces) /\ pieces[n] \in Piece
      BY ElementOfSeq DEF RangeInv, PiecesOK
    <3> QED BY <3>1 DEF RangeInv, AskOK, Piece
  <2>2. Ranges!PullSucceeds
    BY DEF Ranges!PullSucceeds, RangeInv, PullOK, JobOK, SizesAgree, Asked
  <2> QED BY <2>1, <2>2 DEF SlicesServed, Ranges!SlicesServed
<1> QED BY <1>1, RangeInvariant, PTL

=============================================================================
