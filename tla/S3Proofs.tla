------------------------------- MODULE S3Proofs -------------------------------
(***************************************************************************)
(* Theorems of the chunked upload over S3, for any number of requests,     *)
(* sessions and chunks: the multipart upload of a session stays open until *)
(* it is completed, and the objects are whole files of one session.        *)
(***************************************************************************)
EXTENDS S3Upload, FiniteSetTheorems, SequenceTheorems, TLAPS

-----------------------------------------------------------------------------
(* The inductive invariant *)

\* redis holds at most one chunk of an index, of the session it is listed for.
ListsKeyed ==
  \A u \in Uploads :
    /\ IsFiniteSet(list[u])
    /\ \A p \in list[u] : p.upload = u
    /\ \A p, q \in list[u] : p.idx = q.idx => p = q

\* A request works for an upload that S3 knows or has completed.
Named(w) == pc[w] # "idle" => loc[w].upload \in open \cup completed

\* Nobody else knows an upload before its session is in redis.
Starting(w) ==
  pc[w] = "info" =>
    /\ loc[w].upload \in open \ completed
    /\ info[loc[w].upload] = NoSession /\ loc[w].sess \in Session
    /\ \A v \in Workers \ {w} : pc[v] # "idle" => loc[v].upload # loc[w].upload

Carrying(w) ==
  pc[w] \in {"part", "record"} => \A p \in loc[w].part : p.upload = loc[w].upload

\* The parts of session u, in the order of the file.
InOrder(content, u) ==
  \A i \in DOMAIN content : content[i].upload = u /\ content[i].idx = i - 1

\* The order that a merge asks S3 for is that of the file, or S3 refuses it.
Merging(w) ==
  pc[w] = "complete" =>
    /\ loc[w].sess \in Session /\ info[loc[w].upload] \in {NoSession, loc[w].sess}
    /\ Len(loc[w].order) = loc[w].sess.n
    /\ Ascending(loc[w].order) => InOrder(loc[w].order, loc[w].upload)

\* What was copied in ranges so far is of one session, unless the slice object
\* was replaced.
Copying(w) ==
  /\ pc[w] \in {"complete", "digest", "head"} => loc[w].copied = <<>>
  /\ pc[w] = "parts" /\ w \notin replaced =>
       \E u \in completed :
         /\ InOrder(loc[w].copied, u)
         /\ info[u] # NoSession => loc[w].size = info[u].n
         /\ slice # Nothing => Len(slice) = loc[w].size /\ InOrder(slice, u)

WorkersOK ==
  \A w \in Workers : Named(w) /\ Starting(w) /\ Carrying(w) /\ Merging(w) /\ Copying(w)

S3Inv == TypeOK /\ SessionStaysOpen /\ ListsKeyed /\ WorkersOK /\ WholeFiles

-----------------------------------------------------------------------------
(* Lemmas *)

\* Strictly ascending numbers of 0 .. n - 1, n of them, are all of them in turn.
LEMMA AscendingIsIdentity ==
  ASSUME NEW n \in Nat, NEW f \in [1 .. n -> 0 .. n - 1],
         \A i, j \in 1 .. n : i < j => f[i] < f[j],
         NEW k \in 1 .. n
  PROVE  f[k] = k - 1
<1>1. f[k] \in 0 .. n - 1 /\ k \in Int /\ f[k] \in Int
  OBVIOUS
<1>2. k <= f[k] + 1
  <2> DEFINE g == [i \in 1 .. k |-> f[i]]
  <2>1. g \in [1 .. k -> 0 .. f[k]]
    <3>1. \A i \in 1 .. k : i \in 1 .. n /\ (i = k \/ i < k)
      BY <1>1
    <3>2. \A i \in 1 .. k : f[i] \in 0 .. n - 1 /\ f[i] <= f[k]
      <4> SUFFICES ASSUME NEW i \in 1 .. k PROVE f[i] \in 0 .. n - 1 /\ f[i] <= f[k]
        OBVIOUS
      <4>1. i \in 1 .. n /\ f[i] \in 0 .. n - 1
        BY <3>1
      <4>2. CASE i = k
        BY <1>1, <4>2
      <4>3. CASE i < k
        BY <1>1, <4>1, <4>3
      <4> QED BY <3>1, <4>2, <4>3
    <3> QED BY <1>1, <3>2
  <2>2. \A i, j \in 1 .. k : g[i] = g[j] => i = j
    <3>1. \A i, j \in 1 .. k : i \in 1 .. n /\ j \in 1 .. n /\ (i = j \/ i < j \/ j < i)
      BY <1>1
    <3>2. \A i \in 1 .. n : f[i] \in Int
      OBVIOUS
    <3> QED BY <3>1, <3>2
  <2>3. g \in Injection(1 .. k, 0 .. f[k])
    BY <2>1, <2>2 DEF Injection, IsInjective
  <2> HIDE DEF g
  <2>4. Cardinality(1 .. k) <= Cardinality(0 .. f[k])
    BY <1>1, <2>3, FS_Injection, FS_Interval
  <2> QED BY <1>1, <2>4, FS_Interval
<1>3. n - k + 1 <= n - f[k]
  <2> DEFINE g == [i \in k .. n |-> f[i]]
  <2>1. g \in [k .. n -> f[k] .. n - 1]
    <3>1. \A i \in k .. n : i \in 1 .. n /\ (i = k \/ k < i)
      BY <1>1
    <3>2. \A i \in k .. n : f[i] \in 0 .. n - 1 /\ f[k] <= f[i]
      <4> SUFFICES ASSUME NEW i \in k .. n PROVE f[i] \in 0 .. n - 1 /\ f[k] <= f[i]
        OBVIOUS
      <4>1. i \in 1 .. n /\ f[i] \in 0 .. n - 1
        BY <3>1
      <4>2. CASE i = k
        BY <1>1, <4>2
      <4>3. CASE k < i
        BY <1>1, <4>1, <4>3
      <4> QED BY <3>1, <4>2, <4>3
    <3> QED BY <1>1, <3>2
  <2>2. \A i, j \in k .. n : g[i] = g[j] => i = j
    <3>1. \A i, j \in k .. n : i \in 1 .. n /\ j \in 1 .. n /\ (i = j \/ i < j \/ j < i)
      BY <1>1
    <3>2. \A i \in 1 .. n : f[i] \in Int
      OBVIOUS
    <3> QED BY <3>1, <3>2
  <2>3. g \in Injection(k .. n, f[k] .. n - 1)
    BY <2>1, <2>2 DEF Injection, IsInjective
  <2> HIDE DEF g
  <2>4. Cardinality(k .. n) <= Cardinality(f[k] .. n - 1)
    BY <1>1, <2>3, FS_Injection, FS_Interval
  <2> QED BY <1>1, <2>4, FS_Interval
<1> DEFINE fk == f[k]
<1>4. fk \in Int /\ k <= fk + 1 /\ n - k + 1 <= n - fk
  BY <1>1, <1>2, <1>3
<1>5. fk = k - 1
  <2> HIDE DEF fk
  <2> QED BY <1>4
<1> QED BY <1>5

\* A session with a chunk of every index has as many chunks as indices.
LEMMA CompleteList ==
  ASSUME TypeOK, ListsKeyed, NEW u \in Uploads, info[u] # NoSession, Complete(u)
  PROVE  info[u] \in Session /\ Cardinality(list[u]) = info[u].n
<1> DEFINE n == info[u].n
           f == [p \in list[u] |-> p.idx]
<1>1. info[u] \in Session /\ n \in Nat \ {0}
  BY ConstantsAssumption DEF TypeOK, Session
<1>2. list[u] \in SUBSET Part /\ IsFiniteSet(list[u])
  BY DEF TypeOK, ListsKeyed
<1>3. {p.idx : p \in list[u]} = 0 .. n - 1
  BY DEF Complete
<1> HIDE DEF n
<1>4. f \in Injection(list[u], 0 .. n - 1)
  BY <1>3 DEF ListsKeyed, Injection, IsInjective
<1>5. f \in Surjection(list[u], 0 .. n - 1)
  BY <1>3 DEF Surjection
<1> HIDE DEF f
<1>6. Cardinality(0 .. n - 1) = Cardinality(list[u])
  BY <1>2, <1>4, <1>5, FS_Surjection
<1> QED BY <1>1, <1>6, FS_Interval DEF n

LEMMA OrderOfMerge ==
  ASSUME TypeOK, ListsKeyed, NEW u \in Uploads, info[u] # NoSession, Complete(u),
         NEW o \in Orders(list[u])
  PROVE  /\ o \in Content /\ Len(o) = info[u].n
         /\ Ascending(o) => InOrder(o, u)
<1> DEFINE n == info[u].n
           f == [i \in 1 .. n |-> o[i].idx]
<1>1. n \in Nat /\ Cardinality(list[u]) = n
  BY CompleteList, ConstantsAssumption DEF Session
<1>2. o \in [1 .. n -> list[u]] /\ list[u] \in SUBSET Part
  BY <1>1 DEF Orders, TypeOK
<1>3. o \in Content
  BY <1>1, <1>2, SeqDef DEF Content
<1>4. DOMAIN o = 1 .. n /\ Len(o) = n
  BY <1>1, <1>2, <1>3, LenProperties DEF Content
<1>5. \A i \in 1 .. n : o[i].upload = u /\ o[i].idx \in 0 .. n - 1
  BY <1>2 DEF ListsKeyed, Complete
<1>6. ASSUME Ascending(o) PROVE InOrder(o, u)
  <2>1. f \in [1 .. n -> 0 .. n - 1]
    BY <1>5
  <2>2. \A i, j \in 1 .. n : i < j => f[i] < f[j]
    BY <1>4, <1>6 DEF Ascending
  <2>3. \A i \in 1 .. n : f[i] = o[i].idx
    OBVIOUS
  <2> HIDE DEF f, n
  <2>4. \A i \in 1 .. n : f[i] = i - 1
    BY <1>1, <2>1, <2>2, AscendingIsIdentity
  <2> QED BY <1>4, <1>5, <2>3, <2>4 DEF InOrder
<1> QED BY <1>3, <1>4, <1>6

\* A part takes the place of the one of its index.
LEMMA WithIsKeyed ==
  ASSUME NEW s \in SUBSET Part, NEW p \in Part, IsFiniteSet(s),
         \A q, r \in s : q.idx = r.idx => q = r
  PROVE  /\ With(s, p) \in SUBSET Part /\ IsFiniteSet(With(s, p))
         /\ \A q \in With(s, p) : q \in s \/ q = p
         /\ \A q, r \in With(s, p) : q.idx = r.idx => q = r
<1>1. With(s, p) \subseteq s \cup {p}
  BY DEF With
<1>2. IsFiniteSet(s \cup {p})
  BY FS_AddElement
<1>3. IsFiniteSet(With(s, p))
  BY <1>1, <1>2, FS_Subset
<1> QED BY <1>1, <1>3 DEF With, Held

LEMMA Jumped ==
  ASSUME TypeOK, NEW w \in Workers, NEW l \in Local, NEW p \in PC, Jump(w, l, p)
  PROVE  /\ loc' \in [Workers -> Local] /\ pc' \in [Workers -> PC]
         /\ \A v \in Workers : /\ loc'[v] = IF v = w THEN l ELSE loc[v]
                               /\ pc'[v] = IF v = w THEN p ELSE pc[v]
BY DEF TypeOK, Jump

LEMMA SpendIsTyped ==
  ASSUME TypeOK, NEW e \in Events, Spend(e)
  PROVE  left' \in [Events -> Nat]
BY DEF TypeOK, Spend

LEMMA NoLocalIsLocal == NoLocal \in Local /\ Nothing \in Content
BY EmptySeq DEF NoLocal, Local, Content, Nothing

LEMMA S3Init == Init => S3Inv
<1> SUFFICES ASSUME Init PROVE S3Inv
  OBVIOUS
<1>1. TypeOK
  BY NoLocalIsLocal, ConstantsAssumption DEF Init, TypeOK, PC
<1>2. SessionStaysOpen /\ ListsKeyed
  BY FS_EmptySet DEF Init, SessionStaysOpen, ListsKeyed
<1>3. WorkersOK
  BY DEF Init, WorkersOK, Named, Starting, Carrying, Merging, Copying
<1>4. WholeFiles
  BY DEF Init, WholeFiles, WholeFile
<1> QED BY <1>1, <1>2, <1>3, <1>4 DEF S3Inv

-----------------------------------------------------------------------------
(* The invariant is kept *)

\* A worker that leaves, and nothing else changes.
LEMMA LeaveKeeps ==
  ASSUME S3Inv, NEW w \in Workers, Jump(w, NoLocal, "idle"), left' \in [Events -> Nat],
         UNCHANGED <<sessVars, s3Vars, row, histVars>>
  PROVE  S3Inv'
<1> USE DEF sessVars, s3Vars, histVars
<1>1. /\ loc' \in [Workers -> Local] /\ pc' \in [Workers -> PC]
      /\ \A v \in Workers : /\ loc'[v] = IF v = w THEN NoLocal ELSE loc[v]
                            /\ pc'[v] = IF v = w THEN "idle" ELSE pc[v]
  BY NoLocalIsLocal, Jumped DEF S3Inv, PC
<1>2. TypeOK'
  BY <1>1 DEF S3Inv, TypeOK
<1>3. SessionStaysOpen' /\ ListsKeyed' /\ WholeFiles'
  BY DEF S3Inv, SessionStaysOpen, ListsKeyed, WholeFiles, WholeFile
<1>4. WorkersOK'
  BY <1>1 DEF S3Inv, WorkersOK, Named, Starting, Carrying, Merging, Copying
<1> QED BY <1>2, <1>3, <1>4 DEF S3Inv

LEMMA CreateKeeps ==
  ASSUME S3Inv, NEW w \in Workers, NEW u \in Uploads, NEW n \in 1 .. MaxChunks,
         NEW checked \in BOOLEAN, CreateChunkWrite(w, u, n, checked)
  PROVE  S3Inv'
<1> USE DEF sessVars, s3Vars, histVars
<1> DEFINE l == [NoLocal EXCEPT !.upload = u, !.sess = [n |-> n, checked |-> checked]]
<1>1. /\ pc[w] = "idle" /\ info[u] = NoSession /\ u \notin open \cup completed
      /\ open' = open \cup {u} /\ Jump(w, l, "info") /\ UNCHANGED left
      /\ UNCHANGED <<sessVars, parts, slice, full, row, histVars>>
  BY DEF CreateChunkWrite, Go
<1>2. l \in Local /\ l.upload = u /\ l.sess \in Session
  BY NoLocalIsLocal DEF Local, NoLocal, Session
<1> HIDE DEF l
<1>3. /\ loc' \in [Workers -> Local] /\ pc' \in [Workers -> PC]
      /\ \A v \in Workers : /\ loc'[v] = IF v = w THEN l ELSE loc[v]
                            /\ pc'[v] = IF v = w THEN "info" ELSE pc[v]
  BY <1>1, <1>2, Jumped DEF S3Inv, PC
<1>4. TypeOK'
  BY <1>1, <1>3 DEF S3Inv, TypeOK
<1>5. SessionStaysOpen' /\ ListsKeyed' /\ WholeFiles'
  BY <1>1 DEF S3Inv, SessionStaysOpen, ListsKeyed, WholeFiles, WholeFile
<1>6. WorkersOK'
  BY <1>1, <1>2, <1>3 DEF S3Inv, WorkersOK, Named, Starting, Carrying, Merging, Copying
<1> QED BY <1>4, <1>5, <1>6 DEF S3Inv

LEMMA OpenSessionKeeps ==
  ASSUME S3Inv, NEW w \in Workers, OpenSession(w)
  PROVE  S3Inv'
<1> USE DEF sessVars, s3Vars, histVars
<1> DEFINE u == loc[w].upload
<1>1. /\ pc[w] = "info" /\ info' = [info EXCEPT ![u] = loc[w].sess]
      /\ Jump(w, NoLocal, "idle") /\ UNCHANGED left
      /\ UNCHANGED <<list, s3Vars, row, histVars>>
  BY DEF OpenSession, Finish, Go
<1>2. /\ u \in open /\ u \in Uploads /\ u \notin completed /\ loc[w].sess \in Session
      /\ info[u] = NoSession
      /\ \A v \in Workers \ {w} : pc[v] # "idle" => loc[v].upload # u
  BY <1>1 DEF S3Inv, TypeOK, WorkersOK, Starting
<1> HIDE DEF u
<1>3. /\ loc' \in [Workers -> Local] /\ pc' \in [Workers -> PC]
      /\ \A v \in Workers : /\ loc'[v] = IF v = w THEN NoLocal ELSE loc[v]
                            /\ pc'[v] = IF v = w THEN "idle" ELSE pc[v]
  BY <1>1, NoLocalIsLocal, Jumped DEF S3Inv, PC
<1>4. \A x \in Uploads : x # u => info'[x] = info[x]
  BY <1>1, <1>2 DEF S3Inv, TypeOK
<1>5. TypeOK'
  BY <1>1, <1>2, <1>3 DEF S3Inv, TypeOK
<1>6. SessionStaysOpen' /\ ListsKeyed'
  BY <1>1, <1>2, <1>4 DEF S3Inv, SessionStaysOpen, ListsKeyed
<1>7. completed \subseteq Uploads \ {u}
  BY <1>2 DEF S3Inv, TypeOK
<1>8. WholeFiles'
  BY <1>1, <1>4, <1>7 DEF S3Inv, WholeFiles, WholeFile
<1>9. WorkersOK'
  <2>1. ASSUME NEW v \in Workers PROVE Named(v)' /\ Starting(v)' /\ Carrying(v)'
    <3>1. CASE v = w
      BY <1>3, <3>1 DEF Named, Starting, Carrying
    <3>2. CASE v # w
      <4>1. /\ Named(v) /\ Starting(v) /\ Carrying(v)
            /\ loc'[v] = loc[v] /\ pc'[v] = pc[v]
        BY <1>3, <3>2 DEF S3Inv, WorkersOK
      <4>2. pc[v] = "info" => loc[v].upload \in Uploads /\ loc[v].upload # u
        BY <1>2, <3>2, <4>1 DEF Starting, S3Inv, TypeOK
      <4>3. Starting(v)'
        BY <1>1, <1>3, <1>4, <4>1, <4>2 DEF Starting
      <4> QED BY <1>1, <4>1, <4>3 DEF Named, Carrying
    <3> QED BY <3>1, <3>2
  <2>2. ASSUME NEW v \in Workers PROVE Merging(v)'
    <3>1. CASE v = w
      BY <1>3, <3>1 DEF Merging
    <3>2. CASE v # w
      <4>1. pc'[v] = "complete" => loc[v].upload \in Uploads /\ loc[v].upload # u
        BY <1>2, <1>3, <3>2 DEF S3Inv, TypeOK, WorkersOK, Named
      <4>2. Merging(v) /\ loc'[v] = loc[v] /\ pc'[v] = pc[v]
        BY <1>3, <3>2 DEF S3Inv, WorkersOK
      <4> QED BY <1>4, <4>1, <4>2 DEF Merging
    <3> QED BY <3>1, <3>2
  <2>3. ASSUME NEW v \in Workers PROVE Copying(v)'
    BY <1>1, <1>3, <1>4, <1>7 DEF S3Inv, WorkersOK, Copying
  <2> QED BY <2>1, <2>2, <2>3 DEF WorkersOK
<1> QED BY <1>5, <1>6, <1>8, <1>9 DEF S3Inv

LEMMA ChunkArrivesKeeps ==
  ASSUME S3Inv, NEW w \in Workers, NEW u \in Uploads, NEW idx \in 0 .. MaxChunks - 1,
         NEW body \in Bodies, ChunkArrives(w, u, idx, body)
  PROVE  S3Inv'
<1> USE DEF sessVars, s3Vars, histVars
<1> DEFINE p == [upload |-> u, idx |-> idx, body |-> body]
           l == [NoLocal EXCEPT !.upload = u, !.sess = info[u], !.part = {p}]
<1>1. /\ pc[w] = "idle" /\ idx < info[u].n /\ Spend("chunk") /\ Jump(w, l, "part")
      /\ UNCHANGED <<sessVars, s3Vars, row, histVars>>
  BY DEF ChunkArrives
<1>2. l \in Local /\ l.upload = u /\ \A q \in l.part : q.upload = u
  <2>1. p \in Part /\ p.upload = u
    BY DEF Part
  <2>2. info[u] \in Session \cup {NoSession}
    BY DEF S3Inv, TypeOK
  <2> HIDE DEF p
  <2>3. l \in Local /\ l.upload = u /\ l.part = {p}
    BY <2>1, <2>2, NoLocalIsLocal DEF Local, NoLocal
  <2> QED BY <2>1, <2>3
<1> HIDE DEF l, p
<1>3. info[u] # NoSession /\ u \in open \cup completed
  <2>1. NoSession.n = 0 /\ ~(idx < 0)
    BY DEF NoSession
  <2>2. info[u] # NoSession
    BY <1>1, <2>1
  <2> QED BY <2>2 DEF S3Inv, SessionStaysOpen
<1>4. /\ loc' \in [Workers -> Local] /\ pc' \in [Workers -> PC]
      /\ \A v \in Workers : /\ loc'[v] = IF v = w THEN l ELSE loc[v]
                            /\ pc'[v] = IF v = w THEN "part" ELSE pc[v]
  BY <1>1, <1>2, Jumped DEF S3Inv, PC
<1>5. left' \in [Events -> Nat]
  BY <1>1, SpendIsTyped DEF S3Inv, Events
<1>6. TypeOK'
  BY <1>1, <1>4, <1>5 DEF S3Inv, TypeOK
<1>7. SessionStaysOpen' /\ ListsKeyed' /\ WholeFiles'
  BY <1>1 DEF S3Inv, SessionStaysOpen, ListsKeyed, WholeFiles, WholeFile
<1>8. WorkersOK'
  BY <1>1, <1>2, <1>3, <1>4 DEF S3Inv, WorkersOK, Named, Starting, Carrying, Merging, Copying
<1> QED BY <1>6, <1>7, <1>8 DEF S3Inv

\* A worker goes on with its upload, or leaves: what redis and S3 know of the
\* uploads does not change, and the others do not notice.
LEMMA SessionsKept ==
  ASSUME S3Inv, NEW w \in Workers, NEW l \in Local, NEW p \in PC, Jump(w, l, p),
         \/ p = "idle"
         \/ p # "info" /\ pc[w] # "idle" /\ l.upload = loc[w].upload,
         UNCHANGED <<info, list, open, completed>>
  PROVE  /\ SessionStaysOpen' /\ ListsKeyed'
         /\ loc' \in [Workers -> Local] /\ pc' \in [Workers -> PC]
         /\ \A v \in Workers : /\ loc'[v] = IF v = w THEN l ELSE loc[v]
                               /\ pc'[v] = IF v = w THEN p ELSE pc[v]
         /\ \A v \in Workers : Named(v)' /\ Starting(v)'
         /\ \A v \in Workers \ {w} : Carrying(v)' /\ Merging(v)'
<1>1. /\ loc' \in [Workers -> Local] /\ pc' \in [Workers -> PC]
      /\ \A v \in Workers : /\ loc'[v] = IF v = w THEN l ELSE loc[v]
                            /\ pc'[v] = IF v = w THEN p ELSE pc[v]
  BY Jumped DEF S3Inv
<1>2. SessionStaysOpen' /\ ListsKeyed'
  BY DEF S3Inv, SessionStaysOpen, ListsKeyed
<1>3. ASSUME NEW v \in Workers PROVE Named(v)'
  BY <1>1 DEF S3Inv, WorkersOK, Named
<1>4. ASSUME NEW v \in Workers PROVE Starting(v)'
  <2>1. CASE v = w
    BY <1>1, <2>1 DEF Starting
  <2>2. CASE v # w
    <3>1. Starting(v) /\ loc'[v] = loc[v] /\ pc'[v] = pc[v]
      BY <1>1, <2>2 DEF S3Inv, WorkersOK
    <3>2. ASSUME pc[v] = "info", NEW x \in Workers \ {v}, pc'[x] # "idle"
          PROVE  loc'[x].upload # loc[v].upload
      BY <1>1, <3>1, <3>2 DEF Starting
    <3> QED BY <3>1, <3>2 DEF Starting
  <2> QED BY <2>1, <2>2
<1>5. ASSUME NEW v \in Workers \ {w} PROVE Carrying(v)' /\ Merging(v)'
  <2>1. Carrying(v) /\ Merging(v) /\ loc'[v] = loc[v] /\ pc'[v] = pc[v]
    BY <1>1 DEF S3Inv, WorkersOK
  <2> QED BY <2>1 DEF Carrying, Merging
<1> QED BY <1>1, <1>2, <1>3, <1>4, <1>5

\* The copies of the workers are kept while the slice object and the sessions
\* are.
LEMMA CopiesKept ==
  ASSUME NEW v \in Workers, Copying(v), loc'[v] = loc[v], pc'[v] = pc[v],
         slice' \in {slice, Nothing}, UNCHANGED <<info, completed>>,
         v \notin replaced' => v \notin replaced
  PROVE  Copying(v)'
BY DEF Copying, InOrder

LEMMA ChunkWriteKeeps ==
  ASSUME S3Inv, NEW w \in Workers, ChunkWrite(w)
  PROVE  S3Inv'
<1> USE DEF sessVars, s3Vars, histVars
<1> DEFINE u == loc[w].upload
<1>1. pc[w] = "part" /\ UNCHANGED <<sessVars, open, slice, full, row, histVars>>
  BY DEF ChunkWrite
<1>2. CASE u \in open
  <2>1. /\ \E p \in loc[w].part : parts' = [parts EXCEPT ![u] = With(@, p)]
        /\ Jump(w, loc[w], "record") /\ UNCHANGED left
    BY <1>2 DEF ChunkWrite, Go
  <2>2. u \in Uploads /\ loc[w] \in Local /\ loc[w].part \subseteq Part
    BY <1>2 DEF S3Inv, TypeOK, Local
  <2>3. parts' \in [Uploads -> SUBSET Part]
    BY <2>1, <2>2 DEF S3Inv, TypeOK, With, Held
  <2> HIDE DEF u
  <2>4. /\ SessionStaysOpen' /\ ListsKeyed'
        /\ loc' \in [Workers -> Local] /\ pc' \in [Workers -> PC]
        /\ \A v \in Workers : /\ loc'[v] = loc[v]
                              /\ pc'[v] = IF v = w THEN "record" ELSE pc[v]
        /\ \A v \in Workers : Named(v)' /\ Starting(v)'
        /\ \A v \in Workers \ {w} : Carrying(v)' /\ Merging(v)'
    BY <1>1, <2>1, <2>2, SessionsKept DEF PC
  <2>5. TypeOK'
    BY <1>1, <2>1, <2>3, <2>4 DEF S3Inv, TypeOK
  <2>6. Carrying(w)' /\ Merging(w)'
    BY <1>1, <2>4 DEF S3Inv, WorkersOK, Carrying, Merging
  <2>7. ASSUME NEW v \in Workers PROVE Copying(v)'
    BY <1>1, <2>4 DEF S3Inv, WorkersOK, Copying
  <2>8. WholeFiles'
    BY <1>1 DEF S3Inv, WholeFiles, WholeFile
  <2> QED BY <2>4, <2>5, <2>6, <2>7, <2>8 DEF S3Inv, WorkersOK
<1>3. CASE u \notin open
  <2>1. Jump(w, NoLocal, "idle") /\ UNCHANGED <<parts, left>>
    BY <1>3 DEF ChunkWrite, Finish, Go
  <2>2. left \in [Events -> Nat]
    BY DEF S3Inv, TypeOK
  <2> QED BY <1>1, <2>1, <2>2, LeaveKeeps
<1> QED BY <1>2, <1>3

LEMMA RecordKeeps ==
  ASSUME S3Inv, NEW w \in Workers, Record(w)
  PROVE  S3Inv'
<1> USE DEF sessVars, s3Vars, histVars
<1> DEFINE u == loc[w].upload
<1>1. /\ pc[w] = "record" /\ Jump(w, NoLocal, "idle")
      /\ UNCHANGED <<info, s3Vars, row, histVars, left>>
  BY DEF Record, Finish, Go
<1>2. PICK p \in loc[w].part : list' = [list EXCEPT ![u] = With(@, p)]
  BY DEF Record
<1>3. u \in Uploads /\ p \in Part /\ p.upload = u
  BY <1>1, <1>2 DEF S3Inv, TypeOK, WorkersOK, Named, Carrying, Local
<1> HIDE DEF u
<1>4. /\ list[u] \in SUBSET Part /\ IsFiniteSet(list[u])
      /\ \A q \in list[u] : q.upload = u
      /\ \A q, r \in list[u] : q.idx = r.idx => q = r
  BY <1>3 DEF S3Inv, TypeOK, ListsKeyed
<1>5. /\ With(list[u], p) \in SUBSET Part /\ IsFiniteSet(With(list[u], p))
      /\ \A q \in With(list[u], p) : q \in list[u] \/ q = p
      /\ \A q, r \in With(list[u], p) : q.idx = r.idx => q = r
  BY <1>3, <1>4, WithIsKeyed
<1>6. /\ list' \in [Uploads -> SUBSET Part]
      /\ \A x \in Uploads : list'[x] = IF x = u THEN With(list[u], p) ELSE list[x]
  BY <1>2, <1>3, <1>5 DEF S3Inv, TypeOK
<1>7. ListsKeyed'
  BY <1>3, <1>4, <1>5, <1>6 DEF S3Inv, ListsKeyed
<1>8. /\ loc' \in [Workers -> Local] /\ pc' \in [Workers -> PC]
      /\ \A v \in Workers : /\ loc'[v] = IF v = w THEN NoLocal ELSE loc[v]
                            /\ pc'[v] = IF v = w THEN "idle" ELSE pc[v]
  BY <1>1, NoLocalIsLocal, Jumped DEF S3Inv, PC
<1>9. TypeOK'
  BY <1>1, <1>6, <1>8 DEF S3Inv, TypeOK
<1>10. SessionStaysOpen' /\ WholeFiles'
  BY <1>1 DEF S3Inv, SessionStaysOpen, WholeFiles, WholeFile
<1>11. WorkersOK'
  BY <1>1, <1>8 DEF S3Inv, WorkersOK, Named, Starting, Carrying, Merging, Copying
<1> QED BY <1>7, <1>9, <1>10, <1>11 DEF S3Inv

LEMMA MergeArrivesKeeps ==
  ASSUME S3Inv, NEW w \in Workers, NEW u \in Uploads, MergeArrives(w, u)
  PROVE  S3Inv'
<1> USE DEF sessVars, s3Vars, histVars
<1>1. /\ pc[w] = "idle" /\ info[u] # NoSession /\ Complete(u) /\ Spend("merge")
      /\ UNCHANGED <<sessVars, s3Vars, row, histVars>>
  BY DEF MergeArrives
<1>2. PICK o \in Orders(list[u]) :
        Jump(w, [NoLocal EXCEPT !.upload = u, !.sess = info[u], !.order = o], "complete")
  BY DEF MergeArrives
<1> DEFINE l == [NoLocal EXCEPT !.upload = u, !.sess = info[u], !.order = o]
<1>3. /\ o \in Content /\ Len(o) = info[u].n /\ (Ascending(o) => InOrder(o, u))
      /\ info[u] \in Session
  BY <1>1, OrderOfMerge, CompleteList DEF S3Inv
<1>4. /\ l \in Local /\ l.upload = u /\ l.sess = info[u] /\ l.order = o /\ l.copied = <<>>
  BY <1>3, NoLocalIsLocal DEF Local, NoLocal
<1> HIDE DEF l
<1>5. u \in open \cup completed
  BY <1>1 DEF S3Inv, SessionStaysOpen
<1>6. /\ loc' \in [Workers -> Local] /\ pc' \in [Workers -> PC]
      /\ \A v \in Workers : /\ loc'[v] = IF v = w THEN l ELSE loc[v]
                            /\ pc'[v] = IF v = w THEN "complete" ELSE pc[v]
  BY <1>2, <1>4, Jumped DEF S3Inv, PC, l
<1>7. left' \in [Events -> Nat]
  BY <1>1, SpendIsTyped DEF S3Inv, Events
<1>8. TypeOK'
  BY <1>1, <1>6, <1>7 DEF S3Inv, TypeOK
<1>9. SessionStaysOpen' /\ ListsKeyed' /\ WholeFiles'
  BY <1>1 DEF S3Inv, SessionStaysOpen, ListsKeyed, WholeFiles, WholeFile
<1>10. ASSUME NEW v \in Workers
       PROVE  Named(v)' /\ Starting(v)' /\ Carrying(v)' /\ Merging(v)' /\ Copying(v)'
  <2>1. CASE v = w
    BY <1>1, <1>3, <1>4, <1>5, <1>6, <2>1 DEF Named, Starting, Carrying, Merging, Copying
  <2>2. CASE v # w
    <3>1. /\ Named(v) /\ Starting(v) /\ Carrying(v) /\ Merging(v) /\ Copying(v)
          /\ loc'[v] = loc[v] /\ pc'[v] = pc[v]
      BY <1>6, <2>2 DEF S3Inv, WorkersOK
    <3>2. Starting(v)'
      <4>1. pc[v] = "info" => loc[v].upload # u
        BY <1>1, <3>1 DEF Starting
      <4>2. \A x \in Workers \ {v} : pc[v] = "info" /\ pc'[x] # "idle" => loc'[x].upload # loc[v].upload
        BY <1>4, <1>6, <3>1, <4>1 DEF Starting
      <4> QED BY <1>1, <3>1, <4>2 DEF Starting
    <3> QED BY <1>1, <3>1, <3>2 DEF Named, Carrying, Merging, Copying
  <2> QED BY <2>1, <2>2
<1> QED BY <1>8, <1>9, <1>10 DEF S3Inv, WorkersOK

LEMMA CompleteKeeps ==
  ASSUME S3Inv, NEW w \in Workers, CompleteChunkWrite(w)
  PROVE  S3Inv'
<1> USE DEF sessVars, s3Vars, histVars
<1> DEFINE u == loc[w].upload
           o == loc[w].order
<1>1. pc[w] = "complete" /\ UNCHANGED <<sessVars, full, row, suspect>>
  BY DEF CompleteChunkWrite
<1>2. CASE Accepted(u, o)
  <2>1. /\ slice' = o /\ open' = open \ {u} /\ parts' = [parts EXCEPT ![u] = {}]
        /\ completed' = completed \cup {u}
        /\ replaced' = replaced \cup {v \in Workers : pc[v] = "parts"}
        /\ Jump(w, loc[w], "digest") /\ UNCHANGED left
    BY <1>2 DEF CompleteChunkWrite, Go
  <2>2. /\ u \in Uploads /\ o \in Content /\ loc[w] \in Local
        /\ Merging(w) /\ Copying(w) /\ Named(w)
    BY <1>1 DEF S3Inv, TypeOK, WorkersOK, Named, Local
  <2>3. /\ InOrder(o, u) /\ Len(o) = loc[w].sess.n
        /\ info[u] \in {NoSession, loc[w].sess}
    BY <1>1, <1>2, <2>2 DEF Merging, Accepted
  <2> HIDE DEF u, o
  <2>4. /\ loc' \in [Workers -> Local] /\ pc' \in [Workers -> PC]
        /\ \A v \in Workers : /\ loc'[v] = loc[v]
                              /\ pc'[v] = IF v = w THEN "digest" ELSE pc[v]
    BY <2>1, <2>2, Jumped DEF S3Inv, PC
  <2>5. TypeOK'
    <3>1. parts' \in [Uploads -> SUBSET Part]
      BY <2>1 DEF S3Inv, TypeOK
    <3> QED BY <1>1, <2>1, <2>2, <2>4, <3>1 DEF S3Inv, TypeOK
  <2>6. SessionStaysOpen' /\ ListsKeyed'
    BY <1>1, <2>1 DEF S3Inv, SessionStaysOpen, ListsKeyed
  <2>7. WholeFiles'
    <3>1. WholeFile(slice)'
      BY <1>1, <2>1, <2>3 DEF WholeFile, InOrder
    <3>2. WholeFile(full) => WholeFile(full)'
      BY <1>1, <2>1 DEF WholeFile
    <3> QED BY <1>1, <3>1, <3>2 DEF S3Inv, WholeFiles
  <2>8. ASSUME NEW v \in Workers
        PROVE  Named(v)' /\ Starting(v)' /\ Carrying(v)' /\ Merging(v)' /\ Copying(v)'
    <3>1. /\ Named(v) /\ Starting(v) /\ Carrying(v) /\ Merging(v) /\ Copying(v)
      BY DEF S3Inv, WorkersOK
    <3>2. Named(v)'
      BY <1>1, <2>1, <2>4, <3>1 DEF Named
    <3>3. Starting(v)'
      <4>1. pc[v] = "info" => v # w /\ loc[v].upload # u
        BY <1>1, <3>1 DEF Starting, u
      <4> QED BY <1>1, <2>1, <2>4, <3>1, <4>1 DEF Starting
    <3>4. Carrying(v)' /\ Merging(v)'
      BY <1>1, <2>4, <3>1 DEF Carrying, Merging
    <3>5. Copying(v)'
      BY <1>1, <2>1, <2>4, <3>1 DEF Copying
    <3> QED BY <3>2, <3>3, <3>4, <3>5
  <2> QED BY <2>5, <2>6, <2>7, <2>8 DEF S3Inv, WorkersOK
<1>3. CASE ~Accepted(u, o)
  <2>1. Jump(w, NoLocal, "idle") /\ UNCHANGED <<slice, open, parts, completed, replaced, left>>
    BY <1>3 DEF CompleteChunkWrite, Finish, Go
  <2>2. left \in [Events -> Nat]
    BY DEF S3Inv, TypeOK
  <2> QED BY <1>1, <2>1, <2>2, LeaveKeeps
<1> QED BY <1>2, <1>3

\* The steps behind the multipart upload: Move, the row and the session.
LEMMA GetDigestKeeps ==
  ASSUME S3Inv, NEW w \in Workers, GetDigest(w)
  PROVE  S3Inv'
<1> USE DEF sessVars, s3Vars, histVars
<1>1. pc[w] = "digest" /\ UNCHANGED <<sessVars, s3Vars, row, histVars, left>>
  BY DEF GetDigest, Finish, Go
<1>2. CASE Jump(w, NoLocal, "idle")
  <2>1. left \in [Events -> Nat]
    BY DEF S3Inv, TypeOK
  <2> QED BY <1>1, <1>2, <2>1, LeaveKeeps
<1>3. CASE Jump(w, [loc[w] EXCEPT !.digest = slice], "head")
  <2> DEFINE l == [loc[w] EXCEPT !.digest = slice]
  <2>1. l \in Local /\ l.upload = loc[w].upload /\ l.copied = loc[w].copied
    BY DEF S3Inv, TypeOK, Local
  <2> HIDE DEF l
  <2>2. /\ SessionStaysOpen' /\ ListsKeyed'
        /\ loc' \in [Workers -> Local] /\ pc' \in [Workers -> PC]
        /\ \A v \in Workers : /\ loc'[v] = IF v = w THEN l ELSE loc[v]
                              /\ pc'[v] = IF v = w THEN "head" ELSE pc[v]
        /\ \A v \in Workers : Named(v)' /\ Starting(v)'
        /\ \A v \in Workers \ {w} : Carrying(v)' /\ Merging(v)'
    BY <1>1, <1>3, <2>1, SessionsKept DEF PC, l
  <2>3. TypeOK'
    BY <1>1, <2>2 DEF S3Inv, TypeOK
  <2>4. Carrying(w)' /\ Merging(w)' /\ Copying(w)'
    BY <1>1, <2>1, <2>2 DEF S3Inv, WorkersOK, Carrying, Merging, Copying
  <2>5. ASSUME NEW v \in Workers \ {w} PROVE Copying(v)'
    BY <1>1, <2>2, CopiesKept DEF S3Inv, WorkersOK
  <2>6. WholeFiles'
    BY <1>1 DEF S3Inv, WholeFiles, WholeFile
  <2> QED BY <2>2, <2>3, <2>4, <2>5, <2>6 DEF S3Inv, WorkersOK
<1> QED BY <1>2, <1>3 DEF GetDigest, Finish, Go

LEMMA HeadObjectKeeps ==
  ASSUME S3Inv, NEW w \in Workers, HeadObject(w)
  PROVE  S3Inv'
<1> USE DEF sessVars, s3Vars, histVars
<1>1. /\ pc[w] = "head" /\ replaced' = replaced \ {w}
      /\ UNCHANGED <<sessVars, s3Vars, row, completed, suspect, left>>
  BY DEF HeadObject, Finish, Go
<1>2. CASE slice = Nothing
  <2>1. Jump(w, NoLocal, "idle")
    BY <1>2 DEF HeadObject, Finish, Go
  <2>2. /\ SessionStaysOpen' /\ ListsKeyed'
        /\ loc' \in [Workers -> Local] /\ pc' \in [Workers -> PC]
        /\ \A v \in Workers : /\ loc'[v] = IF v = w THEN NoLocal ELSE loc[v]
                              /\ pc'[v] = IF v = w THEN "idle" ELSE pc[v]
        /\ \A v \in Workers : Named(v)' /\ Starting(v)'
        /\ \A v \in Workers \ {w} : Carrying(v)' /\ Merging(v)'
    BY <1>1, <2>1, NoLocalIsLocal, SessionsKept DEF PC
  <2>3. TypeOK'
    BY <1>1, <2>2 DEF S3Inv, TypeOK
  <2>4. Carrying(w)' /\ Merging(w)' /\ Copying(w)'
    BY <2>2 DEF Carrying, Merging, Copying
  <2>5. ASSUME NEW v \in Workers \ {w} PROVE Copying(v)'
    BY <1>1, <2>2, CopiesKept DEF S3Inv, WorkersOK
  <2>6. WholeFiles'
    BY <1>1 DEF S3Inv, WholeFiles, WholeFile
  <2> QED BY <2>2, <2>3, <2>4, <2>5, <2>6 DEF S3Inv, WorkersOK
<1>3. CASE slice # Nothing
  <2> DEFINE l == [loc[w] EXCEPT !.size = Len(slice)]
  <2>1. PICK p \in {"copy", "parts"} : Jump(w, l, p)
    BY <1>3 DEF HeadObject, Go
  <2>2. Len(slice) \in Nat
    BY LenProperties DEF S3Inv, TypeOK, Content
  <2>3. /\ l \in Local /\ l.upload = loc[w].upload /\ l.copied = loc[w].copied
        /\ l.size = Len(slice)
    BY <2>2 DEF S3Inv, TypeOK, Local
  <2> HIDE DEF l
  <2>4. /\ SessionStaysOpen' /\ ListsKeyed'
        /\ loc' \in [Workers -> Local] /\ pc' \in [Workers -> PC]
        /\ \A v \in Workers : /\ loc'[v] = IF v = w THEN l ELSE loc[v]
                              /\ pc'[v] = IF v = w THEN p ELSE pc[v]
        /\ \A v \in Workers : Named(v)' /\ Starting(v)'
        /\ \A v \in Workers \ {w} : Carrying(v)' /\ Merging(v)'
    BY <1>1, <2>1, <2>3, SessionsKept DEF PC
  <2>5. TypeOK'
    BY <1>1, <2>4 DEF S3Inv, TypeOK
  <2>6. l.copied = <<>>
    BY <1>1, <2>3 DEF S3Inv, WorkersOK, Copying
  <2>7. \E u \in completed : /\ InOrder(slice, u)
                             /\ info[u] # NoSession => Len(slice) = info[u].n
    BY <1>3 DEF S3Inv, WholeFiles, WholeFile, InOrder
  <2>8. Carrying(w)' /\ Merging(w)' /\ Copying(w)'
    <3>1. \A u \in completed : InOrder(<<>>, u)
      BY DEF InOrder
    <3> QED BY <1>1, <2>3, <2>4, <2>6, <2>7, <3>1 DEF Carrying, Merging, Copying
  <2>9. ASSUME NEW v \in Workers \ {w} PROVE Copying(v)'
    BY <1>1, <2>4, CopiesKept DEF S3Inv, WorkersOK
  <2>10. WholeFiles'
    BY <1>1 DEF S3Inv, WholeFiles, WholeFile
  <2> QED BY <2>4, <2>5, <2>8, <2>9, <2>10 DEF S3Inv, WorkersOK
<1> QED BY <1>2, <1>3

LEMMA CopyObjectKeeps ==
  ASSUME S3Inv, NEW w \in Workers, CopyObject(w)
  PROVE  S3Inv'
<1> USE DEF sessVars, s3Vars, histVars
<1>1. /\ pc[w] = "copy"
      /\ UNCHANGED <<sessVars, open, parts, slice, row, completed, replaced, left>>
  BY DEF CopyObject, Finish, Go
<1>2. CASE slice = Nothing
  <2>1. Jump(w, NoLocal, "idle") /\ UNCHANGED <<full, suspect>>
    BY <1>2 DEF CopyObject, Finish, Go
  <2>2. left \in [Events -> Nat]
    BY DEF S3Inv, TypeOK
  <2> QED BY <1>1, <2>1, <2>2, LeaveKeeps
<1>3. CASE slice # Nothing
  <2>1. full' = slice /\ suspect' = FALSE /\ Jump(w, loc[w], "delete")
    BY <1>3 DEF CopyObject, Go
  <2>2. loc[w] \in Local
    BY DEF S3Inv, TypeOK
  <2>3. /\ SessionStaysOpen' /\ ListsKeyed'
        /\ loc' \in [Workers -> Local] /\ pc' \in [Workers -> PC]
        /\ \A v \in Workers : /\ loc'[v] = loc[v]
                              /\ pc'[v] = IF v = w THEN "delete" ELSE pc[v]
        /\ \A v \in Workers : Named(v)' /\ Starting(v)'
        /\ \A v \in Workers \ {w} : Carrying(v)' /\ Merging(v)'
    BY <1>1, <2>1, <2>2, SessionsKept DEF PC
  <2>4. TypeOK'
    BY <1>1, <2>1, <2>3 DEF S3Inv, TypeOK
  <2>5. Carrying(w)' /\ Merging(w)' /\ Copying(w)'
    BY <2>3 DEF Carrying, Merging, Copying
  <2>6. ASSUME NEW v \in Workers \ {w} PROVE Copying(v)'
    BY <1>1, <2>3, CopiesKept DEF S3Inv, WorkersOK
  <2>7. WholeFiles'
    BY <1>1, <2>1 DEF S3Inv, WholeFiles, WholeFile
  <2> QED BY <2>3, <2>4, <2>5, <2>6, <2>7 DEF S3Inv, WorkersOK
<1> QED BY <1>2, <1>3

LEMMA CopyPartKeeps ==
  ASSUME S3Inv, NEW w \in Workers, CopyPart(w)
  PROVE  S3Inv'
<1> USE DEF sessVars, s3Vars, histVars
<1> DEFINE i == Len(loc[w].copied) + 1
           l == [loc[w] EXCEPT !.copied = Append(@, slice[i])]
<1>1. pc[w] = "parts" /\ UNCHANGED <<sessVars, s3Vars, row, histVars, left>>
  BY DEF CopyPart, Finish, Go
<1>2. CASE Jump(w, NoLocal, "idle")
  <2>1. left \in [Events -> Nat]
    BY DEF S3Inv, TypeOK
  <2> QED BY <1>1, <1>2, <2>1, LeaveKeeps
<1>3. CASE i <= Len(slice) /\ Jump(w, l, "parts")
  <2>1. /\ slice \in Seq(Part) /\ Len(slice) \in Nat
        /\ loc[w].copied \in Seq(Part) /\ Len(loc[w].copied) \in Nat
    BY LenProperties DEF S3Inv, TypeOK, Local, Content
  <2>2. i \in 1 .. Len(slice) /\ slice # Nothing
    BY <1>3, <2>1, EmptySeq DEF Nothing
  <2>3. slice[i] \in Part
    BY <2>1, <2>2, ElementOfSeq
  <2> DEFINE c == Append(loc[w].copied, slice[i])
  <2>4. /\ c \in Seq(Part) /\ Len(c) = i /\ c[i] = slice[i]
        /\ \A k \in 1 .. Len(loc[w].copied) : c[k] = loc[w].copied[k]
    BY <2>1, <2>3, AppendProperties
  <2>5. l \in Local /\ l.upload = loc[w].upload /\ l.size = loc[w].size /\ l.copied = c
    BY <2>4 DEF S3Inv, TypeOK, Local, Content
  <2>6. DOMAIN c = 1 .. i /\ DOMAIN slice = 1 .. Len(slice)
        /\ DOMAIN loc[w].copied = 1 .. Len(loc[w].copied)
    BY <2>1, <2>4, LenProperties
  <2> HIDE DEF l, c
  <2>7. /\ SessionStaysOpen' /\ ListsKeyed'
        /\ loc' \in [Workers -> Local] /\ pc' \in [Workers -> PC]
        /\ \A v \in Workers : /\ loc'[v] = IF v = w THEN l ELSE loc[v]
                              /\ pc'[v] = IF v = w THEN "parts" ELSE pc[v]
        /\ \A v \in Workers : Named(v)' /\ Starting(v)'
        /\ \A v \in Workers \ {w} : Carrying(v)' /\ Merging(v)'
    BY <1>1, <1>3, <2>5, SessionsKept DEF PC
  <2>8. TypeOK'
    BY <1>1, <2>7 DEF S3Inv, TypeOK
  <2>9. Copying(w)'
    <3>1. ASSUME w \notin replaced
          PROVE  \E u \in completed :
                   /\ InOrder(c, u)
                   /\ info[u] # NoSession => loc[w].size = info[u].n
                   /\ Len(slice) = loc[w].size /\ InOrder(slice, u)
      <4>1. PICK u \in completed :
              /\ InOrder(loc[w].copied, u)
              /\ info[u] # NoSession => loc[w].size = info[u].n
              /\ Len(slice) = loc[w].size /\ InOrder(slice, u)
        BY <1>1, <2>2, <3>1 DEF S3Inv, WorkersOK, Copying
      <4>2. ASSUME NEW k \in 1 .. i PROVE c[k].upload = u /\ c[k].idx = k - 1
        <5>1. CASE k = i
          BY <2>2, <2>4, <2>6, <4>1, <5>1 DEF InOrder
        <5>2. CASE k # i
          <6>1. k \in 1 .. Len(loc[w].copied)
            BY <2>1, <5>2
          <6> QED BY <2>4, <2>6, <4>1, <6>1 DEF InOrder
        <5> QED BY <5>1, <5>2
      <4> QED BY <2>6, <4>1, <4>2 DEF InOrder
    <3> QED BY <1>1, <2>5, <2>7, <3>1 DEF Copying
  <2>10. Carrying(w)' /\ Merging(w)'
    BY <2>7 DEF Carrying, Merging
  <2>11. ASSUME NEW v \in Workers \ {w} PROVE Copying(v)'
    BY <1>1, <2>7, CopiesKept DEF S3Inv, WorkersOK
  <2>12. WholeFiles'
    BY <1>1 DEF S3Inv, WholeFiles, WholeFile
  <2> QED BY <2>7, <2>8, <2>9, <2>10, <2>11, <2>12 DEF S3Inv, WorkersOK
<1> QED BY <1>2, <1>3 DEF CopyPart, Finish, Go

LEMMA CompleteCopyKeeps ==
  ASSUME S3Inv, NEW w \in Workers, CompleteCopy(w)
  PROVE  S3Inv'
<1> USE DEF sessVars, s3Vars, histVars
<1>1. /\ pc[w] = "parts" /\ Len(loc[w].copied) = loc[w].size
      /\ full' = loc[w].copied /\ suspect' = (w \in replaced) /\ Jump(w, loc[w], "delete")
      /\ UNCHANGED <<sessVars, open, parts, slice, row, completed, replaced, left>>
  BY DEF CompleteCopy, Go
<1>2. loc[w] \in Local /\ loc[w].copied \in Content
  BY DEF S3Inv, TypeOK, Local
<1>3. /\ SessionStaysOpen' /\ ListsKeyed'
      /\ loc' \in [Workers -> Local] /\ pc' \in [Workers -> PC]
      /\ \A v \in Workers : /\ loc'[v] = loc[v]
                            /\ pc'[v] = IF v = w THEN "delete" ELSE pc[v]
      /\ \A v \in Workers : Named(v)' /\ Starting(v)'
      /\ \A v \in Workers \ {w} : Carrying(v)' /\ Merging(v)'
  BY <1>1, <1>2, SessionsKept DEF PC
<1>4. TypeOK'
  <2>1. suspect' \in BOOLEAN
    BY <1>1
  <2> QED BY <1>1, <1>2, <1>3, <2>1 DEF S3Inv, TypeOK
<1>5. Carrying(w)' /\ Merging(w)' /\ Copying(w)'
  BY <1>3 DEF Carrying, Merging, Copying
<1>6. ASSUME NEW v \in Workers \ {w} PROVE Copying(v)'
  BY <1>1, <1>3, CopiesKept DEF S3Inv, WorkersOK
<1>7. WholeFiles'
  <2>1. WholeFile(slice)'
    BY <1>1 DEF S3Inv, WholeFiles, WholeFile
  <2>2. ASSUME w \notin replaced PROVE WholeFile(full)'
    <3>1. PICK u \in completed : /\ InOrder(loc[w].copied, u)
                                 /\ info[u] # NoSession => loc[w].size = info[u].n
      BY <1>1, <2>2 DEF S3Inv, WorkersOK, Copying
    <3> QED BY <1>1, <3>1 DEF WholeFile, InOrder
  <2>3. w \in replaced => suspect'
    BY <1>1
  <2> QED BY <2>1, <2>2, <2>3 DEF WholeFiles
<1> QED BY <1>3, <1>4, <1>5, <1>6, <1>7 DEF S3Inv, WorkersOK

LEMMA DeleteSliceKeeps ==
  ASSUME S3Inv, NEW w \in Workers, DeleteSlice(w) \/ SaveImage(w)
  PROVE  S3Inv'
<1> USE DEF sessVars, s3Vars, histVars
<1>1. PICK p \in {"save", "del"} : Jump(w, loc[w], p)
  BY DEF DeleteSlice, SaveImage, Go
<1>2. /\ pc[w] # "idle" /\ slice' \in {slice, Nothing} /\ row' \in {row, loc[w].digest}
      /\ UNCHANGED <<sessVars, open, parts, full, histVars, left>>
  BY DEF DeleteSlice, SaveImage, Go
<1>3. loc[w] \in Local /\ loc[w].digest \in Content /\ Nothing \in Content
  BY NoLocalIsLocal DEF S3Inv, TypeOK, Local
<1>4. /\ SessionStaysOpen' /\ ListsKeyed'
      /\ loc' \in [Workers -> Local] /\ pc' \in [Workers -> PC]
      /\ \A v \in Workers : /\ loc'[v] = loc[v]
                            /\ pc'[v] = IF v = w THEN p ELSE pc[v]
      /\ \A v \in Workers : Named(v)' /\ Starting(v)'
      /\ \A v \in Workers \ {w} : Carrying(v)' /\ Merging(v)'
  BY <1>1, <1>2, <1>3, SessionsKept DEF PC
<1>5. TypeOK'
  BY <1>2, <1>3, <1>4 DEF S3Inv, TypeOK
<1>6. Carrying(w)' /\ Merging(w)' /\ Copying(w)'
  BY <1>4 DEF Carrying, Merging, Copying
<1>7. ASSUME NEW v \in Workers \ {w} PROVE Copying(v)'
  BY <1>2, <1>4, CopiesKept DEF S3Inv, WorkersOK
<1>8. WholeFiles'
  BY <1>2 DEF S3Inv, WholeFiles, WholeFile
<1> QED BY <1>4, <1>5, <1>6, <1>7, <1>8 DEF S3Inv, WorkersOK

LEMMA DeleteSessionKeeps ==
  ASSUME S3Inv, NEW w \in Workers, DeleteSession(w)
  PROVE  S3Inv'
<1> USE DEF sessVars, s3Vars, histVars
<1> DEFINE u == loc[w].upload
<1>1. /\ pc[w] = "del" /\ info' = [info EXCEPT ![u] = NoSession]
      /\ list' = [list EXCEPT ![u] = {}] /\ Jump(w, NoLocal, "idle")
      /\ UNCHANGED <<s3Vars, row, histVars, left>>
  BY DEF DeleteSession, Finish, Go
<1>2. u \in Uploads
  BY <1>1 DEF S3Inv, TypeOK, WorkersOK, Named
<1> HIDE DEF u
<1>3. /\ info' \in [Uploads -> Session \cup {NoSession}] /\ list' \in [Uploads -> SUBSET Part]
      /\ \A x \in Uploads : /\ info'[x] = IF x = u THEN NoSession ELSE info[x]
                            /\ list'[x] = IF x = u THEN {} ELSE list[x]
  BY <1>1, <1>2 DEF S3Inv, TypeOK
<1>4. /\ loc' \in [Workers -> Local] /\ pc' \in [Workers -> PC]
      /\ \A v \in Workers : /\ loc'[v] = IF v = w THEN NoLocal ELSE loc[v]
                            /\ pc'[v] = IF v = w THEN "idle" ELSE pc[v]
  BY <1>1, NoLocalIsLocal, Jumped DEF S3Inv, PC
<1>5. TypeOK'
  BY <1>1, <1>3, <1>4 DEF S3Inv, TypeOK
<1>6. SessionStaysOpen' /\ ListsKeyed'
  BY <1>1, <1>3, FS_EmptySet DEF S3Inv, SessionStaysOpen, ListsKeyed
<1>7. completed \subseteq Uploads
  BY DEF S3Inv, TypeOK
<1>8. WholeFiles'
  BY <1>1, <1>3, <1>7 DEF S3Inv, WholeFiles, WholeFile
<1>9. ASSUME NEW v \in Workers
      PROVE  Named(v)' /\ Starting(v)' /\ Carrying(v)' /\ Merging(v)' /\ Copying(v)'
  <2>1. CASE v = w
    BY <1>4, <2>1 DEF Named, Starting, Carrying, Merging, Copying
  <2>2. CASE v # w
    <3>1. /\ Named(v) /\ Starting(v) /\ Carrying(v) /\ Merging(v) /\ Copying(v)
          /\ loc'[v] = loc[v] /\ pc'[v] = pc[v]
      BY <1>4, <2>2 DEF S3Inv, WorkersOK
    <3>2. pc[v] # "idle" => loc[v].upload \in Uploads
      BY <3>1 DEF Named, S3Inv, TypeOK
    <3>3. Named(v)' /\ Carrying(v)'
      BY <1>1, <3>1 DEF Named, Carrying
    <3>4. Starting(v)'
      BY <1>1, <1>3, <1>4, <3>1, <3>2 DEF Starting
    <3>5. Merging(v)'
      BY <1>3, <3>1, <3>2 DEF Merging
    <3>6. Copying(v)'
      BY <1>1, <1>3, <1>7, <3>1 DEF Copying
    <3> QED BY <3>3, <3>4, <3>5, <3>6
  <2> QED BY <2>1, <2>2
<1> QED BY <1>5, <1>6, <1>8, <1>9 DEF S3Inv, WorkersOK

LEMMA S3Next == S3Inv /\ [Next]_vars => S3Inv'
<1> SUFFICES ASSUME S3Inv, [Next]_vars PROVE S3Inv'
  OBVIOUS
<1>1. CASE UNCHANGED vars
  BY <1>1 DEF vars, sessVars, s3Vars, histVars, S3Inv, TypeOK, SessionStaysOpen, ListsKeyed,
              WorkersOK, Named, Starting, Carrying, Merging, Copying, WholeFiles, WholeFile
<1>2. ASSUME NEW w \in Workers, Request(w) PROVE S3Inv'
  BY <1>2, CreateKeeps, ChunkArrivesKeeps, MergeArrivesKeeps DEF Request
<1>3. ASSUME NEW w \in Workers, Abort(w) \/ PartFails(w) PROVE S3Inv'
  <2>1. /\ Spend("fail") /\ Jump(w, NoLocal, "idle")
        /\ UNCHANGED <<sessVars, s3Vars, row, histVars>>
    BY <1>3 DEF Abort, PartFails
  <2>2. left' \in [Events -> Nat]
    BY <2>1, SpendIsTyped DEF S3Inv, Events
  <2> QED BY <2>1, <2>2, LeaveKeeps
<1>4. ASSUME NEW w \in Workers, Step(w) PROVE S3Inv'
  BY <1>3, <1>4, OpenSessionKeeps, ChunkWriteKeeps, RecordKeeps, CompleteKeeps,
     GetDigestKeeps, HeadObjectKeeps, CopyObjectKeeps, CopyPartKeeps, CompleteCopyKeeps,
     DeleteSliceKeeps, DeleteSessionKeeps
     DEF Step
<1> QED BY <1>1, <1>2, <1>4 DEF Next

LEMMA S3Invariant == Spec => []S3Inv
<1> QED BY S3Init, S3Next, PTL DEF Spec

-----------------------------------------------------------------------------
(* What it promises *)

\* What redis, S3 and the requests hold has its type.
THEOREM TypeCorrect == Spec => []TypeOK
<1>1. S3Inv => TypeOK
  BY DEF S3Inv
<1> QED BY <1>1, S3Invariant, PTL

\* However many sessions of a tag overlap, and wherever they fail, the slice
\* object is a whole file of one session, its chunks in order: checkChunkSlices
\* and S3's own checks of CompleteMultipartUpload refuse everything else.  So is
\* the image object, but for the ranges of Move (internal/storage/s3) over which
\* another merge has replaced the slice object.
THEOREM ObjectsAreWhole == Spec => []WholeFiles
<1>1. S3Inv => WholeFiles
  BY DEF S3Inv
<1> QED BY <1>1, S3Invariant, PTL

\* A session that redis knows always has a multipart upload that takes chunks,
\* or is completed: no failed chunk closes it.
THEOREM ChunksCanBeSentAgain == Spec => []SessionStaysOpen
<1>1. S3Inv => SessionStaysOpen
  BY DEF S3Inv
<1> QED BY <1>1, S3Invariant, PTL

=============================================================================
