------------------------------ MODULE UserProofs ------------------------------
(***************************************************************************)
(* Theorems of UserCache for any number of requests, of values and of      *)
(* failures: the password of the row is the one asked for last; and while  *)
(* no two requests have overlapped and nothing has failed, replaced        *)
(* passwords are refused and an update keeps the other columns.            *)
(***************************************************************************)
EXTENDS UserCache, TLAPS

-----------------------------------------------------------------------------
(* Type correctness *)

\* What the type invariant says of the workers.
WorkersOK ==
  /\ pc \in [Workers -> PC] /\ loc \in [Workers -> Request]
  /\ \A w \in Workers : Asked(loc[w])

\* The requests that the endpoints make are requests.
LEMMA AskType ==
  ASSUME NEW op \in Ops, NEW k \in Keys, NEW c \in Field, NEW p \in Field,
         NEW n \in Field, NEW e \in Field
  PROVE  Ask(op, k, c, p, n, e) \in Request
BY DEF Ask, Request

LEMMA NoRequestType == NoRequest \in Request /\ Asked(NoRequest)
<1>1. NoRequest \in Request
  BY DEF NoRequest, Ask, Request, Ops, Keys, Field
<1>2. Asked(NoRequest)
  BY DEF NoRequest, Ask, Asked
<1> QED BY <1>1, <1>2

\* A jump to a request of the right kind keeps the types of the workers.
LEMMA JumpType ==
  ASSUME WorkersOK, NEW w \in Workers, NEW l \in Request, Asked(l), NEW p \in PC,
         Jump(w, l, p)
  PROVE  WorkersOK'
BY DEF WorkersOK, Jump

LEMMA GoType ==
  ASSUME WorkersOK, NEW w \in Workers, NEW p \in PC, Go(w, p)
  PROVE  WorkersOK'
BY JumpType DEF WorkersOK, Go

LEMMA FinishType ==
  ASSUME WorkersOK, NEW w \in Workers, Finish(w)
  PROVE  WorkersOK'
BY JumpType, NoRequestType DEF PC, Finish

\* So does a request that has found its user.
LEMMA UserType ==
  ASSUME WorkersOK, NEW w \in Workers, NEW u \in User \cup {NoUser}, NEW p \in PC,
         Jump(w, [loc[w] EXCEPT !.user = u], p)
  PROVE  WorkersOK'
<1> DEFINE l == [loc[w] EXCEPT !.user = u]
<1>1. loc[w] \in Request /\ Asked(loc[w])
  BY DEF WorkersOK
<1>2. l \in Request /\ Asked(l)
  BY <1>1 DEF Request, Asked
<1> QED BY <1>2, JumpType

LEMMA FoundType ==
  ASSUME WorkersOK, NEW w \in Workers, NEW u \in User \cup {NoUser}, Found(w, u)
  PROVE  WorkersOK'
BY UserType DEF Found, PC

\* Spending an event keeps the type of the budget.
LEMMA SpendType ==
  ASSUME left \in [Events -> Nat], NEW e \in Events, Spend(e)
  PROVE  left' \in [Events -> Nat]
BY DEF Spend

-----------------------------------------------------------------------------
(* The inductive invariant *)

\* A handler that is past its look-up has found a user.
UsersFound ==
  \A w \in Workers :
    pc[w] \in {"fill", "compare", "in"} => loc[w].user \in User

\* The open transaction is that of the one profile update that has not
\* committed yet; the row that it installs has the password of the row that
\* is there: an UPDATE works on the row, and its lock keeps the next away.
InUpdate(w) == pc[w] = "commit" \/ (pc[w] = "del" /\ loc[w].op = "update")
TxKeepsPwd ==
  /\ \A w \in Workers : InUpdate(w) <=> tx.owner = w
  /\ tx.owner = Nobody \/ (tx.row \in User /\ tx.row.pwd = row.pwd)

Inv == TypeOK /\ UsersFound /\ TxKeepsPwd /\ PasswordStays

LEMMA InvInit == Init => Inv
<1> SUFFICES ASSUME Init PROVE Inv
  OBVIOUS
<1> USE DEF Init
<1>1. TypeOK
  <2>1. row \in User /\ newest \in Values
    BY ConstantsAssumption DEF User
  <2>2. tx \in [row : User \cup {NoUser}, owner : Workers \cup {Nobody}]
    BY DEF NoTx
  <2>3. WorkersOK
    BY NoRequestType DEF WorkersOK, PC
  <2> QED BY <2>1, <2>2, <2>3, ConstantsAssumption DEF TypeOK, WorkersOK
<1>2. UsersFound
  BY DEF UsersFound
<1>3. TxKeepsPwd
  BY ConstantsAssumption DEF TxKeepsPwd, InUpdate, NoTx
<1>4. PasswordStays
  BY DEF PasswordStays, User
<1> QED BY <1>1, <1>2, <1>3, <1>4 DEF Inv

\* A step that leaves the row and the transactions alone, and does not end or
\* begin an update, keeps what the invariant says of them.
LEMMA TxAlone ==
  ASSUME Inv, UNCHANGED <<row, tx, newest>>,
         \A w \in Workers : InUpdate(w)' <=> InUpdate(w)
  PROVE  TxKeepsPwd' /\ PasswordStays'
BY DEF Inv, TxKeepsPwd, PasswordStays

\* What UPDATE makes of a row: a row with the same password.
LEMMA UpdatedRow ==
  ASSUME row \in User, NEW r \in Request, r.user \in User
  PROVE  Updated(r) \in User /\ Updated(r).pwd = row.pwd
<1>1. Or(r.nick, r.user.nick) \in Values /\ Or(r.email, r.user.email) \in Values
  BY DEF Or, Request, User, Field
<1> QED BY <1>1 DEF Updated, User

-----------------------------------------------------------------------------
(* Every step *)

LEMMA ArriveStep ==
  ASSUME Inv, NEW w \in Workers, NEW r \in Request, r.user = NoUser, Arrive(w, r)
  PROVE  Inv'
<1>1. WorkersOK' /\ left' \in [Events -> Nat]
  <2>1. left' \in [Events -> Nat]
    BY SpendType DEF Arrive, Inv, TypeOK, Events
  <2>2. WorkersOK'
    BY JumpType DEF Arrive, Inv, TypeOK, WorkersOK, PC
  <2> QED BY <2>1, <2>2
<1>2. TypeOK'
  <2>1. calm' \in BOOLEAN
    BY DEF Arrive, Inv, TypeOK
  <2> QED BY <1>1, <2>1 DEF Arrive, Inv, TypeOK, WorkersOK
<1>3. UsersFound'
  BY DEF Arrive, Jump, Inv, TypeOK, UsersFound
<1>4. \A v \in Workers : InUpdate(v)' <=> InUpdate(v)
  BY DEF Arrive, Jump, Inv, TypeOK, InUpdate
<1>5. TxKeepsPwd' /\ PasswordStays'
  BY <1>4, TxAlone DEF Arrive
<1> QED BY <1>2, <1>3, <1>5 DEF Inv

\* The look-up, the comparison and the end of a request that only reads.
LEMMA LookUpStep ==
  ASSUME Inv, NEW w \in Workers,
         Get(w) \/ Select(w) \/ Fill(w) \/ Compare(w) \/ Answer(w)
  PROVE  Inv'
<1> USE DEF Inv
<1>1. WorkersOK /\ UNCHANGED <<row, tx, newest, calm, left>>
  BY DEF TypeOK, WorkersOK, Get, Select, Fill, Compare, Answer, Found, Go, Finish
<1>2. cached' \in [Keys -> User \cup {NoUser}]
  BY DEF TypeOK, UsersFound, Get, Select, Fill, Compare, Answer
<1>3. WorkersOK'
  <2>1. CASE Get(w)
    <3>1. cached[loc[w].key] \in User \cup {NoUser}
      BY DEF TypeOK, Request
    <3> QED BY <1>1, <2>1, <3>1, FoundType, GoType DEF Get, PC
  <2>2. CASE Select(w)
    BY <1>1, <2>2, UserType DEF Select, TypeOK, PC
  <2>3. CASE Fill(w)
    BY <1>1, <2>3, FoundType DEF Fill, UsersFound
  <2>4. CASE Compare(w)
    BY <1>1, <2>4, GoType, FinishType DEF Compare, PC
  <2>5. CASE Answer(w)
    BY <1>1, <2>5, FinishType DEF Answer
  <2> QED BY <2>1, <2>2, <2>3, <2>4, <2>5
<1>4. TypeOK'
  BY <1>1, <1>2, <1>3 DEF TypeOK, WorkersOK
<1>5. UsersFound'
  <2>1. CASE Get(w)
    <3>1. cached[loc[w].key] \in User \cup {NoUser}
      BY DEF TypeOK, Request
    <3> QED BY <2>1, <3>1 DEF Get, Found, Go, Jump, TypeOK, UsersFound, Request
  <2>2. CASE Select(w)
    BY <2>2 DEF Select, Jump, TypeOK, UsersFound, Request
  <2>3. CASE Fill(w)
    BY <2>3 DEF Fill, Found, Jump, TypeOK, UsersFound, Request
  <2>4. CASE Compare(w)
    BY <2>4 DEF Compare, Go, Finish, Jump, TypeOK, UsersFound
  <2>5. CASE Answer(w)
    BY <2>5 DEF Answer, Finish, Jump, TypeOK, UsersFound
  <2> QED BY <2>1, <2>2, <2>3, <2>4, <2>5
<1>6. \A v \in Workers : InUpdate(v)' <=> InUpdate(v)
  <2>1. pc[w] \in {"get", "select", "fill", "compare", "in"}
    BY DEF Get, Select, Fill, Compare, Answer
  <2>2. pc'[w] \in {"select", "fill", "compare", "in", "idle"}
    BY DEF Get, Select, Fill, Compare, Answer, Found, Go, Finish, Jump, TypeOK
  <2>3. \A v \in Workers \ {w} : pc'[v] = pc[v] /\ loc'[v] = loc[v]
    BY DEF Get, Select, Fill, Compare, Answer, Found, Go, Finish, Jump, TypeOK
  <2> QED BY <2>1, <2>2, <2>3 DEF InUpdate
<1>7. TxKeepsPwd' /\ PasswordStays'
  BY <1>1, <1>6, TxAlone
<1> QED BY <1>4, <1>5, <1>7

LEMMA UpdateStep ==
  ASSUME Inv, NEW w \in Workers, Update(w)
  PROVE  Inv'
<1> USE DEF Inv, Update
<1>1. Updated(loc[w]) \in User /\ Updated(loc[w]).pwd = row.pwd
  BY UpdatedRow DEF TypeOK, UsersFound
<1>2. TypeOK'
  <2>1. WorkersOK'
    BY GoType DEF TypeOK, WorkersOK, PC
  <2>2. tx' \in [row : User \cup {NoUser}, owner : Workers \cup {Nobody}]
    BY <1>1
  <2> QED BY <2>1, <2>2 DEF TypeOK, WorkersOK, Go
<1>3. UsersFound'
  BY DEF UsersFound, Go, Jump, TypeOK
<1>4. TxKeepsPwd'
  <2>1. tx'.owner = w /\ tx'.row = Updated(loc[w])
    OBVIOUS
  <2>2. \A v \in Workers : ~InUpdate(v)
    BY ConstantsAssumption DEF TxKeepsPwd, NoTx
  <2>3. \A v \in Workers : InUpdate(v)' <=> v = w
    BY <2>2 DEF InUpdate, Go, Jump, TypeOK
  <2> QED BY <1>1, <2>1, <2>3 DEF TxKeepsPwd
<1>5. PasswordStays'
  BY DEF PasswordStays
<1> QED BY <1>2, <1>3, <1>4, <1>5

LEMMA UpdatePwdStep ==
  ASSUME Inv, NEW w \in Workers, UpdatePwd(w)
  PROVE  Inv'
<1> USE DEF Inv, UpdatePwd
<1>1. loc[w].pwd \in Values
  BY DEF TypeOK, Asked, Request, Field
<1>2. row' \in User /\ row'.pwd = loc[w].pwd
  BY <1>1 DEF TypeOK, User
<1>3. TypeOK'
  <2>1. WorkersOK'
    BY GoType DEF TypeOK, WorkersOK, PC
  <2> QED BY <1>1, <1>2, <2>1 DEF TypeOK, WorkersOK, Go
<1>4. UsersFound'
  BY DEF UsersFound, Go, Jump, TypeOK
<1>5. TxKeepsPwd'
  <2>1. tx'.owner = Nobody
    BY DEF NoTx
  <2>2. \A v \in Workers : ~InUpdate(v)
    BY ConstantsAssumption DEF TxKeepsPwd, NoTx
  <2>3. \A v \in Workers : ~InUpdate(v)'
    BY <2>2 DEF InUpdate, Go, Jump, TypeOK
  <2> QED BY <2>1, <2>3, ConstantsAssumption DEF TxKeepsPwd
<1>6. PasswordStays'
  BY <1>2 DEF PasswordStays
<1> QED BY <1>3, <1>4, <1>5, <1>6

LEMMA DeleteCopiesStep ==
  ASSUME Inv, NEW w \in Workers, DeleteCopies(w)
  PROVE  Inv'
<1> USE DEF Inv, DeleteCopies
<1>1. TypeOK'
  <2>1. WorkersOK'
    BY GoType, FinishType DEF TypeOK, WorkersOK, PC
  <2>2. cached' \in [Keys -> User \cup {NoUser}] /\ calm' \in BOOLEAN
    BY DEF TypeOK
  <2> QED BY <2>1, <2>2 DEF TypeOK, WorkersOK, Go, Finish
<1>2. UsersFound'
  BY DEF UsersFound, Go, Finish, Jump, TypeOK
<1>3. \A v \in Workers : InUpdate(v)' <=> InUpdate(v)
  BY DEF InUpdate, Go, Finish, Jump, TypeOK
<1>4. TxKeepsPwd' /\ PasswordStays'
  BY <1>3, TxAlone
<1> QED BY <1>1, <1>2, <1>4

LEMMA CommitStep ==
  ASSUME Inv, NEW w \in Workers, Commit(w)
  PROVE  Inv'
<1> USE DEF Inv, Commit
<1>1. tx.owner = w /\ tx.row \in User /\ tx.row.pwd = row.pwd
  BY ConstantsAssumption DEF TxKeepsPwd, InUpdate
<1>2. TypeOK'
  <2>1. WorkersOK'
    BY FinishType DEF TypeOK, WorkersOK
  <2>2. tx' \in [row : User \cup {NoUser}, owner : Workers \cup {Nobody}]
    BY DEF NoTx
  <2> QED BY <1>1, <2>1, <2>2 DEF TypeOK, WorkersOK, Finish
<1>3. UsersFound'
  BY DEF UsersFound, Finish, Jump, TypeOK
<1>4. TxKeepsPwd'
  <2>1. tx'.owner = Nobody
    BY DEF NoTx
  <2>2. \A v \in Workers : ~InUpdate(v)'
    BY <1>1 DEF TxKeepsPwd, InUpdate, Finish, Jump, TypeOK
  <2> QED BY <2>1, <2>2, ConstantsAssumption DEF TxKeepsPwd
<1>5. PasswordStays'
  BY <1>1 DEF PasswordStays
<1> QED BY <1>2, <1>3, <1>4, <1>5

\* A failure rolls the transaction of its request back, and no other.
LEMMA AbortStep ==
  ASSUME Inv, NEW w \in Workers, Abort(w)
  PROVE  Inv'
<1> USE DEF Inv, Abort
<1>1. TypeOK'
  <2>1. WorkersOK'
    BY JumpType, NoRequestType DEF TypeOK, WorkersOK, PC
  <2>2. left' \in [Events -> Nat]
    BY SpendType DEF TypeOK, Events
  <2>3. tx' \in [row : User \cup {NoUser}, owner : Workers \cup {Nobody}]
    BY DEF NoTx, TypeOK
  <2> QED BY <2>1, <2>2, <2>3 DEF TypeOK, WorkersOK
<1>2. UsersFound'
  BY DEF UsersFound, Jump, TypeOK
<1>3. ~InUpdate(w)'
  BY DEF InUpdate, Jump, TypeOK, NoRequest, Ask
<1>4. \A v \in Workers \ {w} : InUpdate(v)' <=> InUpdate(v)
  BY DEF InUpdate, Jump, TypeOK
<1>5. TxKeepsPwd'
  <2>1. CASE tx.owner = w
    <3>1. tx'.owner = Nobody
      BY <2>1 DEF NoTx
    <3>2. \A v \in Workers : ~InUpdate(v)'
      BY <1>3, <1>4, <2>1 DEF TxKeepsPwd
    <3> QED BY <3>1, <3>2, ConstantsAssumption DEF TxKeepsPwd
  <2>2. CASE tx.owner # w
    BY <1>3, <1>4, <2>2 DEF TxKeepsPwd
  <2> QED BY <2>1, <2>2
<1>6. PasswordStays'
  BY DEF PasswordStays
<1> QED BY <1>1, <1>2, <1>5, <1>6

LEMMA ExpireStep ==
  ASSUME Inv, NEW k \in Keys, Expire(k)
  PROVE  Inv'
<1> USE DEF Inv, Expire
<1>1. TypeOK'
  BY DEF TypeOK
<1>2. UsersFound'
  BY DEF UsersFound
<1>3. TxKeepsPwd' /\ PasswordStays'
  BY TxAlone DEF InUpdate
<1> QED BY <1>1, <1>2, <1>3

LEMMA InvStep == Inv /\ [Next]_vars => Inv'
<1> SUFFICES ASSUME Inv, [Next]_vars PROVE Inv'
  OBVIOUS
<1>1. ASSUME NEW w \in Workers, ReadArrives(w) PROVE Inv'
  <2>1. PICK k \in Keys, c \in Field : Arrive(w, Ask("read", k, c, Keep, Keep, Keep))
    BY <1>1 DEF ReadArrives
  <2>2. Ask("read", k, c, Keep, Keep, Keep) \in Request
    BY AskType DEF Ops, Field
  <2> QED BY <2>1, <2>2, ArriveStep DEF Ask
<1>2. ASSUME NEW w \in Workers, UpdateArrives(w) PROVE Inv'
  <2>1. PICK k \in Keys, n \in Field, e \in Field :
          Arrive(w, Ask("update", k, Keep, Keep, n, e))
    BY <1>2 DEF UpdateArrives
  <2>2. Ask("update", k, Keep, Keep, n, e) \in Request
    BY AskType DEF Ops, Field
  <2> QED BY <2>1, <2>2, ArriveStep DEF Ask
<1>3. ASSUME NEW w \in Workers, PasswordArrives(w) PROVE Inv'
  <2>1. PICK k \in Keys, c \in Field, p \in Values :
          Arrive(w, Ask("password", k, c, p, Keep, Keep))
    BY <1>3 DEF PasswordArrives
  <2>2. Ask("password", k, c, p, Keep, Keep) \in Request
    BY AskType DEF Ops, Field
  <2> QED BY <2>1, <2>2, ArriveStep DEF Ask
<1>4. ASSUME NEW w \in Workers, Step(w) PROVE Inv'
  BY <1>4, LookUpStep, UpdateStep, UpdatePwdStep, DeleteCopiesStep, CommitStep DEF Step
<1>5. ASSUME NEW w \in Workers, Abort(w) PROVE Inv'
  BY <1>5, AbortStep
<1>6. ASSUME NEW k \in Keys, Expire(k) PROVE Inv'
  BY <1>6, ExpireStep
<1>7. CASE UNCHANGED vars
  BY <1>7 DEF vars, Inv, TypeOK, UsersFound, TxKeepsPwd, InUpdate, PasswordStays
<1> QED BY <1>1, <1>2, <1>3, <1>4, <1>5, <1>6, <1>7 DEF Next

-----------------------------------------------------------------------------

\* Every reachable state is well typed, for any number of requests: a copy in
\* redis and the row of an open transaction are whole users.
THEOREM TypeCorrect == Spec => []TypeOK
<1>1. Inv => TypeOK
  BY DEF Inv
<1> QED BY <1>1, InvInit, InvStep, PTL DEF Spec

\* However many profile updates and password changes overlap, fail or work on
\* stale copies, the password of the row is the one asked for last.
THEOREM NoOldPassword == Spec => []PasswordStays
<1>1. Inv => PasswordStays
  BY DEF Inv
<1> QED BY <1>1, InvInit, InvStep, PTL DEF Spec

-----------------------------------------------------------------------------
(* While requests come one at a time *)

\* As long as no two requests have overlapped and nothing has failed: the one
\* request that runs works on the row; a copy is the row, unless the request
\* is about to delete the copies; and there is none when an update commits.
Alone == \A v, w \in Workers : pc[v] # "idle" /\ pc[w] # "idle" => v = w
CopiesCurrent ==
  /\ (\A w \in Workers : pc[w] # "del") => \A k \in Keys : cached[k] \in {NoUser, row}
  /\ (\E w \in Workers : pc[w] = "commit") => \A k \in Keys : cached[k] = NoUser

\* The row that an update of the fields of r will install.
KeepsOthers(r, new, old) == /\ r.nick = Keep => new.nick = old.nick
                            /\ r.email = Keep => new.email = old.email
WorksOnRow(w) ==
  /\ pc[w] \in {"fill", "compare", "in"} => loc[w].user = row
  /\ pc[w] = "in" /\ loc[w].check # Keep => loc[w].check = row.pwd
  /\ InUpdate(w) => KeepsOthers(loc[w], tx.row, row)

Serial == calm => Alone /\ CopiesCurrent /\ \A w \in Workers : WorksOnRow(w)

\* The step of the request that runs: the others are idle, and stay so.
LEMMA RunsAlone ==
  ASSUME TypeOK, Alone, NEW w \in Workers, pc[w] # "idle", NEW l, NEW p, Jump(w, l, p)
  PROVE  /\ Alone' /\ pc'[w] = p /\ loc'[w] = l
         /\ \A v \in Workers \ {w} : pc[v] = "idle" /\ pc'[v] = "idle"
BY DEF TypeOK, Alone, Jump

\* So it is enough that this request works on the row.
LEMMA SerialOn ==
  ASSUME TypeOK, Alone, NEW w \in Workers, pc[w] # "idle", NEW l, NEW p, Jump(w, l, p),
         p \in {"fill", "compare", "in"} => l.user = row',
         p = "in" /\ l.check # Keep => l.check = row'.pwd,
         p = "commit" \/ (p = "del" /\ l.op = "update") => KeepsOthers(l, tx'.row, row'),
         p # "del" => \A k \in Keys : cached'[k] \in {NoUser, row'},
         p = "commit" => \A k \in Keys : cached'[k] = NoUser
  PROVE  Serial'
<1>1. /\ Alone' /\ pc'[w] = p /\ loc'[w] = l
      /\ \A v \in Workers \ {w} : pc'[v] = "idle"
  BY RunsAlone
<1>2. CopiesCurrent'
  BY <1>1 DEF CopiesCurrent
<1>3. \A v \in Workers : WorksOnRow(v)'
  BY <1>1 DEF WorksOnRow, InUpdate, KeepsOthers
<1> QED BY <1>1, <1>2, <1>3 DEF Serial

LEMMA SerialStep ==
  ASSUME Inv, Serial, [Next]_vars
  PROVE  Serial'
<1> USE DEF Inv
<1>1. ASSUME NEW w \in Workers, NEW r, r.user = NoUser, Arrive(w, r)
      PROVE  Serial'
  <2> SUFFICES ASSUME calm' PROVE Serial'
    BY DEF Serial
  <2>1. calm /\ \A v \in Workers : pc[v] = "idle"
    BY <1>1 DEF Arrive
  <2>2. pc'[w] = "get" /\ \A v \in Workers \ {w} : pc'[v] = "idle"
    BY <1>1, <2>1 DEF Arrive, Jump, TypeOK
  <2>3. Alone'
    BY <2>2 DEF Alone
  <2>4. CopiesCurrent'
    BY <1>1, <2>1, <2>2 DEF Arrive, Serial, CopiesCurrent
  <2>5. \A v \in Workers : WorksOnRow(v)'
    BY <2>2 DEF WorksOnRow, InUpdate
  <2> QED BY <2>3, <2>4, <2>5 DEF Serial
<1>2. ASSUME NEW w \in Workers, Step(w)
      PROVE  Serial'
  <2> SUFFICES ASSUME calm' PROVE Serial'
    BY DEF Serial
  <2>1. calm
    BY <1>2 DEF Step, Get, Select, Fill, Compare, Answer, Update, UpdatePwd,
                DeleteCopies, Commit
  <2>2. Alone /\ CopiesCurrent /\ WorksOnRow(w) /\ TypeOK
    BY <2>1 DEF Serial
  <2>3. pc[w] # "idle"
    BY <1>2 DEF Step, Get, Select, Fill, Compare, Answer, Update, UpdatePwd,
                DeleteCopies, Commit
  <2>4. (\A v \in Workers \ {w} : pc[v] = "idle") /\ loc[w] \in Request
    BY <2>2, <2>3 DEF Alone, TypeOK
  <2>5. pc[w] # "del" => \A k \in Keys : cached[k] \in {NoUser, row}
    BY <2>2, <2>4 DEF CopiesCurrent
  <2>6. \A u : [loc[w] EXCEPT !.user = u].user = u
               /\ [loc[w] EXCEPT !.user = u].check = loc[w].check
    BY <2>4 DEF Request
  <2>7. ASSUME Found(w, row), row' = row, pc[w] # "del",
               \A k \in Keys : cached'[k] \in {NoUser, row}
        PROVE  Serial'
    <3> DEFINE l == [loc[w] EXCEPT !.user = row]
               p == IF loc[w].check = Keep THEN "in" ELSE "compare"
    <3>1. Jump(w, l, p) /\ l.user = row /\ l.check = loc[w].check
      BY <2>6, <2>7 DEF Found
    <3>2. p \in {"in", "compare"} /\ (p = "in" => l.check = Keep)
      BY <3>1
    <3> HIDE DEF l, p
    <3> QED BY <2>2, <2>3, <2>7, <3>1, <3>2, SerialOn
  <2>8. CASE Get(w)
    <3>1. CASE cached[loc[w].key] = NoUser
      BY <2>2, <2>3, <2>5, <2>8, <3>1, SerialOn DEF Get, Go
    <3>2. CASE cached[loc[w].key] # NoUser
      <4>1. cached[loc[w].key] = row
        BY <2>4, <2>5, <2>8, <3>2 DEF Get, Request
      <4>2. Found(w, row) /\ row' = row /\ cached' = cached /\ pc[w] # "del"
        BY <2>8, <3>2, <4>1 DEF Get
      <4> QED BY <2>5, <2>7, <4>2
    <3> QED BY <3>1, <3>2
  <2>9. CASE Select(w)
    <3> DEFINE l == [loc[w] EXCEPT !.user = row]
    <3>1. Jump(w, l, "fill") /\ l.user = row /\ UNCHANGED <<row, cached>>
      BY <2>6, <2>9 DEF Select
    <3>2. \A k \in Keys : cached'[k] \in {NoUser, row'}
      BY <2>5, <2>9, <3>1 DEF Select
    <3> HIDE DEF l
    <3> QED BY <2>2, <2>3, <3>1, <3>2, SerialOn
  <2>10. CASE Fill(w)
    <3>1. loc[w].user = row
      BY <2>2, <2>10 DEF Fill, WorksOnRow
    <3>2. \A k \in Keys : cached'[k] \in {NoUser, row}
      BY <2>2, <2>5, <2>10, <3>1 DEF Fill, TypeOK
    <3> QED BY <2>7, <2>10, <3>1, <3>2 DEF Fill
  <2>11. CASE Compare(w)
    <3>1. loc[w].user = row
      BY <2>2, <2>11 DEF Compare, WorksOnRow
    <3> QED BY <2>2, <2>3, <2>5, <2>11, <3>1, SerialOn DEF Compare, Go, Finish
  <2>12. CASE Answer(w)
    BY <2>2, <2>3, <2>5, <2>12, SerialOn DEF Answer, Finish
  <2>13. CASE Update(w)
    <3>1. loc[w].user = row
      BY <2>2, <2>13 DEF Update, WorksOnRow
    <3>2. KeepsOthers(loc[w], Updated(loc[w]), row)
      BY <2>2, <3>1 DEF KeepsOthers, Updated, Or, TypeOK, User
    <3> QED BY <2>2, <2>3, <2>13, <3>2, SerialOn DEF Update, Go
  <2>14. CASE UpdatePwd(w)
    BY <2>2, <2>3, <2>14, SerialOn DEF UpdatePwd, Go
  <2>15. CASE DeleteCopies(w)
    <3>1. \A k \in Keys : cached'[k] = NoUser
      BY <2>15 DEF DeleteCopies
    <3>2. loc[w].op = "update" => KeepsOthers(loc[w], tx.row, row)
      BY <2>2, <2>15 DEF DeleteCopies, WorksOnRow, InUpdate
    <3> QED BY <2>2, <2>3, <2>15, <3>1, <3>2, SerialOn DEF DeleteCopies, Go, Finish
  <2>16. CASE Commit(w)
    <3>1. \A k \in Keys : cached'[k] = NoUser
      BY <2>2, <2>16 DEF Commit, CopiesCurrent
    <3> QED BY <2>2, <2>3, <2>16, <3>1, SerialOn DEF Commit, Finish
  <2> QED BY <1>2, <2>8, <2>9, <2>10, <2>11, <2>12, <2>13, <2>14, <2>15, <2>16 DEF Step
<1>3. ASSUME NEW w \in Workers, Abort(w)
      PROVE  Serial'
  BY <1>3 DEF Abort, Serial
<1>4. ASSUME NEW k \in Keys, Expire(k)
      PROVE  Serial'
  <2>1. UNCHANGED <<row, tx, pc, loc, calm>>
    BY <1>4 DEF Expire
  <2>2. \A j \in Keys : cached'[j] = cached[j] \/ cached'[j] = NoUser
    BY <1>4 DEF Expire, TypeOK
  <2> QED BY <2>1, <2>2 DEF Serial, Alone, CopiesCurrent, WorksOnRow, InUpdate
<1>5. CASE UNCHANGED vars
  BY <1>5 DEF vars, Serial, Alone, CopiesCurrent, WorksOnRow, InUpdate
<1>6. ASSUME NEW w \in Workers, ReadArrives(w) \/ UpdateArrives(w) \/ PasswordArrives(w)
      PROVE  Serial'
  BY <1>1, <1>6 DEF ReadArrives, UpdateArrives, PasswordArrives, Ask
<1> QED BY <1>2, <1>3, <1>4, <1>5, <1>6 DEF Next

LEMMA SerialInit == Init => Serial
BY DEF Init, Serial, Alone, CopiesCurrent, WorksOnRow, InUpdate

\* As long as requests come one at a time and nothing fails, a password that
\* was replaced is refused: the copies that a comparison may work on are the
\* row, because every change deletes them before its request ends.
THEOREM OldPasswordRefused == Spec => []LoginsCurrent
<1>1. Inv /\ Serial => LoginsCurrent
  BY DEF Serial, WorksOnRow, LoginsCurrent
<1> QED BY <1>1, InvInit, InvStep, SerialInit, SerialStep, PTL DEF Spec

\* The row that an update commits is the one it has put into its transaction,
\* and no other step commits while an update is about to.
LEMMA CommitKeepsOthers ==
  ASSUME Inv, Serial, [Next]_vars, NEW w \in Workers,
         calm, pc[w] = "commit", tx' = NoTx, calm'
  PROVE  KeepsOthers(loc[w], row', row)
<1> USE DEF Inv
<1>1. tx.owner = w /\ KeepsOthers(loc[w], tx.row, row)
  BY DEF Serial, WorksOnRow, TxKeepsPwd, InUpdate
<1>2. tx # NoTx
  BY <1>1, ConstantsAssumption DEF NoTx
<1>3. ASSUME NEW v \in Workers, Step(v)
      PROVE  row' = row \/ row' = tx.row
  BY <1>2, <1>3 DEF Step, Get, Select, Fill, Compare, Answer, Update, UpdatePwd,
                    DeleteCopies, Commit
<1>4. row' = row \/ row' = tx.row
  BY <1>3 DEF Next, ReadArrives, UpdateArrives, PasswordArrives, Arrive, Abort,
              Expire, vars
<1> QED BY <1>1, <1>4 DEF KeepsOthers

\* As long as requests come one at a time and nothing fails, a profile update
\* of one field leaves the other one alone, although it writes both from a
\* user that may be a copy.
THEOREM UpdateKeepsOthers == Spec => OthersKept
<1>1. Inv /\ Serial /\ [Next]_vars =>
        [\A w \in Workers : calm /\ pc[w] = "commit" /\ tx' = NoTx /\ calm' =>
           /\ loc[w].nick = Keep => row'.nick = row.nick
           /\ loc[w].email = Keep => row'.email = row.email]_vars
  BY CommitKeepsOthers DEF KeepsOthers
<1> QED BY <1>1, InvInit, InvStep, SerialInit, SerialStep, PTL DEF Spec, OthersKept
=============================================================================
