----------------------------- MODULE SessionProofs -----------------------------
(***************************************************************************)
(* Theorems of Sessions for any number of clients, of token names and of   *)
(* tokens, and for any length of life.                                     *)
(***************************************************************************)
EXTENDS Sessions, TLAPS

-----------------------------------------------------------------------------
(* The inductive invariant *)

\* A request signs its tokens at an instant that has come, and a request
\* about a private token names one.
RequestsOK ==
  \A c \in Clients :
    /\ loc[c].at \in 0 .. MaxNow
    /\ pc[c] \in {"act", "remove"} => loc[c].name \in Names

\* Ids are given out in order and never again, names are unique.
TokensOK ==
  /\ \A t \in tokens : t.id \in 1 .. nextId - 1
  /\ \A t, s \in tokens : t.id = s.id \/ t.name = s.name => t = s

\* A delete that has selected its token holds the only row of that name that
\* was there when it arrived, if that row is still there.
DeletesOK ==
  \A c \in Clients :
    /\ loc[c].next <= nextId
    /\ pc[c] = "remove" =>
         \A t \in tokens :
           /\ t.id = loc[c].id => t.name = loc[c].name
           /\ t.name = loc[c].name /\ t.id < loc[c].next => t.id = loc[c].id

Inv == TypeOK /\ RequestsOK /\ TokensOK /\ DeletesOK

LEMMA IdleType == Idle \in Local /\ Idle.at \in 0 .. MaxNow /\ Idle.next = 0
BY ConstantsAssumption DEF Idle, Local, Ops

LEMMA InvInit == Init => Inv
<1> SUFFICES ASSUME Init PROVE Inv
  OBVIOUS
<1> USE IdleType, ConstantsAssumption DEF Init
<1>1. TypeOK
  BY DEF TypeOK, PC
<1>2. RequestsOK
  BY DEF RequestsOK
<1>3. TokensOK
  BY DEF TokensOK
<1>4. DeletesOK
  BY DEF DeletesOK
<1> QED BY <1>1, <1>2, <1>3, <1>4 DEF Inv

\* A client's request goes on, or begins, and nothing but its own place and
\* values changes.
LEMMA JumpStep ==
  ASSUME Inv, NEW c \in Clients, NEW l \in Local, NEW p \in PC \ {"remove"},
         l.at \in 0 .. MaxNow, l.next <= nextId, p = "act" => l.name \in Names,
         Jump(c, l, p), UNCHANGED <<tokens, nextId>>
  PROVE  /\ pc' \in [Clients -> PC] /\ loc' \in [Clients -> Local]
         /\ (\A d \in Clients : pc[d] = "remove" => loc[d].id \in 1 .. nextId - 1)'
         /\ RequestsOK' /\ TokensOK' /\ DeletesOK'
BY DEF Inv, TypeOK, RequestsOK, TokensOK, DeletesOK, Jump

\* The same for a request that ends.
LEMMA FinishStep ==
  ASSUME Inv, NEW c \in Clients, Finish(c), UNCHANGED <<tokens, nextId>>
  PROVE  /\ pc' \in [Clients -> PC] /\ loc' \in [Clients -> Local]
         /\ (\A d \in Clients : pc[d] = "remove" => loc[d].id \in 1 .. nextId - 1)'
         /\ RequestsOK' /\ TokensOK' /\ DeletesOK'
<1>1. 0 <= nextId
  BY DEF Inv, TypeOK
<1> QED BY <1>1, IdleType, JumpStep DEF Finish, PC

\* What the requests about tokens start from.
LEMMA AskType ==
  ASSUME Inv, NEW op \in Ops, NEW n \in Names \cup {NoName}, NEW e \in Nat
  PROVE  /\ Ask(op, n, e) \in Local
         /\ Ask(op, n, e).at \in 0 .. MaxNow /\ Ask(op, n, e).next <= nextId
         /\ Ask(op, n, e).name = n
BY ConstantsAssumption DEF Inv, TypeOK, Ask, Local

\* A request arrives.
LEMMA ArriveStep ==
  ASSUME Inv, NEW c \in Clients, NEW op \in Ops, NEW n \in Names \cup {NoName},
         NEW e \in Nat, NEW p \in {"save", "act", "drop"}, p = "act" => n \in Names,
         Arrive(c, Ask(op, n, e), p)
  PROVE  Inv'
<1>1. Jump(c, Ask(op, n, e), p) /\ UNCHANGED <<now, session, issued, tokens, nextId>>
  BY DEF Arrive
<1>2. /\ pc' \in [Clients -> PC] /\ loc' \in [Clients -> Local]
      /\ (\A d \in Clients : pc[d] = "remove" => loc[d].id \in 1 .. nextId - 1)'
      /\ RequestsOK' /\ TokensOK' /\ DeletesOK'
  BY <1>1, AskType, JumpStep DEF PC
<1> QED BY <1>1, <1>2 DEF Inv, TypeOK

LEMMA RequestStep ==
  ASSUME Inv, NEW c \in Clients, Request(c)
  PROVE  Inv'
<1> USE ConstantsAssumption DEF Ops
<1>1. CASE LoginArrives(c)  BY <1>1, ArriveStep DEF LoginArrives
<1>2. CASE TokenArrives(c)  BY <1>2, ArriveStep DEF TokenArrives
<1>3. CASE UpdateArrives(c) BY <1>3, ArriveStep DEF UpdateArrives
<1>4. CASE Logout(c)
  BY <1>4 DEF Logout, Inv, TypeOK, RequestsOK, TokensOK, DeletesOK
<1>5. CASE Refresh(c)
  BY <1>5 DEF Refresh, Inv, TypeOK, RequestsOK, TokensOK, DeletesOK
<1>6. CASE ChangePwdArrives(c) BY <1>6, ArriveStep DEF ChangePwdArrives
<1>7. CASE CreateArrives(c)
  <2>1. PICK n \in Names, e \in 0 .. MaxNow :
          Arrive(c, Ask("create", n, IF e < now THEN now + YearLife ELSE e), "act")
    BY <1>7 DEF CreateArrives
  <2>2. (IF e < now THEN now + YearLife ELSE e) \in Nat
    BY DEF Inv, TypeOK
  <2> QED BY <2>1, <2>2, ArriveStep
<1>8. CASE DeleteArrives(c)
  <2>1. PICK n \in Names : Arrive(c, Ask("delete", n, 0), "act")
    BY <1>8 DEF DeleteArrives
  <2> QED BY <2>1, ArriveStep
<1> QED BY <1>1, <1>2, <1>3, <1>4, <1>5, <1>6, <1>7, <1>8 DEF Request

LEMMA SaveStep ==
  ASSUME Inv, NEW c \in Clients, Save(c)
  PROVE  Inv'
<1>1. issued' \subseteq 0 .. MaxNow
  BY DEF Save, Inv, TypeOK, RequestsOK
<1>2. session' \in [Clients -> BOOLEAN]
  BY DEF Save, Inv, TypeOK
<1> QED BY <1>1, <1>2, FinishStep DEF Save, Inv, TypeOK

LEMMA DropStep ==
  ASSUME Inv, NEW c \in Clients, DropSession(c)
  PROVE  Inv'
<1>1. session' \in [Clients -> BOOLEAN]
  BY DEF DropSession, Inv, TypeOK
<1> QED BY <1>1, FinishStep DEF DropSession, Inv, TypeOK

\* The row that is inserted has an id and a name of its own.
LEMMA InsertStep ==
  ASSUME Inv, NEW c \in Clients, Insert(c)
  PROVE  Inv'
<1> USE DEF Insert
<1>1. CASE NameTaken(loc[c].name) \/ nextId > Budget
  BY <1>1, FinishStep DEF Inv, TypeOK
<1>2. CASE ~(NameTaken(loc[c].name) \/ nextId > Budget)
  <2> DEFINE t == [id |-> nextId, name |-> loc[c].name, exp |-> loc[c].exp]
  <2>1. tokens' = tokens \cup {t} /\ nextId' = nextId + 1
    BY <1>2
  <2>2. t \in Token
    BY DEF Inv, TypeOK, RequestsOK, Token, Local
  <2>3. /\ pc' \in [Clients -> PC] /\ loc' \in [Clients -> Local]
        /\ RequestsOK'
        /\ \A d \in Clients : loc'[d].next <= nextId
        /\ \A d \in Clients : pc'[d] = "remove" => pc[d] = "remove" /\ loc'[d] = loc[d]
    BY IdleType DEF Finish, Jump, Inv, TypeOK, RequestsOK, DeletesOK, PC
  <2>4. TypeOK'
    BY <2>1, <2>2, <2>3 DEF Inv, TypeOK
  <2>5. TokensOK'
    BY <1>2, <2>1 DEF Inv, TypeOK, TokensOK, NameTaken
  <2>6. DeletesOK'
    <3>1. \A d \in Clients : loc'[d].next \in Nat
      BY <2>3 DEF Local
    <3>2. \A d \in Clients : pc'[d] = "remove" => t.id # loc'[d].id /\ t.id >= loc'[d].next
      BY <2>3 DEF Inv, TypeOK
    <3> HIDE DEF t
    <3> QED BY <2>1, <2>3, <3>1, <3>2, <2>2 DEF Inv, TypeOK, DeletesOK, Token
  <2> QED BY <2>3, <2>4, <2>5, <2>6 DEF Inv
<1> QED BY <1>1, <1>2

\* An id that is lost was given out all the same.
LEMMA LoseInsertStep ==
  ASSUME Inv, NEW c \in Clients, LoseInsert(c)
  PROVE  Inv'
<1> USE DEF LoseInsert
<1>1. /\ pc' \in [Clients -> PC] /\ loc' \in [Clients -> Local]
      /\ RequestsOK'
      /\ \A d \in Clients : loc'[d].next <= nextId
      /\ \A d \in Clients : pc'[d] = "remove" => pc[d] = "remove" /\ loc'[d] = loc[d]
  BY IdleType DEF Finish, Jump, Inv, TypeOK, RequestsOK, DeletesOK, PC
<1>2. nextId \in Nat /\ nextId' = nextId + 1
  BY DEF Inv, TypeOK
<1>3. TypeOK'
  BY <1>1, <1>2 DEF Inv, TypeOK
<1>4. TokensOK'
  BY <1>2 DEF Inv, TokensOK
<1>5. DeletesOK'
  <2>1. \A d \in Clients : loc'[d].next \in Nat
    BY <1>1 DEF Local
  <2> QED BY <1>1, <1>2, <2>1 DEF Inv, DeletesOK
<1> QED BY <1>1, <1>3, <1>4, <1>5 DEF Inv

LEMMA SelectStep ==
  ASSUME Inv, NEW c \in Clients, SelectToken(c)
  PROVE  Inv'
<1> USE DEF SelectToken
<1>1. CASE ~NameTaken(loc[c].name)
  BY <1>1, FinishStep DEF Inv, TypeOK
<1>2. CASE NameTaken(loc[c].name)
  <2>1. PICK t \in tokens :
          t.name = loc[c].name /\ Jump(c, [loc[c] EXCEPT !.id = t.id], "remove")
    BY <1>2
  <2>2. t \in Token /\ t.id \in 1 .. nextId - 1
    BY DEF Inv, TypeOK, TokensOK
  <2>3. TypeOK'
    BY <2>1, <2>2 DEF Jump, Inv, TypeOK, Local, Token, PC
  <2>4. RequestsOK'
    BY <2>1 DEF Jump, Inv, TypeOK, RequestsOK, Local
  <2>5. TokensOK'
    BY DEF Inv, TokensOK
  <2>6. DeletesOK'
    BY <2>1 DEF Jump, Inv, TypeOK, TokensOK, DeletesOK, Local
  <2> QED BY <2>3, <2>4, <2>5, <2>6 DEF Inv
<1> QED BY <1>1, <1>2

LEMMA RemoveStep ==
  ASSUME Inv, NEW c \in Clients, Remove(c)
  PROVE  Inv'
<1> USE DEF Remove
<1>1. tokens' \subseteq tokens
  OBVIOUS
<1>2. /\ pc' \in [Clients -> PC] /\ loc' \in [Clients -> Local]
      /\ RequestsOK'
      /\ \A d \in Clients : loc'[d].next <= nextId
      /\ \A d \in Clients : pc'[d] = "remove" => pc[d] = "remove" /\ loc'[d] = loc[d]
  BY IdleType DEF Finish, Jump, Inv, TypeOK, RequestsOK, DeletesOK, PC
<1>3. TypeOK'
  BY <1>1, <1>2 DEF Inv, TypeOK
<1>4. TokensOK'
  BY <1>1 DEF Inv, TokensOK
<1>5. DeletesOK'
  BY <1>1, <1>2 DEF Inv, DeletesOK
<1> QED BY <1>2, <1>3, <1>4, <1>5 DEF Inv

LEMMA LoseRemoveStep ==
  ASSUME Inv, NEW c \in Clients, LoseRemove(c)
  PROVE  Inv'
BY FinishStep DEF LoseRemove, Inv, TypeOK

LEMMA InvStep == Inv /\ [Next]_vars => Inv'
<1> SUFFICES ASSUME Inv, [Next]_vars PROVE Inv'
  OBVIOUS
<1>1. CASE Tick
  BY <1>1, ConstantsAssumption DEF Tick, Inv, TypeOK, RequestsOK, TokensOK, DeletesOK
<1>2. ASSUME NEW c \in Clients, Request(c) PROVE Inv'
  BY <1>2, RequestStep
<1>3. ASSUME NEW c \in Clients, Handle(c) PROVE Inv'
  BY <1>3, SaveStep, DropStep, InsertStep, LoseInsertStep, SelectStep, RemoveStep,
     LoseRemoveStep DEF Handle
<1>4. CASE UNCHANGED vars
  BY <1>4 DEF vars, Inv, TypeOK, RequestsOK, TokensOK, DeletesOK
<1> QED BY <1>1, <1>2, <1>3, <1>4 DEF Next

-----------------------------------------------------------------------------
(* Theorems *)

\* Every reachable state is well typed: in particular a delete always holds
\* the id of a token that was once given out.
THEOREM TypeCorrect == Spec => []TypeOK
<1>1. Inv => TypeOK
  BY DEF Inv
<1> QED BY <1>1, InvInit, InvStep, PTL DEF Spec

\* Only the last step of a delete leaves "remove".
LEMMA LeavesRemove ==
  ASSUME Inv, [Next]_vars, NEW c \in Clients, pc[c] = "remove", pc'[c] # "remove"
  PROVE  Remove(c) \/ LoseRemove(c)
<1>1. CASE Tick BY <1>1 DEF Tick
<1>2. ASSUME NEW d \in Clients, Request(d) PROVE FALSE
  BY <1>2 DEF Request, LoginArrives, TokenArrives, UpdateArrives, Logout, Refresh,
     ChangePwdArrives, CreateArrives, DeleteArrives, Arrive, Jump, Inv, TypeOK
<1>3. ASSUME NEW d \in Clients, Handle(d) PROVE Remove(c) \/ LoseRemove(c)
  BY <1>3 DEF Handle, Save, DropSession, Insert, LoseInsert, SelectToken, Remove,
     LoseRemove, Finish, Jump, Inv, TypeOK
<1>4. CASE UNCHANGED vars BY <1>4 DEF vars
<1> QED BY <1>1, <1>2, <1>3, <1>4 DEF Next

\* When the delete of a token has answered, whatever the other clients create
\* and delete between its SELECT and its DELETE: a token of that name that was
\* there when the request arrived is gone, unless it is the selected one and
\* the DELETE or its commit was lost.
THEOREM DeletedIsGone == Spec => DeleteMeansGone
<1>1. ASSUME Inv, [Next]_vars, NEW c \in Clients, pc[c] = "remove", pc'[c] = "idle",
             NEW t \in tokens', t.name = loc[c].name, t.id < loc[c].next
      PROVE  LoseRemove(c) /\ t.id = loc[c].id
  <2>1. Remove(c) \/ LoseRemove(c)
    BY <1>1, LeavesRemove
  <2>2. t \in tokens
    BY <2>1, <1>1 DEF Remove, LoseRemove
  <2>3. t.id = loc[c].id
    BY <1>1, <2>2 DEF Inv, DeletesOK
  <2>4. ~Remove(c)
    BY <1>1, <2>3 DEF Remove
  <2> QED BY <2>1, <2>3, <2>4
<1>2. Inv /\ [Next]_vars =>
        [\A c \in Clients : pc[c] = "remove" /\ pc'[c] = "idle" =>
           \A t \in tokens' : t.name = loc[c].name /\ t.id < loc[c].next =>
             LoseRemove(c) /\ t.id = loc[c].id]_vars
  BY <1>1
<1> QED BY <1>2, InvInit, InvStep, PTL DEF Spec, DeleteMeansGone

\* A token disappears only under a delete of its own name, and never one that
\* was created after that delete selected its row.
THEOREM NewerIsSpared == Spec => DeleteSparesNewer
<1> DEFINE Spared == \A t \in tokens \ tokens' : \E c \in Clients :
                       pc[c] = "remove" /\ t.name = loc[c].name /\ t.id <= loc[c].id
<1>1. ASSUME Inv, [Next]_vars, NEW t \in tokens, t \notin tokens'
      PROVE  \E c \in Clients :
               pc[c] = "remove" /\ t.name = loc[c].name /\ t.id <= loc[c].id
  <2>1. \E c \in Clients : Remove(c)
    <3>1. CASE Tick BY <1>1, <3>1 DEF Tick
    <3>2. ASSUME NEW d \in Clients, Request(d) PROVE FALSE
      BY <1>1, <3>2 DEF Request, LoginArrives, TokenArrives, UpdateArrives, Logout,
         Refresh, ChangePwdArrives, CreateArrives, DeleteArrives, Arrive
    <3>3. ASSUME NEW d \in Clients, Handle(d) PROVE Remove(d)
      BY <1>1, <3>3 DEF Handle, Save, DropSession, Insert, LoseInsert, SelectToken,
         LoseRemove
    <3>4. CASE UNCHANGED vars BY <1>1, <3>4 DEF vars
    <3> QED BY <1>1, <3>1, <3>2, <3>3, <3>4 DEF Next
  <2>2. PICK c \in Clients : Remove(c)
    BY <2>1
  <2>3. pc[c] = "remove" /\ t.id = loc[c].id
    BY <1>1, <2>2 DEF Remove
  <2>4. t.id \in Nat
    BY <1>1 DEF Inv, TypeOK, Token
  <2> QED BY <1>1, <2>3, <2>4 DEF Inv, DeletesOK
<1>2. Inv /\ [Next]_vars => [Spared]_vars
  BY <1>1
<1> QED BY <1>2, InvInit, InvStep, PTL DEF Spec, DeleteSparesNewer
=============================================================================
