------------------------------- MODULE Sessions -------------------------------
(***************************************************************************)
(* What lets a client in: the cookie session in redis, the JSON web tokens *)
(* and the private tokens of one user (internal/api/user, internal/common, *)
(* internal/middlewares).  A client waits for the answer of a request      *)
(* before it sends the next one; several clients act for the user at the   *)
(* same time.  The look-up of the user is in module UserCache.             *)
(***************************************************************************)
EXTENDS Naturals, FiniteSets

CONSTANTS
  Clients,      \* clients of the user, each with a cookie of its own
  Names,        \* names of private tokens
  NoName,       \* no name
  RefreshLife,  \* life of a refresh token
  YearLife,     \* life that a private token gets if it asks for none
  MaxNow,       \* bound: the last instant
  Budget        \* bound: private tokens that are created

ASSUME ConstantsAssumption ==
  /\ NoName \notin Names
  /\ {RefreshLife, YearLife, MaxNow, Budget} \subseteq Nat

VARIABLES
  now,          \* the clock, in seconds say
  session,      \* redis: does the session of the client's cookie hold the user?
  issued,       \* the instants at which a pair of web tokens was issued
  tokens,       \* MySQL: the rows of table private_token
  nextId,       \* its AUTO_INCREMENT counter
  pc, loc       \* the clients' requests

vars == <<now, session, issued, tokens, nextId, pc, loc>>

-----------------------------------------------------------------------------

Ops   == {"login", "token", "update", "changePwd", "create", "delete"}
Token == [id : Nat, name : Names, exp : Nat]

\* The values a handler holds: the second its tokens are signed in, the
\* private token it works on, and (history) nextId when it arrived.
Local == [id : Nat, name : Names \cup {NoName}, exp : Nat,
          op : Ops, at : Nat, next : Nat]
Ask(op, name, exp) ==
  [id |-> 0, name |-> name, exp |-> exp, op |-> op,
   at |-> IF op = "token" THEN now ELSE 0, next |-> IF op = "delete" THEN nextId ELSE 0]

PC == {"idle", "save", "act", "drop", "remove"}

TypeOK ==
  /\ now \in 0 .. MaxNow
  /\ session \in [Clients -> BOOLEAN]
  /\ issued \subseteq 0 .. MaxNow
  /\ tokens \subseteq Token /\ nextId \in Nat \ {0}
  /\ pc \in [Clients -> PC] /\ loc \in [Clients -> Local]
  /\ \A c \in Clients : pc[c] = "remove" => loc[c].id \in 1 .. nextId - 1

Idle == [id |-> 0, name |-> NoName, exp |-> 0, op |-> "login", at |-> 0, next |-> 0]

Init ==
  /\ now = 0
  /\ session = [c \in Clients |-> FALSE]
  /\ issued = {} /\ tokens = {} /\ nextId = 1
  /\ pc = [c \in Clients |-> "idle"] /\ loc = [c \in Clients |-> Idle]

Tick ==
  /\ now < MaxNow
  /\ now' = now + 1
  /\ UNCHANGED <<session, issued, tokens, nextId, pc, loc>>

Jump(c, l, p) ==
  /\ loc' = [loc EXCEPT ![c] = l]
  /\ pc' = [pc EXCEPT ![c] = p]
Go(c, p)  == Jump(c, loc[c], p)
Finish(c) == Jump(c, Idle, "idle")

-----------------------------------------------------------------------------
(* Authenticate *)

Valid(t) == t.exp >= now

\* Both tokens of a pair are accepted as a bearer token, so a pair lets in
\* as long as its refresh token lives.  Tokens signed in one second for one
\* user are equal.
PairLives(at) == at \in issued /\ now <= at + RefreshLife

\* A session comes first, then a private token, then a web token, and the
\* password always lets in.
Credentials == {"none", "private", "bearer", "basic"}
Authenticated(c, credential) ==
  \/ session[c]
  \/ credential = "private" /\ \E t \in tokens : Valid(t)
  \/ credential = "bearer" /\ \E at \in issued : PairLives(at)
  \/ credential = "basic"

Arrive(c, l, p) ==
  /\ pc[c] = "idle"
  /\ Jump(c, l, p)
  /\ UNCHANGED <<now, session, issued, tokens, nextId>>

-----------------------------------------------------------------------------
(* Sessions and web tokens *)

\* LoginUser and GetUserToken, after the password was compared.
LoginArrives(c) == Arrive(c, Ask("login", NoName, 0), "save")
TokenArrives(c) == Arrive(c, Ask("token", NoName, 0), "save")

\* UpdateUser: the update of the row is in module UserCache.
UpdateArrives(c) ==
  /\ \E k \in Credentials : Authenticated(c, k)
  /\ Arrive(c, Ask("update", NoName, 0), "save")

\* SaveUserSession, then the answer.  The store may fail: LoginUser answers an
\* error then, the others go on.
Save(c) ==
  /\ pc[c] = "save"
  /\ \/ session' = [session EXCEPT ![c] = TRUE]
     \/ UNCHANGED session
  /\ issued' = IF loc[c].op = "token" THEN issued \cup {loc[c].at} ELSE issued
  /\ Finish(c)
  /\ UNCHANGED <<now, tokens, nextId>>

\* LogoutUser: the route has no Authenticate, so no user is ever attached to
\* the request and the handler answers before it deletes the session.
Logout(c) ==
  /\ pc[c] = "idle"
  /\ UNCHANGED <<now, session, issued, tokens, nextId, pc, loc>>

\* RefreshToken: a pair that lives is good for a new one, any number of times.
Refresh(c) ==
  /\ pc[c] = "idle"
  /\ \E at \in issued : PairLives(at)
  /\ issued' = issued \cup {now}
  /\ UNCHANGED <<now, session, tokens, nextId, pc, loc>>

\* changePwd: UpdatePwd, then DeleteUserSession for the cookie of this request
\* alone.  An error of the store is ignored.
ChangePwdArrives(c) ==
  /\ \E k \in Credentials : Authenticated(c, k)
  /\ Arrive(c, Ask("changePwd", NoName, 0), "drop")

DropSession(c) ==
  /\ pc[c] = "drop"
  /\ \/ session' = [session EXCEPT ![c] = FALSE]
     \/ UNCHANGED session
  /\ Finish(c)
  /\ UNCHANGED <<now, issued, tokens, nextId>>

-----------------------------------------------------------------------------
(* Private tokens *)

\* A token that would be born expired gets a year.
CreateArrives(c) ==
  \E k \in Credentials, n \in Names, e \in 0 .. MaxNow :
    /\ Authenticated(c, k)
    /\ Arrive(c, Ask("create", n, IF e < now THEN now + YearLife ELSE e), "act")

NameTaken(n) == \E t \in tokens : t.name = n

\* Mutant: no unique key on user and name.
Insert_NoUniqueKey(c) ==
  /\ pc[c] = "act" /\ loc[c].op = "create"
  /\ nextId <= Budget
  /\ tokens' = tokens \cup {[id |-> nextId, name |-> loc[c].name, exp |-> loc[c].exp]}
  /\ nextId' = nextId + 1
  /\ Finish(c)
  /\ UNCHANGED <<now, session, issued>>

\* Save: the INSERT fails when the name is taken (or the bound is reached).
Insert(c) ==
  /\ pc[c] = "act" /\ loc[c].op = "create"
  /\ IF NameTaken(loc[c].name) \/ nextId > Budget THEN UNCHANGED <<tokens, nextId>>
     ELSE /\ tokens' = tokens \cup {[id |-> nextId, name |-> loc[c].name, exp |-> loc[c].exp]}
          /\ nextId' = nextId + 1
  /\ Finish(c)
  /\ UNCHANGED <<now, session, issued>>

\* The INSERT fails and the client is told so, or the error of Commit is
\* dropped and the client is given a token that is not there; an id is lost.
LoseInsert(c) ==
  /\ pc[c] = "act" /\ loc[c].op = "create" /\ nextId <= Budget
  /\ nextId' = nextId + 1
  /\ Finish(c)
  /\ UNCHANGED <<now, session, issued, tokens>>

DeleteArrives(c) ==
  \E k \in Credentials, n \in Names :
    /\ Authenticated(c, k)
    /\ Arrive(c, Ask("delete", n, 0), "act")

\* Mutant: no token is found and the handler goes on.
SelectToken_NoCheck(c) ==
  /\ pc[c] = "act" /\ loc[c].op = "delete"
  /\ \E i \in {t.id : t \in {t \in tokens : t.name = loc[c].name}} \cup {0} :
       Jump(c, [loc[c] EXCEPT !.id = i], "remove")
  /\ UNCHANGED <<now, session, issued, tokens, nextId>>

\* GetPrivateTokenByUserAndName; 404 if there is none.
SelectToken(c) ==
  /\ pc[c] = "act" /\ loc[c].op = "delete"
  /\ IF NameTaken(loc[c].name)
     THEN \E t \in tokens : /\ t.name = loc[c].name
                            /\ Jump(c, [loc[c] EXCEPT !.id = t.id], "remove")
     ELSE Finish(c)
  /\ UNCHANGED <<now, session, issued, tokens, nextId>>

\* Mutant: the row is deleted by its name.
Remove_ByName(c) ==
  /\ pc[c] = "remove"
  /\ tokens' = {t \in tokens : t.name # loc[c].name}
  /\ Finish(c)
  /\ UNCHANGED <<now, session, issued, nextId>>

\* Delete: by id, and the commit.
Remove(c) ==
  /\ pc[c] = "remove"
  /\ tokens' = {t \in tokens : t.id # loc[c].id}
  /\ Finish(c)
  /\ UNCHANGED <<now, session, issued, nextId>>

\* The DELETE fails and an error is answered, or the error of Commit is
\* dropped and success is answered: the row stays.
LoseRemove(c) ==
  /\ pc[c] = "remove"
  /\ Finish(c)
  /\ UNCHANGED <<now, session, issued, tokens, nextId>>

-----------------------------------------------------------------------------

Request(c) ==
  \/ LoginArrives(c) \/ TokenArrives(c) \/ UpdateArrives(c) \/ Logout(c)
  \/ Refresh(c) \/ ChangePwdArrives(c) \/ CreateArrives(c) \/ DeleteArrives(c)

Handle(c) ==
  \/ Save(c) \/ DropSession(c) \/ Insert(c) \/ LoseInsert(c)
  \/ SelectToken(c) \/ Remove(c) \/ LoseRemove(c)

Next == Tick \/ \E c \in Clients : Request(c) \/ Handle(c)

Spec == Init /\ [][Next]_vars

-----------------------------------------------------------------------------
(* Properties *)

\* DeletePrivateToken selects the token and deletes it in two steps.  Once it
\* has answered, whatever it answered, a token of that name that was there
\* when it arrived can only be the one it selected, and only if the DELETE or
\* its commit was lost ...
DeleteMeansGone ==
  [][\A c \in Clients : pc[c] = "remove" /\ pc'[c] = "idle" =>
       \A t \in tokens' : t.name = loc[c].name /\ t.id < loc[c].next =>
         LoseRemove(c) /\ t.id = loc[c].id]_vars

\* ... and one that another client has created since, under the same name,
\* is spared.
DeleteSparesNewer ==
  [][\A t \in tokens \ tokens' : \E c \in Clients :
       pc[c] = "remove" /\ t.name = loc[c].name /\ t.id <= loc[c].id]_vars
=============================================================================
