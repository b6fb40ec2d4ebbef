------------------------------- MODULE UserCache -------------------------------
(***************************************************************************)
(* The row of one user in MySQL and its two copies in redis, one under the *)
(* user name and one under the user id (internal/models/user.go), with the *)
(* requests that read and write them: every request is authenticated by a  *)
(* look-up, a profile update or a password change then writes the row and  *)
(* deletes the copies.  A step of a worker is one call to redis or MySQL.  *)
(***************************************************************************)
EXTENDS Naturals, FiniteSets

CONSTANTS
  Workers,      \* requests that can be in progress at the same time
  Nobody,       \* no worker
  Values,       \* passwords, nicknames and e-mail addresses
  Original,     \* what the user registered with, as all three
  Keep,         \* a field that an update leaves out (the empty string)
  DelFails,     \* may the DEL of the copies fail?
  Budget        \* bound: writes, and failures; any number of reads

Ops    == {"read", "update", "password"}
Events == {"write", "abort"}

ASSUME ConstantsAssumption ==
  /\ Nobody \notin Workers /\ Keep \notin Values /\ Original \in Values
  /\ DelFails \in BOOLEAN
  /\ Budget \in [Events -> Nat]

VARIABLES
  row,          \* MySQL: the committed row
  tx,           \* the open transaction: its owner and the row it will commit
  cached,       \* redis: the copies, NoUser if there is none
  pc, loc,      \* the workers
  left,         \* what is left of Budget
  newest,       \* history: the password asked for last
  calm          \* history: no two requests have overlapped and nothing failed

vars == <<row, tx, cached, pc, loc, left, newest, calm>>

-----------------------------------------------------------------------------
(* Data *)

User   == [pwd : Values, nick : Values, email : Values]
NoUser == [pwd |-> Keep, nick |-> Keep, email |-> Keep]
Field  == Values \cup {Keep}

\* How a look-up finds the user: a session and a private token hold the id,
\* a login, a JSON web token and a basic authorization hold the name.
Keys == {"name", "id"}

\* A request: what it does, the key of its look-up, the password that is
\* compared (Keep: none is), and the fields it writes.
Request == [pwd : Field, nick : Field, email : Field,
            op : Ops, key : Keys, check : Field, user : User \cup {NoUser}]
Ask(op, key, check, pwd, nick, email) ==
  [pwd |-> pwd, nick |-> nick, email |-> email,
   op |-> op, key |-> key, check |-> check, user |-> NoUser]
NoRequest == Ask("read", "id", Keep, Keep, Keep, Keep)

\* Only the look-up by name is followed by a comparison.
Asked(r) ==
  /\ r.check # Keep => r.key = "name"
  /\ (r.op = "password") = (r.pwd # Keep)
  /\ r.op # "update" => r.nick = Keep /\ r.email = Keep

PC   == {"idle", "get", "select", "fill", "compare", "in", "del", "commit"}
NoTx == [row |-> NoUser, owner |-> Nobody]

TypeOK ==
  /\ row \in User
  /\ tx \in [row : User \cup {NoUser}, owner : Workers \cup {Nobody}]
  /\ cached \in [Keys -> User \cup {NoUser}]
  /\ pc \in [Workers -> PC] /\ loc \in [Workers -> Request]
  /\ \A w \in Workers : Asked(loc[w])
  /\ left \in [Events -> Nat]
  /\ newest \in Values /\ calm \in BOOLEAN

Init ==
  /\ row = [pwd |-> Original, nick |-> Original, email |-> Original]
  /\ newest = Original
  /\ tx = NoTx
  /\ cached = [k \in Keys |-> NoUser]
  /\ pc = [w \in Workers |-> "idle"] /\ loc = [w \in Workers |-> NoRequest]
  /\ left = Budget /\ calm = TRUE

-----------------------------------------------------------------------------
(* Control of a worker *)

Jump(w, l, p) ==
  /\ loc' = [loc EXCEPT ![w] = l]
  /\ pc' = [pc EXCEPT ![w] = p]

Go(w, p)  == Jump(w, loc[w], p) /\ UNCHANGED left
Finish(w) == Jump(w, NoRequest, "idle") /\ UNCHANGED left

Spend(event) == left[event] > 0 /\ left' = [left EXCEPT ![event] = @ - 1]

\* Reads change nothing but the copies: they need no bound.
Arrive(w, r) ==
  /\ pc[w] = "idle" /\ Asked(r)
  /\ IF r.op = "read" THEN UNCHANGED left ELSE Spend("write")
  /\ Jump(w, r, "get")
  /\ calm' = (calm /\ \A v \in Workers : pc[v] = "idle")
  /\ UNCHANGED <<row, tx, cached, newest>>

\* A call fails and the handler answers 4xx or 5xx, or the process dies: an
\* open transaction is rolled back, the copies are left as they are.
Abort(w) ==
  /\ pc[w] # "idle"
  /\ tx' = IF tx.owner = w THEN NoTx ELSE tx
  /\ Spend("abort") /\ Jump(w, NoRequest, "idle")
  /\ calm' = FALSE
  /\ UNCHANGED <<row, cached, newest>>

-----------------------------------------------------------------------------
(* The look-up: GetUser and GetUserByID *)

\* Once the user is known the password is compared, if there is one.
Found(w, u) ==
  /\ Jump(w, [loc[w] EXCEPT !.user = u],
          IF loc[w].check = Keep THEN "in" ELSE "compare")
  /\ UNCHANGED left

Get(w) ==
  /\ pc[w] = "get"
  /\ IF cached[loc[w].key] = NoUser THEN Go(w, "select")
     ELSE Found(w, cached[loc[w].key])
  /\ UNCHANGED <<row, tx, cached, newest, calm>>

Select(w) ==
  /\ pc[w] = "select"
  /\ Jump(w, [loc[w] EXCEPT !.user = row], "fill") /\ UNCHANGED left
  /\ UNCHANGED <<row, tx, cached, newest, calm>>

Fill(w) ==
  /\ pc[w] = "fill"
  /\ cached' = [cached EXCEPT ![loc[w].key] = loc[w].user]
  /\ Found(w, loc[w].user)
  /\ UNCHANGED <<row, tx, newest, calm>>

\* CheckAndGetUser: the password is compared with the user that was found,
\* be it a copy.
Compare(w) ==
  /\ pc[w] = "compare"
  /\ IF loc[w].user.pwd = loc[w].check THEN Go(w, "in") ELSE Finish(w)
  /\ UNCHANGED <<row, tx, cached, newest, calm>>

\* Mutant: the copies are stored without a time to live.
Expire_Never(k) == FALSE /\ UNCHANGED vars

\* The ten minutes of a copy are over.
Expire(k) ==
  /\ cached[k] # NoUser
  /\ cached' = [cached EXCEPT ![k] = NoUser]
  /\ UNCHANGED <<row, tx, pc, loc, left, newest, calm>>

-----------------------------------------------------------------------------
(* What a request does once it is authenticated *)

Answer(w) ==
  /\ pc[w] = "in" /\ loc[w].op = "read"
  /\ Finish(w)
  /\ UNCHANGED <<row, tx, cached, newest, calm>>

\* Mutant: a field that the request leaves out is written too.
Or_Raw(field, old) == field

\* A field that is left out keeps its value.
Or(field, old) == IF field = Keep THEN old ELSE field

\* What User.Update writes: both columns, from the user that was found and
\* the fields that the request gives.  An UPDATE waits for the row lock.
Updated(r) == [row EXCEPT !.nick = Or(r.nick, r.user.nick),
                          !.email = Or(r.email, r.user.email)]

\* Mutant: every column of the user is written.
Update_AllColumns(w) ==
  /\ pc[w] = "in" /\ loc[w].op = "update"
  /\ tx = NoTx
  /\ tx' = [row |-> [Updated(loc[w]) EXCEPT !.pwd = loc[w].user.pwd], owner |-> w]
  /\ Go(w, "del")
  /\ UNCHANGED <<row, cached, newest, calm>>

Update(w) ==
  /\ pc[w] = "in" /\ loc[w].op = "update"
  /\ tx = NoTx
  /\ tx' = [row |-> Updated(loc[w]), owner |-> w]
  /\ Go(w, "del")
  /\ UNCHANGED <<row, cached, newest, calm>>

\* UpdatePwd: one UPDATE that commits by itself.
UpdatePwd(w) ==
  /\ pc[w] = "in" /\ loc[w].op = "password"
  /\ tx = NoTx
  /\ row' = [row EXCEPT !.pwd = loc[w].pwd]
  /\ newest' = loc[w].pwd
  /\ Go(w, "del")
  /\ UNCHANGED <<tx, cached, calm>>

\* Mutant: only the copy under the id is deleted.
DeleteCopies_IdOnly(w) ==
  /\ pc[w] = "del"
  /\ cached' = [cached EXCEPT !["id"] = NoUser]
  /\ IF loc[w].op = "update" THEN Go(w, "commit") ELSE Finish(w)
  /\ UNCHANGED <<row, tx, newest, calm>>

\* deleteUserInRedis: one DEL of both keys, whose error is ignored.  The
\* deferred calls of Update run last in, first out: the DEL comes before the
\* commit.
DeleteCopies(w) ==
  /\ pc[w] = "del"
  /\ \/ cached' = [k \in Keys |-> NoUser] /\ UNCHANGED calm
     \/ DelFails /\ UNCHANGED cached /\ calm' = FALSE
  /\ IF loc[w].op = "update" THEN Go(w, "commit") ELSE Finish(w)
  /\ UNCHANGED <<row, tx, newest>>

Commit(w) ==
  /\ pc[w] = "commit"
  /\ row' = tx.row /\ tx' = NoTx
  /\ Finish(w)
  /\ UNCHANGED <<cached, newest, calm>>

-----------------------------------------------------------------------------

\* GetUserInfo and every endpoint that only needs the user; LoginUser,
\* GetUserToken and AuthWithBasic compare a password.
ReadArrives(w) ==
  \E k \in Keys, c \in Field : Arrive(w, Ask("read", k, c, Keep, Keep, Keep))

UpdateArrives(w) ==
  \E k \in Keys, n, e \in Field : Arrive(w, Ask("update", k, Keep, Keep, n, e))

\* changePwd, by session or token, and resetPwd, by name.
PasswordArrives(w) ==
  \E k \in Keys, c \in Field, p \in Values :
     Arrive(w, Ask("password", k, c, p, Keep, Keep))

Step(w) ==
  \/ Get(w) \/ Select(w) \/ Fill(w) \/ Compare(w) \/ Answer(w)
  \/ Update(w) \/ UpdatePwd(w) \/ DeleteCopies(w) \/ Commit(w)

Next ==
  \/ \E w \in Workers :
       ReadArrives(w) \/ UpdateArrives(w) \/ PasswordArrives(w) \/ Step(w) \/ Abort(w)
  \/ \E k \in Keys : Expire(k)

Fairness == /\ \A w \in Workers : WF_vars(Step(w))
            /\ \A k \in Keys : WF_vars(Expire(k))

Spec == Init /\ [][Next]_vars /\ Fairness

-----------------------------------------------------------------------------
(* Properties *)

\* A reader that selected the row before a password change may store its
\* copy after the DEL, a DEL may fail, and a profile update deletes the
\* copies before it commits: a copy can be older than the row.  It never
\* stays so: once the writers rest, the copies that are left, and those that
\* readers make again and again, are the row.
CopiesConverge == <>[](\A k \in Keys : cached[k] \in {NoUser, row})

\* A profile update works on a user that may be a copy from before a
\* password change, and still never brings the old password back: the
\* password of the row is the one that was asked for last.
PasswordStays == row.pwd = newest

\* As long as no two requests overlap and nothing fails, an update of the
\* nickname alone leaves the e-mail address alone and the other way round,
\* although Update writes both columns from the user it was given, which may
\* be a copy.
OthersKept ==
  [][\A w \in Workers : calm /\ pc[w] = "commit" /\ tx' = NoTx /\ calm' =>
        /\ loc[w].nick = Keep => row'.nick = row.nick
        /\ loc[w].email = Keep => row'.email = row.email]_vars

\* And a password that was replaced is refused from then on: nobody gets past
\* the comparison with another password than the row's.
LoginsCurrent ==
  \A w \in Workers :
    calm /\ pc[w] = "in" /\ loc[w].check # Keep => loc[w].check = row.pwd
=============================================================================
