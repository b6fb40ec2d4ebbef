-------------------------------- MODULE Listing --------------------------------
(***************************************************************************)
(* The list of one user's repositories, page by page (ListRepositories of  *)
(* internal/api/image and its two queries in internal/models/image.go),    *)
(* and the default tag of a repository, while uploads and deletes change   *)
(* the rows.  Times are TIMESTAMP columns: whole seconds, and rows of one  *)
(* second come in any order, in another one each time.  There is no list   *)
(* of images: ListImages selects a column region_code, which no table      *)
(* has, and answers 500.                                                   *)
(***************************************************************************)
EXTENDS Naturals, Sequences, FiniteSets, SequencesExt

CONSTANTS
  Repos,        \* repositories of the user
  PageSize,
  MaxNow,       \* bound: the last second
  MaxId,        \* bound: images that are ever created
  Budget        \* bound: overwrites, deletes and changes of visibility

ASSUME ConstantsAssumption ==
  /\ PageSize \in Nat \ {0}
  /\ {MaxNow, MaxId, Budget} \subseteq Nat

VARIABLES
  now,
  repos,        \* MySQL: table repository
  images,       \* MySQL: table image
  nextId,       \* its AUTO_INCREMENT counter
  pc, owner,    \* the reader: where it is, and whether it lists its own rows
  page, got,    \* its page, the repositories it was given
  start,        \* history: what was there when it began
  pushed, changed, \* history: rows were added, or changed or removed
  latest,       \* history: when the image was created that was last seen
                \* under the default tag
  left          \* what is left of Budget

reader == <<pc, owner, page, got, start>>
vars == <<now, repos, images, nextId, reader, pushed, changed, latest, left>>

-----------------------------------------------------------------------------

Repo  == [name : Repos, updated : 0 .. MaxNow, private : BOOLEAN]
Image == [updated : 0 .. MaxNow, repo : Repos, id : 1 .. MaxId, created : 0 .. MaxNow]

TypeOK ==
  /\ now \in 0 .. MaxNow
  /\ repos \subseteq Repo /\ images \subseteq Image
  /\ \A r, s \in repos : r.name = s.name => r = s
  /\ nextId \in 1 .. MaxId + 1
  /\ pc \in {"idle", "select", "next"} /\ owner \in BOOLEAN
  /\ page \in Nat \ {0} /\ got \in Seq(Repos) /\ start \subseteq Repos
  /\ pushed \in BOOLEAN /\ changed \in BOOLEAN
  /\ latest \in [Repos -> 0 .. MaxNow]
  /\ left \in Nat

Init ==
  /\ now = 0 /\ repos = {} /\ images = {} /\ nextId = 1
  /\ pc = "idle" /\ owner = FALSE /\ page = 1 /\ got = <<>> /\ start = {}
  /\ pushed = FALSE /\ changed = FALSE
  /\ latest = [r \in Repos |-> 0]
  /\ left = Budget

Tick ==
  /\ now < MaxNow /\ now' = now + 1
  /\ UNCHANGED <<repos, images, nextId, reader, pushed, changed, latest, left>>

-----------------------------------------------------------------------------
(* Uploads and deletes, as far as the lists see them *)

Reading == pc # "idle"

\* Mutant: the repository is not looked up first, and its key not unique.
Push_NoUniqueKey(r) ==
  /\ nextId <= MaxId
  /\ \E b \in BOOLEAN : repos' = repos \cup {[name |-> r, updated |-> now, private |-> b]}
  /\ images' = images \cup {[updated |-> now, repo |-> r, id |-> nextId, created |-> now]}
  /\ nextId' = nextId + 1
  /\ pushed' = (pushed \/ Reading)
  /\ UNCHANGED <<now, reader, changed, latest, left>>

\* An upload inserts an image, and its repository if that is new.
Push(r) ==
  /\ nextId <= MaxId
  /\ IF \E p \in repos : p.name = r THEN UNCHANGED repos
     ELSE \E b \in BOOLEAN :
            repos' = repos \cup {[name |-> r, updated |-> now, private |-> b]}
  /\ images' = images \cup {[updated |-> now, repo |-> r, id |-> nextId, created |-> now]}
  /\ nextId' = nextId + 1
  /\ pushed' = (pushed \/ Reading)
  /\ UNCHANGED <<now, reader, changed, latest, left>>

Spend == left > 0 /\ left' = left - 1 /\ changed' = (changed \/ Reading)

\* A forced upload updates the row.
Overwrite(i) ==
  /\ Spend
  /\ images' = (images \ {i}) \cup {[i EXCEPT !.updated = now]}
  /\ UNCHANGED <<now, repos, nextId, reader, pushed, latest>>

\* An upload to a repository that exists sets its visibility.
SetPrivate(r) ==
  /\ Spend
  /\ repos' = (repos \ {r}) \cup {[r EXCEPT !.private = ~@, !.updated = now]}
  /\ UNCHANGED <<now, images, nextId, reader, pushed, latest>>

Delete(i) ==
  /\ Spend
  /\ images' = images \ {i}
  /\ latest' = [latest EXCEPT ![i.repo] = 0]
  /\ UNCHANGED <<now, repos, nextId, reader, pushed>>

\* A repository goes with its images, in one transaction.
DeleteRepo(r) ==
  /\ Spend
  /\ repos' = repos \ {r}
  /\ images' = {i \in images : i.repo # r.name}
  /\ latest' = [latest EXCEPT ![r.name] = 0]
  /\ UNCHANGED <<now, nextId, reader, pushed>>

-----------------------------------------------------------------------------
(* The default tag *)

\* Mutant: the image that was changed last.
Newest_Updated(r) ==
  {i \in images : i.repo = r /\ \A j \in images : j.repo = r => j.updated <= i.updated}

\* ORDER BY created_at DESC LIMIT 1.
Newest(r) ==
  {i \in images : i.repo = r /\ \A j \in images : j.repo = r => j.created <= i.created}

\* GetImage of the default tag, which is not read from redis.
GetLatest(r) ==
  /\ \E i \in Newest(r) : latest' = [latest EXCEPT ![r] = i.created]
  /\ UNCHANGED <<now, repos, images, nextId, reader, pushed, changed, left>>

-----------------------------------------------------------------------------
(* The list *)

\* A user (and an administrator) sees all of its own rows, others those that
\* are public.
Rows(o) == {r \in repos : o \/ ~r.private}
Names(s) == {r.name : r \in s}

\* Mutant: no ORDER BY.
Ordered_Not(s) == SetToSeqs(s)

\* ORDER BY updated_at DESC: the order of equal times is open.
Ordered(s) ==
  {o \in SetToSeqs(s) : \A i, j \in 1 .. Cardinality(s) : i < j => o[i].updated >= o[j].updated}

\* Mutant: pages are numbered from 0.
Offset_FromZero(p) == p * PageSize
Offset(p) == (p - 1) * PageSize

List(o) ==
  /\ pc = "idle"
  /\ pc' = "select" /\ owner' = o /\ start' = Names(Rows(o))
  /\ UNCHANGED <<now, repos, images, nextId, page, got, pushed, changed, latest, left>>

\* LIMIT of the rows in an order that every page has anew.
SelectRows ==
  /\ pc = "select"
  /\ \E o \in Ordered(Rows(owner)) :
       LET p == SubSeq(o, Offset(page) + 1, IF Offset(page) + PageSize < Len(o)
                                           THEN Offset(page) + PageSize ELSE Len(o))
       IN got' = got \o [i \in DOMAIN p |-> p[i].name]
  /\ pc' = "next"
  /\ UNCHANGED <<now, repos, images, nextId, owner, page, start, pushed, changed, latest, left>>

\* The answer has no total: the reader goes on until a page is not full.
More == Len(got) = page * PageSize

NextPage ==
  /\ pc = "next"
  /\ IF More THEN /\ pc' = "select" /\ page' = page + 1
                  /\ UNCHANGED <<owner, got, start, pushed, changed>>
             ELSE /\ pc' = "idle" /\ owner' = FALSE /\ page' = 1
                  /\ got' = <<>> /\ start' = {} /\ pushed' = FALSE /\ changed' = FALSE
  /\ UNCHANGED <<now, repos, images, nextId, latest, left>>

-----------------------------------------------------------------------------

Write ==
  \/ \E r \in Repos : Push(r)
  \/ \E i \in images : Overwrite(i) \/ Delete(i)
  \/ \E r \in repos : SetPrivate(r) \/ DeleteRepo(r)

Next ==
  \/ Tick \/ Write
  \/ \E r \in Repos : GetLatest(r)
  \/ \E o \in BOOLEAN : List(o)
  \/ SelectRows \/ NextPage

Spec == Init /\ [][Next]_vars

-----------------------------------------------------------------------------
(* Properties *)

NoTies == \A x, y \in Rows(owner) : x.updated = y.updated => x = y

\* A list that was read page by page while nothing changed holds every
\* repository that the reader may see once, and no other, though every page is
\* a query of its own.
PagesExact ==
  pc = "next" /\ ~More /\ ~pushed /\ ~changed /\ NoTies =>
    ToSet(got) = Names(Rows(owner)) /\ Len(got) = Cardinality(Names(Rows(owner)))

\* Uploads push rows to later pages while the list is read: the reader may
\* then see a row twice, but misses none that was there when it began.
PagesMissNone ==
  pc = "next" /\ ~More /\ ~changed /\ NoTies => start \subseteq ToSet(got)

\* The default tag never goes back to an image that is older than one that
\* was seen under it, as long as none is deleted.
LatestAdvances ==
  [][(\A r \in Repos : latest'[r] >= latest[r]) \/ images \ images' # {}]_vars
=============================================================================
