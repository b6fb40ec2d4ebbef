------------------------------ MODULE ListProofs ------------------------------
(***************************************************************************)
(* Theorems of Listing for any repositories, any number of images, any     *)
(* length of pages, and any order of equal times:                          *)
(*                                                                         *)
(*   - types (TypeCorrect);                                                *)
(*   - uploads between two pages hide no row (PagesMissNone);              *)
(*   - without writes a list is read whole and once (PagesExact);          *)
(*   - the default tag does not go back (LatestAdvances).                  *)
(***************************************************************************)
EXTENDS Listing, FiniteSetTheorems, SequenceTheorems, TLAPS

-----------------------------------------------------------------------------
(* The inductive invariant *)

\* The tables: finite, with ids that are not used again and times that passed.
TablesOK ==
  /\ IsFiniteSet(repos) /\ IsFiniteSet(images)
  /\ \A i, j \in images : i.id = j.id => i = j
  /\ \A i \in images : i.id < nextId /\ i.updated <= now /\ i.created <= now
  /\ \A r \in repos : r.updated <= now

\* What was seen under a default tag is no newer than an image that is there.
LatestThere ==
  \A r \in Repos : latest[r] > 0 =>
    \E i \in images : i.repo = r /\ i.created >= latest[r]

\* Between two lists nothing of a list is left.
IdleOK == pc = "idle" => page = 1 /\ got = <<>> /\ ~pushed /\ ~changed

\* The rows before a row in every order of different times, by their number.
Above(s, x) == {y \in s : y.updated > x.updated}
Rank(s, x)  == Cardinality(Above(s, x))

\* The rows that the pages read so far are made of.
PagesRead == IF pc = "select" THEN page - 1 ELSE page
Fewer(a, b) == IF a < b THEN a ELSE b
Distinct(s) == \A x, y \in s : x.updated = y.updated => x = y

\* As long as rows are only added: one that was there and was not given yet is
\* on a later page, and the reader will ask for that page.
Missed(k) ==
  \E x \in Rows(owner) :
    /\ x.name = k /\ Rank(Rows(owner), x) >= PagesRead * PageSize
    /\ pc = "next" => More
ComesLater ==
  pc # "idle" /\ ~changed /\ NoTies =>
    \A k \in start : k \in ToSet(got) \/ Missed(k)

\* As long as nothing is written: the rows given are of the list, as many as fit
\* on the pages read.
PagesFull ==
  pc # "idle" /\ ~pushed /\ ~changed =>
    /\ start = Names(Rows(owner)) /\ ToSet(got) \subseteq Names(Rows(owner))
    /\ Len(got) = Fewer(PagesRead * PageSize, Cardinality(Rows(owner)))

\* The answer has no total: the reader goes on after a full page only.
FullBefore == pc = "select" => Len(got) = (page - 1) * PageSize

ListInv == /\ TypeOK /\ TablesOK /\ LatestThere /\ IdleOK
           /\ ComesLater /\ PagesFull /\ FullBefore

-----------------------------------------------------------------------------
(* Orders and ranks *)

\* A row as a query selects it.
Row == [name : Repos, updated : Nat, private : BOOLEAN]

\* In an order of different times a row comes behind those above it: which
\* place it has does not depend on the order.
LEMMA RankIsPlace ==
  ASSUME NEW s, IsFiniteSet(s), s \subseteq Row, Distinct(s),
         NEW o \in Ordered(s), NEW i \in 1 .. Cardinality(s)
  PROVE  o[i] \in s /\ Rank(s, o[i]) = i - 1
<1> DEFINE n == Cardinality(s)
<1>1. n \in Nat
  BY FS_CardinalityType
<1>2. /\ o \in [1 .. n -> s]
      /\ \A j, k \in 1 .. n : j # k => o[j] # o[k]
      /\ \A j, k \in 1 .. n : j < k => o[j].updated >= o[k].updated
  BY DEF Ordered, SetToSeqs
<1> HIDE DEF n
<1>3. o \in Surjection(1 .. n, s)
  <2>1. o \in Injection(1 .. n, s)
    BY <1>2 DEF Injection, IsInjective
  <2>2. IsFiniteSet(1 .. n) /\ Cardinality(1 .. n) = n
    BY <1>1, FS_Interval
  <2> QED BY <2>1, <2>2, FS_Injection DEF n
<1>4. \A x \in s : \E j \in 1 .. n : o[j] = x
  BY <1>3 DEF Surjection
<1>5. \A j \in 1 .. n : o[j] \in s /\ o[j].updated \in Nat
  BY <1>2 DEF Row
<1>6. i \in 1 .. n
  BY DEF n
<1>7. \A j \in 1 .. n : o[j].updated > o[i].updated <=> j < i
  <2> SUFFICES ASSUME NEW j \in 1 .. n PROVE o[j].updated > o[i].updated <=> j < i
    OBVIOUS
  <2>1. o[j].updated \in Nat /\ o[i].updated \in Nat
    BY <1>5, <1>6
  <2>2. j < i => o[j].updated >= o[i].updated /\ o[j].updated # o[i].updated
    BY <1>2, <1>5, <1>6 DEF Distinct
  <2>3. i < j => o[i].updated >= o[j].updated
    BY <1>2, <1>6
  <2>4. i = j \/ i < j \/ j < i
    BY <1>1, <1>6
  <2>5. i = j => o[j].updated = o[i].updated /\ ~(j < i)
    BY <1>1, <1>6
  <2>6. ~(i < j /\ j < i)
    BY <1>1, <1>6
  <2> QED BY <2>1, <2>2, <2>3, <2>4, <2>5, <2>6
<1> DEFINE g == [j \in 1 .. i - 1 |-> o[j]]
<1>8. 1 .. i - 1 \subseteq 1 .. n
  BY <1>1, <1>6
<1>9. g \in Injection(1 .. i - 1, Above(s, o[i]))
  <2>1. g \in [1 .. i - 1 -> Above(s, o[i])]
    <3> SUFFICES ASSUME NEW j \in 1 .. i - 1 PROVE o[j] \in Above(s, o[i])
      OBVIOUS
    <3>1. j \in 1 .. n /\ j < i
      BY <1>1, <1>6
    <3> QED BY <1>5, <1>7, <3>1 DEF Above
  <2>2. \A j, k \in 1 .. i - 1 : g[j] = g[k] => j = k
    BY <1>2, <1>8
  <2> QED BY <2>1, <2>2 DEF Injection, IsInjective
<1>10. \A x \in Above(s, o[i]) : \E j \in 1 .. i - 1 : g[j] = x
  <2> SUFFICES ASSUME NEW x \in Above(s, o[i]) PROVE \E j \in 1 .. i - 1 : o[j] = x
    OBVIOUS
  <2>1. PICK j \in 1 .. n : o[j] = x
    BY <1>4 DEF Above
  <2>2. j < i
    BY <1>7, <2>1 DEF Above
  <2>3. j \in 1 .. i - 1
    BY <1>1, <1>6, <2>2
  <2> QED BY <2>1, <2>3
<1>11. g \in Bijection(1 .. i - 1, Above(s, o[i]))
  BY <1>9, <1>10 DEF Bijection, Surjection, Injection
<1> HIDE DEF g
<1>12. Rank(s, o[i]) = i - 1
  <2>1. ExistsBijection(1 .. i - 1, Above(s, o[i]))
    BY <1>11 DEF ExistsBijection
  <2>2. i - 1 \in Nat
    BY <1>1, <1>6
  <2> QED BY <2>1, <2>2, FS_CountingElements DEF Rank
<1> QED BY <1>5, <1>6, <1>12

\* And every row has its place.
LEMMA RowHasPlace ==
  ASSUME NEW s, IsFiniteSet(s), s \subseteq Row, Distinct(s),
         NEW o \in Ordered(s), NEW x \in s
  PROVE  Rank(s, x) + 1 \in 1 .. Cardinality(s) /\ o[Rank(s, x) + 1] = x
<1> DEFINE n == Cardinality(s)
<1>1. n \in Nat
  BY FS_CardinalityType
<1>2. o \in [1 .. n -> s] /\ \A j, k \in 1 .. n : j # k => o[j] # o[k]
  BY DEF Ordered, SetToSeqs
<1>3. o \in Surjection(1 .. n, s)
  <2>1. o \in Injection(1 .. n, s)
    BY <1>2 DEF Injection, IsInjective
  <2>2. IsFiniteSet(1 .. n) /\ Cardinality(1 .. n) = n
    BY <1>1, FS_Interval
  <2> QED BY <2>1, <2>2, FS_Injection
<1>4. PICK i \in 1 .. n : o[i] = x
  BY <1>3 DEF Surjection
<1>5. Rank(s, x) = i - 1
  BY <1>4, RankIsPlace
<1>6. Rank(s, x) + 1 = i
  BY <1>1, <1>5
<1> QED BY <1>4, <1>6

\* Rows that are added push the others back and never forward.
LEMMA RankGrows ==
  ASSUME NEW s, NEW r, IsFiniteSet(r), s \subseteq r, NEW x
  PROVE  Rank(s, x) \in Nat /\ Rank(r, x) \in Nat /\ Rank(s, x) <= Rank(r, x)
<1>1. Above(s, x) \subseteq Above(r, x) /\ Above(r, x) \subseteq r
  BY DEF Above
<1>2. IsFiniteSet(Above(r, x))
  BY <1>1, FS_Subset
<1>3. IsFiniteSet(Above(s, x)) /\ Cardinality(Above(s, x)) <= Cardinality(Above(r, x))
  BY <1>1, <1>2, FS_Subset
<1> QED BY <1>2, <1>3, FS_CardinalityType DEF Rank

-----------------------------------------------------------------------------
(* What a query answers *)

\* A query selects rows of the table, one per name.
LEMMA RowsOf ==
  ASSUME TypeOK, TablesOK, NEW l \in BOOLEAN
  PROVE  /\ Rows(l) \subseteq Row /\ IsFiniteSet(Rows(l)) /\ Cardinality(Rows(l)) \in Nat
         /\ Names(Rows(l)) \subseteq Repos
         /\ Cardinality(Names(Rows(l))) = Cardinality(Rows(l))
<1>1. Rows(l) \subseteq repos
  BY DEF Rows
<1>2. /\ Rows(l) \subseteq Row
      /\ \A x, y \in Rows(l) : x.name = y.name => x = y
  <2>1. \A r \in repos : r \in Row
    BY ConstantsAssumption DEF TypeOK, Repo, Row
  <2> QED BY <1>1, <2>1 DEF TypeOK
<1>3. IsFiniteSet(Rows(l))
  BY <1>1, FS_Subset DEF TablesOK
<1>4. Cardinality(Names(Rows(l))) = Cardinality(Rows(l))
  <2> DEFINE f == [x \in Rows(l) |-> x.name]
  <2>1. f \in Surjection(Rows(l), Names(Rows(l)))
    BY DEF Surjection, Names
  <2>2. f \in Injection(Rows(l), Names(Rows(l)))
    BY <1>2 DEF Injection, IsInjective, Names
  <2> QED BY <1>3, <2>1, <2>2, FS_Surjection
<1> QED BY <1>2, <1>3, <1>4, FS_CardinalityType DEF Names, Row

\* The page of an order, which is empty behind its end.
PageLength(n) == IF Offset(page) < n THEN Fewer(Offset(page) + PageSize, n) - Offset(page) ELSE 0

LEMMA SelectedPage ==
  ASSUME TypeOK, TablesOK, SelectRows
  PROVE  LET n == Cardinality(Rows(owner))
         IN \E o \in Ordered(Rows(owner)), ks \in Seq(Repos) :
              /\ got' = got \o ks /\ Len(ks) = PageLength(n)
              /\ \A i \in 1 .. Len(ks) :
                   Offset(page) + i \in 1 .. n /\ ks[i] = o[Offset(page) + i].name
<1> DEFINE s == Rows(owner)
           n == Cardinality(s)
           off == Offset(page)
<1>1. s \subseteq Row /\ n \in Nat
  BY RowsOf DEF TypeOK
<1>2. PICK o \in Ordered(s) :
        LET p == SubSeq(o, off + 1, IF off + PageSize < Len(o) THEN off + PageSize ELSE Len(o))
        IN got' = got \o [i \in DOMAIN p |-> p[i].name]
  BY DEF SelectRows
<1>3. o \in [1 .. n -> s]
  BY DEF Ordered, SetToSeqs
<1> DEFINE to == IF off + PageSize < n THEN off + PageSize ELSE n
           p == SubSeq(o, off + 1, to)
           ks == [i \in DOMAIN p |-> p[i].name]
<1> HIDE DEF s, n
<1>4. o \in Seq(s) /\ Len(o) = n
  BY <1>1, <1>3
<1>5. off \in Nat /\ PageSize \in Nat \ {0}
  BY ConstantsAssumption DEF TypeOK, Offset
<1>6. got' = got \o ks
  BY <1>2, <1>4
<1> HIDE DEF off
<1>7. to \in Nat /\ to <= n
  BY <1>1, <1>5
<1>8. PageLength(n) = IF off + 1 <= to THEN to - off ELSE 0
  BY <1>1, <1>5 DEF PageLength, Fewer, off
<1> HIDE DEF to
<1>9. /\ p \in Seq(s) /\ Len(p) = PageLength(n)
      /\ \A i \in 1 .. Len(p) : off + i \in 1 .. n /\ p[i] = o[off + i]
  <2>1. \A i \in off + 1 .. to : i \in 1 .. n /\ o[i] \in s
    BY <1>1, <1>3, <1>5, <1>7
  <2>2. /\ p \in Seq(s) /\ Len(p) = IF off + 1 <= to THEN to - (off + 1) + 1 ELSE 0
        /\ \A i \in 1 .. to - (off + 1) + 1 : p[i] = o[off + 1 + i - 1]
    BY <1>5, <1>7, <2>1, SubSeqProperties
  <2> HIDE DEF p
  <2>3. Len(p) = PageLength(n)
    <3>1. to - (off + 1) + 1 = to - off
      BY <1>5, <1>7
    <3> QED BY <1>8, <2>2, <3>1
  <2>4. ASSUME NEW i \in 1 .. Len(p) PROVE off + i \in 1 .. n /\ p[i] = o[off + i]
    <3>1. off + 1 <= to /\ i \in 1 .. to - (off + 1) + 1
      BY <1>5, <1>7, <2>2
    <3>2. off + 1 + i - 1 = off + i /\ off + i \in off + 1 .. to
      BY <1>5, <1>7, <3>1
    <3> QED BY <2>1, <2>2, <3>1, <3>2
  <2> QED BY <2>2, <2>3, <2>4
<1> HIDE DEF p
<1>10. DOMAIN p = 1 .. Len(p) /\ Len(p) \in Nat
  BY <1>9
<1>11. /\ ks \in Seq(Repos) /\ Len(ks) = Len(p)
       /\ \A i \in 1 .. Len(ks) : ks[i] = p[i].name
  <2>1. \A i \in 1 .. Len(p) : p[i] \in s
    BY <1>9, ElementOfSeq
  <2>2. ks = [i \in 1 .. Len(p) |-> p[i].name]
    BY <1>10
  <2>3. \A i \in 1 .. Len(p) : p[i].name \in Repos
    BY <1>1, <2>1 DEF Row
  <2> QED BY <1>10, <2>2, <2>3
<1> HIDE DEF ks
<1>12. \A i \in 1 .. Len(ks) : off + i \in 1 .. n /\ ks[i] = o[off + i].name
  BY <1>9, <1>11
<1> QED BY <1>2, <1>6, <1>9, <1>11, <1>12 DEF s, n, off

LEMMA GivenMore ==
  ASSUME NEW a \in Seq(Repos), NEW b \in Seq(Repos)
  PROVE  /\ a \o b \in Seq(Repos) /\ Len(a \o b) = Len(a) + Len(b)
         /\ ToSet(a \o b) = ToSet(a) \cup ToSet(b)
         /\ Len(a) \in Nat /\ Len(b) \in Nat
<1>1. /\ a \o b \in Seq(Repos) /\ Len(a \o b) = Len(a) + Len(b)
      /\ \A i \in 1 .. Len(a) + Len(b) : (a \o b)[i] = IF i <= Len(a) THEN a[i] ELSE b[i - Len(a)]
  BY ConcatProperties
<1>2. Len(a) \in Nat /\ Len(b) \in Nat /\ DOMAIN a = 1 .. Len(a) /\ DOMAIN b = 1 .. Len(b)
      /\ DOMAIN (a \o b) = 1 .. Len(a) + Len(b)
  BY <1>1
<1>3. ASSUME NEW k \in ToSet(a \o b) PROVE k \in ToSet(a) \cup ToSet(b)
  <2>1. PICK i \in 1 .. Len(a) + Len(b) : (a \o b)[i] = k
    BY <1>2, <1>3 DEF ToSet
  <2>2. CASE i <= Len(a)
    BY <1>1, <1>2, <2>1, <2>2 DEF ToSet
  <2>3. CASE ~(i <= Len(a))
    <3>1. i - Len(a) \in 1 .. Len(b)
      BY <1>2, <2>3
    <3> QED BY <1>1, <1>2, <2>1, <2>3, <3>1 DEF ToSet
  <2> QED BY <2>2, <2>3
<1>4. ASSUME NEW k \in ToSet(a) PROVE k \in ToSet(a \o b)
  <2>1. PICK i \in 1 .. Len(a) : a[i] = k
    BY <1>2, <1>4 DEF ToSet
  <2>2. i \in 1 .. Len(a) + Len(b) /\ i <= Len(a)
    BY <1>2
  <2> QED BY <1>1, <1>2, <2>1, <2>2 DEF ToSet
<1>5. ASSUME NEW k \in ToSet(b) PROVE k \in ToSet(a \o b)
  <2>1. PICK i \in 1 .. Len(b) : b[i] = k
    BY <1>2, <1>5 DEF ToSet
  <2>2. Len(a) + i \in 1 .. Len(a) + Len(b) /\ ~(Len(a) + i <= Len(a)) /\ Len(a) + i - Len(a) = i
    BY <1>2
  <2> QED BY <1>1, <1>2, <2>1, <2>2 DEF ToSet
<1> QED BY <1>1, <1>2, <1>3, <1>4, <1>5

-----------------------------------------------------------------------------
(* The tables and the default tag *)

Tables == TypeOK /\ TablesOK /\ LatestThere

LEMMA InitTables == Init => Tables
<1> SUFFICES ASSUME Init PROVE Tables
  OBVIOUS
<1>1. 0 \in 0 .. MaxNow /\ 1 \in 1 .. MaxId + 1
  BY ConstantsAssumption
<1>3. TypeOK
  <2>1. /\ now \in 0 .. MaxNow /\ nextId \in 1 .. MaxId + 1
        /\ repos \subseteq Repo /\ images \subseteq Image
        /\ \A r, s \in repos : r.name = s.name => r = s
    BY <1>1 DEF Init
  <2>2. /\ pc \in {"idle", "select", "next"} /\ owner \in BOOLEAN
        /\ page \in Nat \ {0} /\ got \in Seq(Repos) /\ start \subseteq Repos
    <3>1. 1 \in Nat \ {0} /\ <<>> \in Seq(Repos) /\ {} \subseteq Repos
      OBVIOUS
    <3> QED BY <3>1 DEF Init
  <2>3. /\ pushed \in BOOLEAN /\ changed \in BOOLEAN /\ left \in Nat
        /\ latest \in [Repos -> 0 .. MaxNow]
    BY <1>1, ConstantsAssumption DEF Init
  <2> QED BY <2>1, <2>2, <2>3 DEF TypeOK
<1>4. TablesOK
  BY FS_EmptySet DEF Init, TablesOK
<1>5. LatestThere
  BY DEF Init, LatestThere
<1> QED BY <1>3, <1>4, <1>5 DEF Tables

\* The reader of a list changes no table.
LEMMA ReadersKeepTables ==
  ASSUME TablesOK, LatestThere, UNCHANGED <<now, repos, images, nextId, latest>>
  PROVE  TablesOK' /\ LatestThere'
BY DEF TablesOK, LatestThere

LEMMA TickKeepsTables == ASSUME Tables, Tick PROVE Tables'
<1>1. TypeOK'
  BY ConstantsAssumption DEF Tables, Tick, TypeOK, reader, Repo, Image
<1>2. TablesOK'
  <2>1. now \in Nat /\ now' = now + 1 /\ UNCHANGED <<repos, images, nextId>>
    BY ConstantsAssumption DEF Tables, Tick, TypeOK
  <2>2. /\ \A i \in images : i.updated \in Nat /\ i.created \in Nat
        /\ \A r \in repos : r.updated \in Nat
    BY ConstantsAssumption DEF Tables, TypeOK, Image, Repo
  <2> QED BY <2>1, <2>2 DEF Tables, TablesOK
<1>3. LatestThere'
  BY DEF Tables, Tick, LatestThere
<1> QED BY <1>1, <1>2, <1>3 DEF Tables

LEMMA PushKeepsTables == ASSUME Tables, NEW r \in Repos, Push(r) PROVE Tables'
<1> DEFINE i == [updated |-> now, repo |-> r, id |-> nextId, created |-> now]
<1>1. /\ images' = images \cup {i} /\ nextId \in 1 .. MaxId /\ nextId' = nextId + 1
      /\ now \in 0 .. MaxNow /\ now' = now /\ latest' = latest
  BY ConstantsAssumption DEF Tables, Push, TypeOK
<1>2. i \in Image /\ i.id = nextId /\ i.repo = r /\ i.updated = now /\ i.created = now
  BY <1>1 DEF Image
<1> HIDE DEF i
<1>3. PICK new : /\ repos' = repos \cup new
                 /\ \/ new = {} /\ \E p \in repos : p.name = r
                    \/ /\ \A p \in repos : p.name # r
                       /\ \E b \in BOOLEAN : new = {[name |-> r, updated |-> now, private |-> b]}
  <2>1. CASE \E p \in repos : p.name = r
    <3>1. repos' = repos \cup {}
      BY <2>1 DEF Push
    <3> QED BY <2>1, <3>1
  <2>2. CASE ~\E p \in repos : p.name = r
    BY <2>2 DEF Push
  <2> QED BY <2>1, <2>2
<1>4. /\ new \subseteq Repo /\ IsFiniteSet(repos')
      /\ \A p \in new : p.name = r /\ p.updated = now
      /\ \A p, q \in new : p = q
      /\ \A p \in repos, q \in new : p.name # q.name
      /\ \E p \in repos' : p.name = r
  <2>1. CASE new = {}
    BY <1>3, <2>1 DEF Tables, TablesOK
  <2>2. CASE \E b \in BOOLEAN : new = {[name |-> r, updated |-> now, private |-> b]}
    <3>1. PICK b \in BOOLEAN : new = {[name |-> r, updated |-> now, private |-> b]}
      BY <2>2
    <3>2. [name |-> r, updated |-> now, private |-> b] \in Repo
      BY <1>1 DEF Repo
    <3>3. IsFiniteSet(repos')
      BY <1>3, <3>1, FS_AddElement DEF Tables, TablesOK
    <3> QED BY <1>3, <3>1, <3>2, <3>3
  <2> QED BY <1>3, <2>1, <2>2
<1>5. TypeOK'
  <2>1. repos' \subseteq Repo /\ images' \subseteq Image
    BY <1>1, <1>2, <1>3, <1>4 DEF Tables, TypeOK
  <2>2. \A p, q \in repos' : p.name = q.name => p = q
    BY <1>3, <1>4 DEF Tables, TypeOK
  <2>3. nextId' \in 1 .. MaxId + 1
    BY <1>1, ConstantsAssumption
  <2>4. pushed' \in BOOLEAN
    BY DEF Push, Tables, TypeOK
  <2> QED BY <1>1, <2>1, <2>2, <2>3, <2>4 DEF Push, Tables, TypeOK, reader
<1>6. TablesOK'
  <2>1. IsFiniteSet(images')
    BY <1>1, FS_AddElement DEF Tables, TablesOK
  <2>2. \A j \in images : j.id \in Nat /\ j.id < nextId
    BY ConstantsAssumption DEF Tables, TypeOK, TablesOK, Image
  <2>3. \A j, k \in images' : j.id = k.id => j = k
    BY <1>1, <1>2, <2>2 DEF Tables, TablesOK
  <2>4. \A j \in images' : j.id < nextId' /\ j.updated <= now /\ j.created <= now
    BY <1>1, <1>2, <2>2 DEF Tables, TablesOK
  <2>5. \A p \in repos' : p.updated <= now
    BY <1>1, <1>3, <1>4 DEF Tables, TablesOK
  <2> QED BY <1>1, <1>4, <2>1, <2>3, <2>4, <2>5 DEF TablesOK
<1>7. LatestThere'
  BY <1>1 DEF Tables, LatestThere
<1> QED BY <1>5, <1>6, <1>7 DEF Tables

LEMMA OverwriteKeepsTables == ASSUME Tables, NEW i \in images, Overwrite(i) PROVE Tables'
<1> DEFINE j == [i EXCEPT !.updated = now]
<1>1. /\ images' = (images \ {i}) \cup {j} /\ now \in 0 .. MaxNow
      /\ UNCHANGED <<now, repos, nextId, reader, pushed, latest>>
      /\ left \in Nat /\ left' \in Nat /\ changed' \in BOOLEAN
  BY ConstantsAssumption DEF Tables, Overwrite, TypeOK, Spend, Reading
<1>2. /\ j \in Image /\ j.id = i.id /\ j.repo = i.repo /\ j.created = i.created /\ j.updated = now
      /\ i \in Image
  BY <1>1 DEF Tables, TypeOK, Image
<1> HIDE DEF j
<1>3. TypeOK'
  BY <1>1, <1>2 DEF Tables, TypeOK, reader
<1>4. TablesOK'
  <2>1. IsFiniteSet(images \ {i})
    BY FS_RemoveElement DEF Tables, TablesOK
  <2>2. IsFiniteSet(images')
    BY <1>1, <2>1, FS_AddElement
  <2>3. i.id < nextId /\ i.created <= now /\ now <= now
    BY <1>1 DEF Tables, TablesOK
  <2> QED BY <1>1, <1>2, <2>2, <2>3 DEF Tables, TablesOK
<1>5. LatestThere'
  BY <1>1, <1>2 DEF Tables, LatestThere
<1> QED BY <1>3, <1>4, <1>5 DEF Tables

LEMMA DeleteKeepsTables == ASSUME Tables, NEW i \in images, Delete(i) PROVE Tables'
<1>1. /\ images' = images \ {i} /\ latest' = [latest EXCEPT ![i.repo] = 0]
      /\ UNCHANGED <<now, repos, nextId, reader, pushed>>
      /\ left \in Nat /\ left' \in Nat /\ changed' \in BOOLEAN
  BY ConstantsAssumption DEF Tables, Delete, TypeOK, Spend, Reading
<1>2. i.repo \in Repos /\ 0 \in 0 .. MaxNow
  BY ConstantsAssumption DEF Tables, TypeOK, Image
<1>3. TypeOK'
  BY <1>1, <1>2 DEF Tables, TypeOK, reader
<1>4. TablesOK'
  BY <1>1, FS_RemoveElement DEF Tables, TablesOK
<1>5. LatestThere'
  BY <1>1, <1>2 DEF Tables, TypeOK, LatestThere
<1> QED BY <1>3, <1>4, <1>5 DEF Tables

LEMMA DeleteRepoKeepsTables == ASSUME Tables, NEW r \in repos, DeleteRepo(r) PROVE Tables'
<1>1. /\ repos' = repos \ {r} /\ images' = {i \in images : i.repo # r.name}
      /\ latest' = [latest EXCEPT ![r.name] = 0]
      /\ UNCHANGED <<now, nextId, reader, pushed>>
      /\ left \in Nat /\ left' \in Nat /\ changed' \in BOOLEAN
  BY ConstantsAssumption DEF Tables, DeleteRepo, TypeOK, Spend, Reading
<1>2. r.name \in Repos /\ 0 \in 0 .. MaxNow /\ images' \subseteq images
  BY <1>1, ConstantsAssumption DEF Tables, TypeOK, Repo
<1>3. TypeOK'
  BY <1>1, <1>2 DEF Tables, TypeOK, reader
<1>4. TablesOK'
  <2>1. IsFiniteSet(repos') /\ IsFiniteSet(images')
    BY <1>1, <1>2, FS_RemoveElement, FS_Subset DEF Tables, TablesOK
  <2> QED BY <1>1, <1>2, <2>1 DEF Tables, TablesOK
<1>5. LatestThere'
  <2>1. latest'[r.name] = 0 /\ \A p \in Repos \ {r.name} : latest'[p] = latest[p]
    BY <1>1, <1>2 DEF Tables, TypeOK
  <2> QED BY <1>1, <2>1 DEF Tables, LatestThere
<1> QED BY <1>3, <1>4, <1>5 DEF Tables

LEMMA SetPrivateKeepsTables == ASSUME Tables, NEW r \in repos, SetPrivate(r) PROVE Tables'
<1> DEFINE q == [r EXCEPT !.private = ~r.private, !.updated = now]
<1>1. /\ repos' = (repos \ {r}) \cup {q} /\ now \in 0 .. MaxNow
      /\ UNCHANGED <<now, images, nextId, reader, pushed, latest>>
      /\ left \in Nat /\ left' \in Nat /\ changed' \in BOOLEAN
  BY ConstantsAssumption DEF Tables, SetPrivate, TypeOK, Spend, Reading
<1>2. q \in Repo /\ q.name = r.name /\ q.updated = now /\ r \in Repo
  BY <1>1 DEF Tables, TypeOK, Repo
<1> HIDE DEF q
<1>3. TypeOK'
  BY <1>1, <1>2 DEF Tables, TypeOK, reader
<1>4. TablesOK'
  <2>1. IsFiniteSet(repos \ {r})
    BY FS_RemoveElement DEF Tables, TablesOK
  <2>2. IsFiniteSet(repos')
    BY <1>1, <2>1, FS_AddElement
  <2>3. now <= now
    BY <1>1
  <2> QED BY <1>1, <1>2, <2>2, <2>3 DEF Tables, TablesOK
<1>5. LatestThere'
  BY <1>1 DEF Tables, LatestThere
<1> QED BY <1>3, <1>4, <1>5 DEF Tables

LEMMA GetLatestKeepsTables == ASSUME Tables, NEW r \in Repos, GetLatest(r) PROVE Tables'
<1>1. PICK i \in Newest(r) : latest' = [latest EXCEPT ![r] = i.created]
  BY DEF GetLatest
<1>2. UNCHANGED <<now, repos, images, nextId, reader, pushed, changed, left>>
  BY DEF GetLatest
<1>3. i \in images /\ i.repo = r /\ i.created \in 0 .. MaxNow
  BY DEF Newest, Tables, TypeOK, Image
<1>4. TypeOK'
  BY <1>1, <1>2, <1>3 DEF Tables, TypeOK, reader
<1>5. TablesOK'
  BY <1>2 DEF Tables, TablesOK
<1>6. LatestThere'
  <2>1. latest'[r] = i.created /\ \A p \in Repos \ {r} : latest'[p] = latest[p]
    BY <1>1 DEF Tables, TypeOK
  <2>2. i.created >= i.created
    BY <1>3
  <2> QED BY <1>2, <1>3, <2>1, <2>2 DEF Tables, LatestThere
<1> QED BY <1>4, <1>5, <1>6 DEF Tables

-----------------------------------------------------------------------------
(* The reader and the rows that others write *)

Reader == IdleOK /\ ComesLater /\ PagesFull /\ FullBefore

LEMMA InitReader == Init => Reader
BY DEF Init, Reader, IdleOK, ComesLater, PagesFull, FullBefore

\* While the rows stay, the reader's view of them does.
LEMMA StillReader ==
  ASSUME Reader, UNCHANGED <<repos, images, reader, pushed, changed>>
  PROVE  Reader'
<1>1. Rows(owner)' = Rows(owner)
  BY DEF Rows, reader
<1>2. Names(Rows(owner))' = Names(Rows(owner))
  BY <1>1
<1>3. NoTies' = NoTies /\ More' = More /\ PagesRead' = PagesRead
  BY <1>1 DEF NoTies, More, PagesRead, reader
<1>4. ComesLater'
  BY <1>1, <1>3 DEF Reader, ComesLater, Missed, reader
<1>5. PagesFull'
  BY <1>1, <1>2, <1>3 DEF Reader, PagesFull, reader
<1>6. IdleOK' /\ FullBefore'
  BY DEF Reader, IdleOK, FullBefore, reader
<1> QED BY <1>4, <1>5, <1>6 DEF Reader

\* What is changed under a reader is not promised to it.
LEMMA ChangeKeepsReader ==
  ASSUME Reader, UNCHANGED <<reader, pushed>>, changed' = (changed \/ Reading)
  PROVE  Reader'
<1>1. pc' # "idle" => changed'
  BY DEF Reading, reader
<1>2. ComesLater' /\ PagesFull'
  BY <1>1 DEF ComesLater, PagesFull
<1>3. IdleOK' /\ FullBefore'
  BY DEF Reader, IdleOK, FullBefore, Reading, reader
<1> QED BY <1>2, <1>3 DEF Reader

LEMMA RowsAreFinite == TypeOK /\ TablesOK => IsFiniteSet(Rows(owner))
BY RowsOf DEF TypeOK

\* An upload only adds rows.
LEMMA PushKeepsReader ==
  ASSUME TypeOK, TablesOK, TypeOK', TablesOK', Reader, NEW r \in Repos, Push(r)
  PROVE  Reader'
<1>1. /\ UNCHANGED <<reader, changed>> /\ pushed' = (pushed \/ Reading)
      /\ repos \subseteq repos' /\ images \subseteq images'
  BY DEF Push
<1>2. Rows(owner) \subseteq Rows(owner)'
  BY <1>1 DEF Rows, reader
<1>3. IsFiniteSet(Rows(owner)')
  <2>1. IsFiniteSet(Rows(owner))'
    BY RowsAreFinite, PTL
  <2> QED BY <2>1
<1>4. NoTies' => NoTies
  BY <1>2 DEF NoTies
<1>5. More' = More /\ PagesRead' = PagesRead /\ PagesRead * PageSize \in Nat
  BY <1>1, ConstantsAssumption DEF More, PagesRead, reader, TypeOK
<1>6. ASSUME NEW k, Missed(k) PROVE Missed(k)'
  <2>1. PICK x \in Rows(owner) : /\ x.name = k /\ Rank(Rows(owner), x) >= PagesRead * PageSize
                                 /\ pc = "next" => More
    BY <1>6 DEF Missed
  <2>2. /\ Rank(Rows(owner), x) \in Nat /\ Rank(Rows(owner)', x) \in Nat
        /\ Rank(Rows(owner), x) <= Rank(Rows(owner)', x)
    BY <1>2, <1>3, RankGrows
  <2>3. Rank(Rows(owner)', x) >= PagesRead * PageSize
    BY <1>5, <2>1, <2>2
  <2>4. Rank(Rows(owner)', x) >= PagesRead' * PageSize /\ (pc' = "next" => More')
    BY <1>1, <1>5, <2>1, <2>3 DEF reader
  <2> QED BY <1>2, <2>1, <2>4 DEF Missed
<1>7. ComesLater'
  BY <1>1, <1>4, <1>6 DEF Reader, ComesLater, reader
<1>8. PagesFull'
  BY <1>1 DEF PagesFull, Reading, reader
<1>9. IdleOK' /\ FullBefore'
  BY <1>1 DEF Reader, IdleOK, FullBefore, Reading, reader
<1> QED BY <1>7, <1>8, <1>9 DEF Reader

-----------------------------------------------------------------------------
(* The reader's own steps *)

\* Pages follow one another.
LEMMA Offsets ==
  ASSUME TypeOK
  PROVE  /\ Offset(page) \in Nat /\ PageSize \in Nat \ {0}
         /\ page * PageSize = Offset(page) + PageSize
         /\ Offset(page) = (page - 1) * PageSize
<1>1. page \in Nat \ {0} /\ PageSize \in Nat \ {0}
  BY ConstantsAssumption DEF TypeOK
<1>2. PICK q \in Nat : page = q + 1
  BY <1>1
<1>3. (q + 1) * PageSize = q * PageSize + PageSize /\ q * PageSize \in Nat
  BY <1>1
<1>4. page - 1 = q
  BY <1>2
<1> QED BY <1>1, <1>2, <1>3, <1>4 DEF Offset

LEMMA ListKeepsReader ==
  ASSUME TypeOK, TablesOK, Reader, NEW l \in BOOLEAN, List(l)
  PROVE  TypeOK' /\ Reader'
<1>1. /\ pc = "idle" /\ pc' = "select" /\ owner' = l /\ start' = Names(Rows(l))
      /\ UNCHANGED <<now, repos, images, nextId, page, got, pushed, changed, latest, left>>
  BY DEF List
<1>2. page = 1 /\ got = <<>> /\ ~changed
  BY <1>1 DEF Reader, IdleOK
<1>3. Rows(owner)' = Rows(l) /\ Names(Rows(owner))' = Names(Rows(l))
  BY <1>1 DEF Rows
<1>4. /\ Rows(l) \subseteq Row /\ IsFiniteSet(Rows(l)) /\ Cardinality(Rows(l)) \in Nat
      /\ Names(Rows(l)) \subseteq Repos
  BY RowsOf
<1>5. PagesRead' = 0 /\ PagesRead' * PageSize = 0 /\ (page' - 1) * PageSize = 0
  BY <1>1, <1>2, ConstantsAssumption DEF PagesRead
<1>6. TypeOK'
  BY <1>1, <1>4 DEF TypeOK
<1>7. ASSUME NEW k \in start' PROVE Missed(k)'
  <2>1. PICK x \in Rows(l) : x.name = k
    BY <1>1 DEF Names
  <2>2. Rank(Rows(l), x) \in Nat
    BY <1>4, RankGrows
  <2>3. Rank(Rows(l), x) >= PagesRead' * PageSize
    BY <1>5, <2>2
  <2> QED BY <1>1, <1>3, <2>1, <2>3 DEF Missed
<1>8. ComesLater'
  BY <1>7 DEF ComesLater
<1>9. PagesFull'
  <2>1. Len(got') = 0 /\ ToSet(got') = {}
    BY <1>1, <1>2 DEF ToSet
  <2>2. Fewer(0, Cardinality(Rows(l))) = 0
    BY <1>4 DEF Fewer
  <2> QED BY <1>1, <1>3, <1>5, <2>1, <2>2 DEF PagesFull
<1>10. IdleOK' /\ FullBefore'
  <2>1. Len(got') = 0
    BY <1>1, <1>2
  <2> QED BY <1>1, <1>5, <2>1 DEF IdleOK, FullBefore
<1> QED BY <1>6, <1>8, <1>9, <1>10 DEF Reader

LEMMA SelectKeepsReader ==
  ASSUME TypeOK, TablesOK, Reader, SelectRows
  PROVE  TypeOK' /\ Reader'
<1> DEFINE s == Rows(owner)
           n == Cardinality(s)
           off == Offset(page)
<1>1. /\ pc = "select" /\ pc' = "next"
      /\ UNCHANGED <<now, repos, images, nextId, owner, page, start,
                     pushed, changed, latest, left>>
  BY DEF SelectRows
<1>2. PICK o \in Ordered(s), ks \in Seq(Repos) :
        /\ got' = got \o ks /\ Len(ks) = PageLength(n)
        /\ \A i \in 1 .. Len(ks) : off + i \in 1 .. n /\ ks[i] = o[off + i].name
  BY SelectedPage
<1>3. /\ s \subseteq Row /\ IsFiniteSet(s) /\ n \in Nat
      /\ o \in [1 .. n -> s]
  BY RowsOf DEF TypeOK, Ordered, SetToSeqs
<1>4. /\ got' \in Seq(Repos) /\ Len(got') = Len(got) + Len(ks)
      /\ ToSet(got') = ToSet(got) \cup ToSet(ks)
      /\ Len(got) \in Nat /\ Len(ks) \in Nat
  BY <1>2, GivenMore DEF TypeOK
<1>5. Rows(owner)' = s /\ Names(Rows(owner))' = Names(Rows(owner))
  BY <1>1 DEF Rows
<1>6. NoTies' = Distinct(s)
  BY <1>5 DEF NoTies, Distinct
<1> DEFINE m == page * PageSize
<1>7. off \in Nat /\ PageSize \in Nat \ {0} /\ m = off + PageSize
  BY Offsets
<1>8. /\ PagesRead * PageSize = off /\ (page - 1) * PageSize = off
      /\ PagesRead' * PageSize = m
  BY <1>1, Offsets DEF PagesRead
<1>9. Len(ks) = IF off < n THEN Fewer(m, n) - off ELSE 0
  BY <1>2, <1>7 DEF PageLength
<1>10. NoTies' = NoTies /\ (More' <=> Len(got') = m)
  BY <1>1, <1>6 DEF NoTies, Distinct, More
<1>11. Len(got) = off
  BY <1>1, <1>8 DEF Reader, FullBefore
<1>13. TypeOK'
  BY <1>1, <1>4 DEF TypeOK
<1> HIDE DEF s, n, off, m
<1>14. ASSUME Distinct(s), NEW k, k \notin ToSet(got'), k \notin ToSet(got), Missed(k)
       PROVE  Missed(k)'
  <2>1. PICK x \in s : x.name = k /\ Rank(s, x) >= off
    BY <1>8, <1>14 DEF Missed, s
  <2>2. Rank(s, x) + 1 \in 1 .. n /\ o[Rank(s, x) + 1] = x /\ Rank(s, x) \in Nat
    BY <1>3, <1>14, RowHasPlace, RankGrows DEF n
  <2> DEFINE q == Rank(s, x)
  <2> HIDE DEF q
  <2>3. q \in Nat /\ q < n /\ q >= off
    BY <1>3, <2>1, <2>2 DEF q
  <2>4. q >= m
    <3> SUFFICES ASSUME ~(q >= m) PROVE FALSE
      OBVIOUS
    <3>1. q + 1 - off \in 1 .. Len(ks) /\ off + (q + 1 - off) = q + 1
      BY <1>3, <1>7, <1>9, <2>3 DEF Fewer
    <3>2. ks[q + 1 - off] = o[q + 1].name
      BY <1>2, <3>1
    <3>3. ks[q + 1 - off] = k
      BY <2>1, <2>2, <3>2 DEF q
    <3>4. k \in ToSet(ks)
      BY <1>2, <3>1, <3>3 DEF ToSet
    <3> QED BY <1>4, <1>14, <3>4
  <2>5. pc' = "next" => More'
    <3> SUFFICES ASSUME pc' = "next" PROVE More'
      OBVIOUS
    <3>2. Len(ks) = m - off
      BY <1>3, <1>7, <1>9, <2>3, <2>4 DEF Fewer
    <3>3. Len(got') = m
      BY <1>4, <1>7, <1>11, <3>2
    <3> QED BY <1>10, <3>3
  <2> QED BY <1>5, <1>8, <2>1, <2>4, <2>5 DEF Missed, q
<1>15. ComesLater'
  <2> SUFFICES ASSUME ~changed', NoTies', NEW k \in start' PROVE k \in ToSet(got') \/ Missed(k)'
    BY DEF ComesLater
  <2>1. k \in ToSet(got) \/ Missed(k)
    BY <1>1, <1>10 DEF Reader, ComesLater
  <2> QED BY <1>4, <1>6, <1>14, <2>1
<1>16. PagesFull'
  <2> SUFFICES ASSUME ~pushed', ~changed' PROVE
        /\ start' = Names(Rows(owner))' /\ ToSet(got') \subseteq Names(Rows(owner))'
        /\ Len(got') = Fewer(PagesRead' * PageSize, Cardinality(Rows(owner)'))
    BY <1>1 DEF PagesFull
  <2>1. /\ start = Names(Rows(owner)) /\ ToSet(got) \subseteq Names(Rows(owner))
        /\ Len(got) = Fewer(PagesRead * PageSize, Cardinality(Rows(owner)))
    BY <1>1 DEF Reader, PagesFull
  <2>2. ToSet(ks) \subseteq Names(Rows(owner))
    <3> SUFFICES ASSUME NEW i \in 1 .. Len(ks) PROVE ks[i] \in Names(Rows(owner))
      BY <1>2 DEF ToSet
    <3>1. o[off + i] \in s /\ ks[i] = o[off + i].name
      BY <1>2, <1>3
    <3> QED BY <3>1 DEF Names, s
  <2>3. Len(got) = Fewer(off, n)
    BY <1>8, <2>1 DEF s, n
  <2>4. Len(got') = Fewer(m, n)
    BY <1>3, <1>4, <1>7, <1>9, <2>3 DEF Fewer
  <2> QED BY <1>1, <1>4, <1>5, <1>8, <2>1, <2>2, <2>4 DEF n
<1>17. IdleOK' /\ FullBefore'
  BY <1>1 DEF IdleOK, FullBefore
<1> QED BY <1>13, <1>15, <1>16, <1>17 DEF Reader

LEMMA NextPageKeepsReader ==
  ASSUME TypeOK, TablesOK, Reader, NextPage
  PROVE  TypeOK' /\ Reader'
<1>1. pc = "next" /\ UNCHANGED <<now, repos, images, nextId, latest, left>>
  BY DEF NextPage
<1>2. CASE More
  <2>1. /\ pc' = "select" /\ page' = page + 1
        /\ UNCHANGED <<owner, got, start, pushed, changed>>
    BY <1>2 DEF NextPage
  <2>2. page' \in Nat \ {0} /\ page' - 1 = page
    BY <2>1 DEF TypeOK
  <2>3. TypeOK'
    BY <1>1, <2>1, <2>2 DEF TypeOK
  <2>4. Rows(owner)' = Rows(owner) /\ Names(Rows(owner))' = Names(Rows(owner))
    BY <1>1, <2>1 DEF Rows
  <2>5. PagesRead' = PagesRead /\ NoTies' = NoTies
    BY <1>1, <2>1, <2>2, <2>4 DEF PagesRead, NoTies
  <2>6. ComesLater'
    BY <1>1, <2>1, <2>4, <2>5 DEF Reader, ComesLater, Missed
  <2>7. PagesFull'
    BY <1>1, <2>1, <2>4, <2>5 DEF Reader, PagesFull
  <2>8. IdleOK' /\ FullBefore'
    <3>1. Len(got) = page * PageSize
      BY <1>2 DEF More
    <3> QED BY <2>1, <2>2, <3>1 DEF IdleOK, FullBefore
  <2> QED BY <2>3, <2>6, <2>7, <2>8 DEF Reader
<1>3. CASE ~More
  <2>1. /\ pc' = "idle" /\ owner' = FALSE /\ page' = 1
        /\ got' = <<>> /\ start' = {} /\ pushed' = FALSE /\ changed' = FALSE
    BY <1>3 DEF NextPage
  <2>2. <<>> \in Seq(Repos) /\ 1 \in Nat \ {0}
    OBVIOUS
  <2>3. TypeOK'
    BY <1>1, <2>1, <2>2 DEF TypeOK
  <2>4. Reader'
    BY <2>1 DEF Reader, IdleOK, ComesLater, PagesFull, FullBefore
  <2> QED BY <2>3, <2>4
<1> QED BY <1>2, <1>3

-----------------------------------------------------------------------------
(* The theorems *)

LEMMA ListInvInductive == Spec => []ListInv
<1>1. Init => ListInv
  BY InitTables, InitReader DEF Tables, Reader, ListInv
<1>2. ListInv /\ [Next]_vars => ListInv'
  <2> SUFFICES ASSUME ListInv, [Next]_vars PROVE ListInv'
    OBVIOUS
  <2>1. Tables /\ Reader
    BY DEF ListInv, Tables, Reader
  <2> SUFFICES Tables' /\ Reader'
    BY DEF ListInv, Tables, Reader
  <2>2. TypeOK /\ TablesOK /\ LatestThere
    BY <2>1 DEF Tables
  <2>3. CASE Tick
    <3>1. UNCHANGED <<repos, images, reader, pushed, changed>>
      BY <2>3 DEF Tick
    <3> QED BY <2>1, <2>3, <3>1, TickKeepsTables, StillReader
  <2>4. CASE \E r \in Repos : Push(r)
    <3>1. PICK r \in Repos : Push(r)
      BY <2>4
    <3>2. Tables' /\ TypeOK' /\ TablesOK'
      BY <2>1, <3>1, PushKeepsTables DEF Tables
    <3> QED BY <2>1, <2>2, <3>1, <3>2, PushKeepsReader
  <2>5. CASE \E i \in images : Overwrite(i) \/ Delete(i)
    <3>1. PICK i \in images : Overwrite(i) \/ Delete(i)
      BY <2>5
    <3>2. UNCHANGED <<reader, pushed>> /\ changed' = (changed \/ Reading)
      BY <3>1 DEF Overwrite, Delete, Spend
    <3> QED BY <2>1, <3>1, <3>2, OverwriteKeepsTables, DeleteKeepsTables, ChangeKeepsReader
  <2>6. CASE \E r \in repos : SetPrivate(r) \/ DeleteRepo(r)
    <3>1. PICK r \in repos : SetPrivate(r) \/ DeleteRepo(r)
      BY <2>6
    <3>2. UNCHANGED <<reader, pushed>> /\ changed' = (changed \/ Reading)
      BY <3>1 DEF SetPrivate, DeleteRepo, Spend
    <3> QED BY <2>1, <3>1, <3>2, SetPrivateKeepsTables, DeleteRepoKeepsTables, ChangeKeepsReader
  <2>7. CASE \E r \in Repos : GetLatest(r)
    <3>1. PICK r \in Repos : GetLatest(r)
      BY <2>7
    <3>2. UNCHANGED <<repos, images, reader, pushed, changed>>
      BY <3>1 DEF GetLatest
    <3> QED BY <2>1, <3>1, <3>2, GetLatestKeepsTables, StillReader
  <2>8. CASE (\E o \in BOOLEAN : List(o)) \/ SelectRows \/ NextPage
    <3>1. UNCHANGED <<now, repos, images, nextId, latest>>
      BY <2>8 DEF List, SelectRows, NextPage
    <3>2. TypeOK' /\ Reader'
      BY <2>1, <2>2, <2>8, ListKeepsReader, SelectKeepsReader, NextPageKeepsReader
    <3> QED BY <2>2, <3>1, <3>2, ReadersKeepTables DEF Tables
  <2>9. CASE UNCHANGED vars
    <3>1. UNCHANGED <<now, repos, images, nextId, latest, left>>
          /\ UNCHANGED <<repos, images, reader, pushed, changed>>
      BY <2>9 DEF vars
    <3>2. TypeOK'
      BY <2>2, <3>1 DEF TypeOK, reader
    <3> QED BY <2>1, <2>2, <3>1, <3>2, ReadersKeepTables, StillReader DEF Tables
  <2> QED BY <2>3, <2>4, <2>5, <2>6, <2>7, <2>8, <2>9 DEF Next, Write
<1> QED BY <1>1, <1>2, PTL DEF Spec

\* TypeOK: no two repositories of the user have one name, and the reader keeps
\* pages and names of rows (ListRepositories).
THEOREM TypeCorrect == Spec => []TypeOK
<1>1. ListInv => TypeOK
  BY DEF ListInv
<1> QED BY <1>1, ListInvInductive, PTL

\* PagesMissNone: uploads between two pages (the offset and limit of
\* models.QueryRepoList and QueryPublicRepoList) never hide a row that was there before
\* the first.
THEOREM MissesNone == Spec => []PagesMissNone
<1>1. ListInv => PagesMissNone
  <2> SUFFICES ASSUME ListInv, pc = "next", ~More, ~changed, NoTies, NEW k \in start
               PROVE  k \in ToSet(got)
    BY DEF PagesMissNone
  <2> QED BY DEF ListInv, ComesLater, Missed
<1> QED BY <1>1, ListInvInductive, PTL

\* PagesExact: a list that nobody writes to meanwhile is read whole, each row
\* once, though every page is sorted anew by a query of its own.
THEOREM ReadsExactly == Spec => []PagesExact
<1>1. ListInv => PagesExact
  <2> SUFFICES ASSUME ListInv, pc = "next", ~More, ~pushed, ~changed, NoTies
               PROVE  /\ ToSet(got) = Names(Rows(owner)) /\ Len(got) = Cardinality(Names(Rows(owner)))
    BY DEF PagesExact
  <2>1. TypeOK /\ TablesOK
    BY DEF ListInv
  <2>2. /\ start = Names(Rows(owner)) /\ ToSet(got) \subseteq Names(Rows(owner))
        /\ Len(got) = Fewer(PagesRead * PageSize, Cardinality(Rows(owner)))
    BY DEF ListInv, PagesFull
  <2>3. start \subseteq ToSet(got)
    BY DEF ListInv, ComesLater, Missed
  <2> DEFINE n == Cardinality(Rows(owner))
             m == page * PageSize
  <2>4. n \in Nat /\ Cardinality(Names(Rows(owner))) = n
    BY <2>1, RowsOf DEF TypeOK
  <2>5. m \in Nat /\ PagesRead * PageSize = m
    BY <2>1, Offsets DEF PagesRead
  <2>6. Len(got) # m
    BY DEF More
  <2>7. Len(got) = Fewer(m, n)
    BY <2>2, <2>5
  <2> HIDE DEF n, m
  <2>8. Len(got) = n
    BY <2>4, <2>5, <2>6, <2>7 DEF Fewer
  <2> QED BY <2>2, <2>3, <2>4, <2>8 DEF n
<1> QED BY <1>1, ListInvInductive, PTL

\* LatestAdvances: the default tag (GetImage ordered by created_at) never
\* returns to an older image than was seen under it, unless one is deleted.
THEOREM DefaultTagAdvances == Spec => LatestAdvances
<1> DEFINE Advance == (\A r \in Repos : latest'[r] >= latest[r]) \/ images \ images' # {}
<1>1. ListInv /\ [Next]_vars => [Advance]_vars
  <2> SUFFICES ASSUME ListInv, Next PROVE Advance
    OBVIOUS
  <2>1. /\ latest \in [Repos -> 0 .. MaxNow] /\ images \subseteq Image
        /\ \A r \in Repos : latest[r] \in Nat
    BY ConstantsAssumption DEF ListInv, TypeOK
  <2>2. CASE latest' = latest
    BY <2>1, <2>2
  <2>3. ASSUME NEW r \in Repos, GetLatest(r) PROVE Advance
    <3>1. PICK i \in Newest(r) : latest' = [latest EXCEPT ![r] = i.created]
      BY <2>3 DEF GetLatest
    <3>2. i \in images /\ \A j \in images : j.repo = r => j.created <= i.created
      BY DEF Newest
    <3>3. \A j \in images : j.created \in Nat
      BY <2>1, ConstantsAssumption DEF Image
    <3>4. i.created >= latest[r]
      <4>1. CASE latest[r] > 0
        <5>1. PICK j \in images : j.repo = r /\ j.created >= latest[r]
          BY <4>1 DEF ListInv, LatestThere
        <5> QED BY <2>1, <3>2, <3>3, <5>1
      <4>2. CASE ~(latest[r] > 0)
        BY <2>1, <3>2, <3>3, <4>2
      <4> QED BY <4>1, <4>2
    <3>5. latest'[r] >= latest[r]
      BY <2>1, <3>1, <3>4
    <3>6. \A p \in Repos \ {r} : latest'[p] = latest[p]
      BY <2>1, <3>1
    <3> QED BY <2>1, <3>5, <3>6
  <2>4. ASSUME NEW i \in images, Delete(i) PROVE Advance
    BY <2>4 DEF Delete
  <2>5. ASSUME NEW q \in repos, DeleteRepo(q) PROVE Advance
    <3>1. /\ latest' = [latest EXCEPT ![q.name] = 0]
          /\ images' = {i \in images : i.repo # q.name}
      BY <2>5 DEF DeleteRepo
    <3>2. CASE \E i \in images : i.repo = q.name
      BY <3>1, <3>2
    <3>3. CASE ~\E i \in images : i.repo = q.name
      <4>1. q.name \in Repos
        BY DEF ListInv, TypeOK, Repo
      <4>2. latest[q.name] = 0
        BY <2>1, <3>3, <4>1 DEF ListInv, LatestThere
      <4>3. latest' = latest
        BY <2>1, <3>1, <4>1, <4>2
      <4> QED BY <2>1, <4>3
    <3> QED BY <3>2, <3>3
  <2>6. \/ latest' = latest \/ \E r \in Repos : GetLatest(r)
        \/ (\E i \in images : Delete(i)) \/ \E q \in repos : DeleteRepo(q)
    BY DEF Next, Write, Tick, Push, Overwrite, SetPrivate, List, SelectRows, NextPage
  <2> QED BY <2>2, <2>3, <2>4, <2>5, <2>6
<1> QED BY <1>1, ListInvInductive, PTL DEF Spec, LatestAdvances
=============================================================================
