----------------------------- MODULE QueryProofs -----------------------------
(***************************************************************************)
(* Proofs about Query: what a query may ask of the sources and what it may *)
(* answer, for every registry, policy, catalog and table of rows.          *)
(***************************************************************************)
EXTENDS QueryMeaning, PlannerProofs, FunctionTheorems

----------------------------------------------------------------------------
(* What the input of a query determines.                                   *)

PlanIn(i) == Build(i.q, i.cat, DocIn(i))

(* The rows of a server with some columns, and those that can come of side *)
(* k as they are asked for.                                                *)
SentBy(server, fields) == {Cells(r, fields) : r \in ToSet(server.rows)}
RowsIn(i, k) == SentBy(TableOfIn(i, k), ScanProject(i.q, i.cat, DocIn(i), k))

LEMMA InputFacts ==
  ASSUME NEW i \in Input
  PROVE  /\ IsInput(i)
         /\ Len(i.q.from) \in Nat \ {0} /\ SidesOf(i.q) = 1 .. Len(i.q.from)
BY QueryAssumption DEF IsInput, IsStatement

ScanIn(i, k) ==
  [table |-> TableAt(i.q, k), filters |-> FiltersOf(i.q, i.cat, DocIn(i), k),
   project |-> ScanProject(i.q, i.cat, DocIn(i), k)]

MaskIn(i, k) ==
  MaskFor(DocIn(i), TableAt(i.q, SideOf(i.q, i.q.select[k].alias)),
          i.q.select[k].col)

ColumnIn(i, k) ==
  [side |-> SideOf(i.q, i.q.select[k].alias), col |-> i.q.select[k].col,
   mask |-> MaskIn(i, k)]

LEMMA Fields ==
  ASSUME NEW i, NEW k
  PROVE  /\ ScanIn(i, k).table = TableAt(i.q, k)
         /\ ScanIn(i, k).filters = FiltersOf(i.q, i.cat, DocIn(i), k)
         /\ ScanIn(i, k).project = ScanProject(i.q, i.cat, DocIn(i), k)
         /\ ColumnIn(i, k).side = SideOf(i.q, i.q.select[k].alias)
         /\ ColumnIn(i, k).col = i.q.select[k].col
         /\ ColumnIn(i, k).mask = MaskIn(i, k)
BY DEF ScanIn, ColumnIn

LEMMA PlanFacts ==
  ASSUME NEW i \in Input
  PROVE  /\ DOMAIN PlanIn(i).sides = 1 .. Len(i.q.from)
         /\ Len(PlanIn(i).sides) = Len(i.q.from)
         /\ \A k \in 1 .. Len(i.q.from) : PlanIn(i).sides[k] = ScanIn(i, k)
         /\ DOMAIN PlanIn(i).links = 1 .. Len(i.q.from) - 1
         /\ Len(PlanIn(i).links) = Len(i.q.from) - 1
         /\ \A k \in 1 .. Len(i.q.from) - 1 :
              PlanIn(i).links[k] = LinkTo(i.q, i.cat, k + 1)
         /\ DOMAIN PlanIn(i).cols = DOMAIN i.q.select
         /\ \A k \in DOMAIN i.q.select : PlanIn(i).cols[k] = ColumnIn(i, k)
<1>1. Len(i.q.from) \in Nat \ {0} /\ SidesOf(i.q) = 1 .. Len(i.q.from)
  BY InputFacts
<1>2. PlanIn(i).sides = [k \in 1 .. Len(i.q.from) |-> ScanIn(i, k)]
  BY <1>1 DEF PlanIn, Build, ScanIn
<1>3. PlanIn(i).links =
        [k \in 1 .. Len(i.q.from) - 1 |-> LinkTo(i.q, i.cat, k + 1)]
  BY DEF PlanIn, Build
<1>4. PlanIn(i).cols = [k \in DOMAIN i.q.select |-> ColumnIn(i, k)]
  BY DEF PlanIn, Build, ColumnIn, MaskIn
<1> DEFINE n == Len(i.q.from)
<1>5. /\ Len(PlanIn(i).sides) = n /\ Len(PlanIn(i).links) = n - 1
  <2>1. n \in Nat /\ n - 1 \in Nat BY <1>1
  <2> HIDE DEF n
  <2>2. \A f, m : m \in Nat /\ f = [k \in 1 .. m |-> f[k]] => Len(f) = m
    OBVIOUS
  <2>3. /\ PlanIn(i).sides = [k \in 1 .. n |-> PlanIn(i).sides[k]]
        /\ PlanIn(i).links = [k \in 1 .. n - 1 |-> PlanIn(i).links[k]]
    BY <1>2, <1>3 DEF n
  <2>4. QED BY <2>1, <2>2, <2>3
<1>6. QED BY <1>2, <1>3, <1>4, <1>5

----------------------------------------------------------------------------
(* Who the query is run for.                                               *)

(* An accepted query is the one of the role that its groups give it, and   *)
(* that role may read each of its tables.                                  *)
LEMMA RoleIsOwed ==
  ASSUME in \in Input, AcceptedIn(in)
  PROVE  /\ in.token.bearer /\ in.token.iss \in DOMAIN Registry
         /\ HasRole # {} /\ PrincipalIn(in).roles[1] = RoleOwed
         /\ RoleOwed \in DOMAIN Policy /\ DocIn(in) = Policy[RoleOwed]
         /\ \A i \in SidesOf(in.q) : TableAt(in.q, i) \notin Policy[RoleOwed].deny
<1>1. in.token.groups \in Seq(STRING) BY InputFacts DEF IsInput
<1>2. in.token.bearer /\ in.token.iss \in DOMAIN Registry
  <2>1. PrincipalIn(in) # Nobody
    <3>1. PrincipalIn(in).roles # <<>> /\ Nobody.roles = <<>>
      BY DEF AcceptedIn, Nobody
    <3>2. QED BY <3>1
  <2>2. QED BY <2>1 DEF PrincipalIn, ResolveFromHeader
<1>3. PrincipalIn(in).roles = RolesOf(Registered, Groups)
  BY <1>2 DEF PrincipalIn, ResolveFromHeader, Registered, Groups
<1>4. PICK k \in DOMAIN Groups :
         /\ Groups[k] \in DOMAIN Registered.roles
         /\ RolesOf(Registered, Groups)[1] = Registered.roles[Groups[k]]
         /\ \A j \in 1 .. k - 1 : Groups[j] \notin DOMAIN Registered.roles
  BY <1>1, <1>3, FirstRole DEF AcceptedIn, Groups
<1>5. k \in HasRole /\ \A j \in HasRole : k <= j
  <2>1. DOMAIN Groups = 1 .. Len(Groups) /\ Len(Groups) \in Nat
    BY <1>1 DEF Groups
  <2>2. k \in HasRole BY <1>4 DEF HasRole
  <2>3. ASSUME NEW j \in HasRole PROVE k <= j
    <3>1. j \in 1 .. Len(Groups) /\ Groups[j] \in DOMAIN Registered.roles
      BY <2>1 DEF HasRole
    <3>2. j \notin 1 .. k - 1 BY <1>4, <3>1
    <3>3. QED BY <1>4, <2>1, <3>1, <3>2
  <2>4. QED BY <2>2, <2>3
<1>6. \A j \in HasRole : j \in Int
  BY <1>1 DEF HasRole, Groups
<1>7. (CHOOSE n \in HasRole : \A j \in HasRole : n <= j) = k
  <2> DEFINE m == CHOOSE n \in HasRole : \A j \in HasRole : n <= j
  <2>1. m \in HasRole /\ \A j \in HasRole : m <= j BY <1>5
  <2> HIDE DEF m
  <2>2. QED BY <1>5, <1>6, <2>1
<1>8. HasRole # {} /\ PrincipalIn(in).roles[1] = RoleOwed
  BY <1>3, <1>4, <1>5, <1>7 DEF RoleOwed
<1>9. \A i \in SidesOf(in.q) : ~ObjectDenied(Policy, RoleOwed, TableAt(in.q, i))
  BY <1>8 DEF AcceptedIn, ParseTables
<1>10. \E i : i \in SidesOf(in.q)
  <2>1. Len(in.q.from) \in Nat \ {0} /\ SidesOf(in.q) = 1 .. Len(in.q.from)
    BY InputFacts
  <2>2. 1 \in SidesOf(in.q) BY <2>1
  <2>3. QED BY <2>2
<1>11. QED BY <1>2, <1>8, <1>9, <1>10 DEF ObjectDenied, DocIn

(* The attributes are those of the last group that sets them. *)
LEMMA AttrIsOwed ==
  ASSUME in \in Input, AcceptedIn(in), NEW name \in DOMAIN PrincipalIn(in).attrs
  PROVE  SetBy(name) # {} /\ PrincipalIn(in).attrs[name] = AttrOwed(name)
<1>1. in.token.groups \in Seq(STRING) BY InputFacts DEF IsInput
<1>2. PrincipalIn(in).attrs = AttrsOf(Registered, Groups)
  BY RoleIsOwed DEF PrincipalIn, ResolveFromHeader, Registered, Groups
<1> DEFINE known ==
             {k \in DOMAIN Groups : Groups[k] \in DOMAIN Registered.attrs}
           setBy ==
             {k \in known : name \in DOMAIN Registered.attrs[Groups[k]]}
<1>3. /\ \E k \in known : name \in DOMAIN Registered.attrs[Groups[k]]
      /\ PrincipalIn(in).attrs[name] = Registered.attrs[Groups[Latest(setBy)]][name]
  BY <1>2 DEF AttrsOf
<1>4. setBy = SetBy(name) BY DEF SetBy
<1>5. SetBy(name) # {}
  BY <1>3, <1>4
<1>6. SetBy(name) \in SUBSET (1 .. Len(Groups)) /\ Len(Groups) \in Nat
  BY <1>1 DEF SetBy, Groups
<1>7. IsLast(SetBy(name), Latest(SetBy(name))) BY <1>5, <1>6, HasLast
<1>8. (CHOOSE k \in SetBy(name) : \A j \in SetBy(name) : k >= j)
      = Latest(SetBy(name))
  <2> DEFINE m == CHOOSE k \in SetBy(name) : \A j \in SetBy(name) : k >= j
             l == Latest(SetBy(name))
  <2>1. \A j \in SetBy(name) : j \in Int BY <1>6
  <2>2. l \in SetBy(name) /\ \A j \in SetBy(name) : j <= l BY <1>7 DEF IsLast
  <2> HIDE DEF l
  <2>3. \A j \in SetBy(name) : l >= j BY <2>1, <2>2
  <2>4. m \in SetBy(name) /\ \A j \in SetBy(name) : m >= j BY <2>2, <2>3
  <2> HIDE DEF m
  <2>5. m = l BY <2>1, <2>2, <2>4
  <2>6. QED BY <2>5 DEF m, l
<1>9. QED BY <1>3, <1>4, <1>5, <1>8 DEF AttrOwed

----------------------------------------------------------------------------
(* What the sources send.                                                  *)

LEMMA SequenceOf ==
  ASSUME NEW s, IsSequence(s)
  PROVE  s \in Seq(ToSet(s))
BY DEF IsSequence, ToSet

LEMMA MinOfTwo ==
  ASSUME NEW a \in Int, NEW b \in Int
  PROVE  Min({a, b}) \in {a, b} /\ Min({a, b}) <= a /\ Min({a, b}) <= b
<1>1. \E x \in {a, b} : \A y \in {a, b} : x <= y
  <2>1. CASE a <= b BY <2>1
  <2>2. CASE b <= a BY <2>2
  <2>3. QED BY <2>1, <2>2
<1>2. Min({a, b}) \in {a, b} /\ \A y \in {a, b} : Min({a, b}) <= y
  BY <1>1 DEF Min
<1>3. QED BY <1>2

LEMMA PartOf ==
  ASSUME NEW X, NEW s \in Seq(X), NEW m \in Nat, NEW n \in Int, n <= Len(s)
  PROVE  /\ SubSeq(s, m + 1, n) \in Seq(X)
         /\ DOMAIN SubSeq(s, m + 1, n) = 1 .. n - m
         /\ \A k \in 1 .. n - m : m + k \in 1 .. Len(s)
                                  /\ SubSeq(s, m + 1, n)[k] = s[m + k]
<1>1. SubSeq(s, m + 1, n) = [k \in 1 .. n - m |-> s[m + k]]
  OBVIOUS
<1>2. \A k \in 1 .. n - m : m + k \in 1 .. Len(s) /\ s[m + k] \in X
  OBVIOUS
<1> DEFINE t == [k \in 1 .. n - m |-> s[m + k]]
<1>3. t \in Seq(X)
  <2>1. CASE n - m \in Nat BY <1>2, <2>1
  <2>2. CASE n - m \notin Nat
    <3>1. 1 .. n - m = {} BY <2>2
    <3>2. t = <<>> BY <3>1
    <3>3. QED BY <3>2
  <2>3. QED BY <2>1, <2>2
<1>4. QED BY <1>1, <1>2, <1>3

(* Whatever a server is asked, it sends rows of its own, with the columns  *)
(* that were asked for.                                                    *)
LEMMA ServerAnswers ==
  ASSUME NEW server, IsServer(server), NEW call, NEW fields, NEW query,
         NEW offset \in Nat,
         NEW answer \in HandleTable(server, call, fields, query, offset)
  PROVE  /\ answer.status \in {"ok", "rateLimited", "column", "tooLarge"}
         /\ answer.rows \in Seq(SentBy(server, fields))
<1> DEFINE X == SentBy(server, fields)
<1>1. ASSUME NEW status \in {"rateLimited", "column", "tooLarge"}, NEW field,
             answer = Refusal(status, field)
      PROVE  answer.status = status /\ answer.rows \in Seq(X)
  <2>1. answer.status = status /\ answer.rows = <<>>
    BY <1>1, Zenon DEF Refusal
  <2>2. QED BY <2>1
<1>2. ASSUME answer = PageFrom(server, fields, query, offset)
      PROVE  answer.status = "ok" /\ answer.rows \in Seq(X)
  <2> DEFINE found == FilterRows(server, query)
             last == Min({offset + server.pageSize, Len(found)})
             page == SubSeq(found, offset + 1, last)
             rows == [k \in DOMAIN page |-> Cells(page[k], fields)]
  <2>1. found \in Seq(ToSet(server.rows))
    <3>1. server.rows \in Seq(ToSet(server.rows)) BY SequenceOf DEF IsServer
    <3>2. QED BY <3>1, ChosenElements DEF FilterRows
  <2> HIDE DEF found
  <2>2. last \in Int /\ last <= Len(found)
    <3>1. offset + server.pageSize \in Int /\ Len(found) \in Int
      BY <2>1 DEF IsServer
    <3>2. QED BY <3>1, MinOfTwo
  <2> HIDE DEF last
  <2>3. page \in Seq(ToSet(server.rows)) BY <2>1, <2>2, PartOf
  <2> HIDE DEF page
  <2>4. rows \in Seq(X)
    <3>1. \A k \in DOMAIN page : Cells(page[k], fields) \in X
      BY <2>3 DEF SentBy
    <3> HIDE DEF X
    <3>2. QED BY <2>3, <3>1
  <2>5. answer.status = "ok" /\ answer.rows = rows
    <3>1. answer = [status |-> "ok", field |-> Empty, rows |-> rows,
                    hasMore |-> offset + server.pageSize < Len(found)]
      BY <1>2 DEF PageFrom, rows, page, last, found
    <3> HIDE DEF rows
    <3>2. QED BY <3>1, Zenon
  <2>6. QED BY <2>4, <2>5
<1>3. \/ \E status \in {"rateLimited", "column", "tooLarge"} : \E field :
           answer = Refusal(status, field)
      \/ answer = PageFrom(server, fields, query, offset)
  BY DEF HandleTable
<1>4. QED BY <1>1, <1>2, <1>3

----------------------------------------------------------------------------
(* The invariant.                                                          *)

ClearedIn(i, k) ==
  {r \in RowsIn(i, k) : \A j \in DOMAIN FiltersIn(i, k) :
     FiltersIn(i, k)[j].origin = "security" => Clears(i, FiltersIn(i, k)[j], r)}

Fits(i, k, keys) ==
  LinkIn(i, k).maxInList > 0 => Cardinality(keys) <= LinkIn(i, k).maxInList

(* An IN-list for side k. *)
IsProbe(i, k, chunk) ==
  IF k = 1
  THEN DOMAIN chunk = {}
  ELSE DOMAIN chunk = {LinkIn(i, k).toCol} /\ Fits(i, k, chunk[LinkIn(i, k).toCol])

IsCall(i, call) ==
  call.side > 1 => Fits(i, call.side, call.pushed[LinkIn(i, call.side).toCol])

IsAnswer(i, row) ==
  /\ AcceptedIn(i)
  /\ DOMAIN row.ids = 1 .. Len(i.q.from) /\ Len(row.ids) = Len(i.q.from)
  /\ Len(row.vals) = Len(i.q.select)
  /\ \A k \in 1 .. Len(i.q.from) : \E r \in ClearedIn(i, k) : row.ids[k] = r.id
  /\ \A k \in DOMAIN i.q.select : row.vals[k].fn = MaskIn(i, k)

(* Nothing was fetched: the query is new, or it was turned away. *)
Idle ==
  /\ stage \in {"admit", "done"}
  /\ side = 1 /\ chunks = <<>> /\ got = <<>> /\ calls = <<>>
  /\ plan = NoPlan \/ plan = PlanIn(in)

Busy ==
  /\ stage # "admit" /\ AcceptedIn(in) /\ plan = PlanIn(in)
  /\ IsSequence(fetched) /\ Len(fetched) = side
  /\ \A k \in 1 .. side : fetched[k] \in Seq(ClearedIn(in, k))
  /\ got \in Seq(RowsIn(in, side)) /\ (got # <<>> => chunks # <<>>)
  /\ IsSequence(chunks)
  /\ \A c \in DOMAIN chunks : IsProbe(in, side, chunks[c])
  /\ IsSequence(calls)
  /\ \A c \in DOMAIN calls : IsCall(in, calls[c])
  /\ stage = "merge" => side = Len(in.q.from)

Answered ==
  /\ stage # "done" => out = [err |-> NoError, rows |-> <<>>]
  /\ out.err \in Error \cup {NoError}
  /\ \A row \in ToSet(out.rows) : IsAnswer(in, row)

QInv ==
  /\ in \in Input
  /\ stage \in {"admit", "fetch", "merge", "done"}
  /\ side \in 1 .. Len(in.q.from)
  /\ fetched = <<>> => Idle
  /\ fetched # <<>> => Busy
  /\ Answered

LEMMA InitHolds == Init => QInv
<1> SUFFICES ASSUME Init PROVE QInv OBVIOUS
<1>1. in \in Input /\ stage = "admit" /\ side = 1 /\ fetched = <<>>
  BY DEF Init
<1>2. side \in 1 .. Len(in.q.from) BY <1>1, InputFacts
<1>3. Idle BY DEF Init, Idle
<1>4. Answered
  <2>1. out = [err |-> NoError, rows |-> <<>>] BY DEF Init
  <2>2. out.err = NoError /\ out.rows = <<>> BY <2>1
  <2>3. ToSet(out.rows) = {} BY <2>2 DEF ToSet
  <2>4. QED BY <2>1, <2>2, <2>3 DEF Answered
<1>5. QED BY <1>1, <1>2, <1>3, <1>4 DEF QInv

(* An error gives no rows. *)
LEMMA ErrorAnswers ==
  ASSUME NEW e \in Error, stage' = "done", out' = [err |-> e, rows |-> <<>>]
  PROVE  Answered'
<1>1. out'.err = e /\ out'.rows = <<>> BY Zenon
<1>2. ToSet(out'.rows) = {} BY <1>1 DEF ToSet
<1>3. QED BY <1>1, <1>2 DEF Answered

LEMMA FailHolds ==
  ASSUME QInv, NEW e \in Error, Fail(e)
  PROVE  QInv'
<1>1. Answered' BY ErrorAnswers DEF Fail
<1>2. UNCHANGED <<in, plan, side, chunks, got, fetched, calls>> /\ stage' = "done"
  BY DEF Fail
<1>3. Idle => Idle' BY <1>2 DEF Idle
<1>4. Busy => Busy' BY <1>2 DEF Busy
<1>5. QED BY <1>1, <1>2, <1>3, <1>4 DEF QInv

LEMMA IsSeq ==
  ASSUME NEW X, NEW s \in Seq(X)
  PROVE  IsSequence(s)
<1>1. Len(s) \in Nat /\ s = [k \in 1 .. Len(s) |-> s[k]] OBVIOUS
<1> DEFINE Z == {s[j] : j \in DOMAIN s}
<1>2. \A k \in 1 .. Len(s) : s[k] \in Z OBVIOUS
<1> HIDE DEF Z
<1>3. s \in Seq(Z) BY <1>1, <1>2
<1>4. QED BY <1>3 DEF IsSequence, Z

LEMMA Sequences ==
  ASSUME NEW s, IsSequence(s)
  PROVE  /\ Len(s) \in Nat /\ DOMAIN s = 1 .. Len(s)
         /\ \A x : IsSequence(Append(s, x))
         /\ s # <<>> => /\ IsSequence(Tail(s)) /\ Len(s) > 0
                        /\ Head(s) = s[1]
                        /\ \A k \in DOMAIN Tail(s) : k + 1 \in DOMAIN s
                                                     /\ Tail(s)[k] = s[k + 1]
<1> DEFINE X == ToSet(s)
<1>1. s \in Seq(X) BY SequenceOf
<1> HIDE DEF X
<1>3. \A x : IsSequence(Append(s, x))
  <2> SUFFICES ASSUME NEW x PROVE IsSequence(Append(s, x)) OBVIOUS
  <2>1. s \in Seq(X \cup {x}) BY <1>1
  <2>2. Append(s, x) \in Seq(X \cup {x}) BY <2>1
  <2>3. QED BY <2>2, IsSeq
<1>4. s # <<>> => Tail(s) \in Seq(X) BY <1>1
<1>5. s # <<>> => /\ Len(s) > 0 /\ Head(s) = s[1]
                  /\ \A k \in DOMAIN Tail(s) : k + 1 \in DOMAIN s
                                               /\ Tail(s)[k] = s[k + 1]
  BY <1>1
<1>6. Len(s) \in Nat /\ DOMAIN s = 1 .. Len(s) BY <1>1
<1>7. s # <<>> => IsSequence(Tail(s)) BY <1>4, IsSeq
<1>8. QED BY ONLY <1>3, <1>5, <1>6, <1>7

LEMMA NoneIsSeq == IsSequence(<<>>) /\ DOMAIN <<>> = {}
<1>1. <<>> \in Seq({}) /\ DOMAIN <<>> = {} OBVIOUS
<1>2. QED BY <1>1, IsSeq

LEMMA IsSeqFunction ==
  ASSUME NEW n \in Nat, NEW s, DOMAIN s = 1 .. n, s = [k \in 1 .. n |-> s[k]]
  PROVE  IsSequence(s) /\ Len(s) = n
<1> DEFINE Z == {s[j] : j \in DOMAIN s}
<1>1. \A k \in 1 .. n : s[k] \in Z OBVIOUS
<1> HIDE DEF Z
<1>2. s \in Seq(Z) /\ Len(s) = n BY <1>1
<1>3. QED BY <1>2 DEF IsSequence, Z

----------------------------------------------------------------------------
(* What the plan of an accepted query says.                                *)

LEMMA AcceptedDoc ==
  ASSUME NEW i \in Input, AcceptedIn(i)
  PROVE  IsPolicy(DocIn(i))
<1>1. 1 \in SidesOf(i.q) BY InputFacts
<1>2. ~ObjectDenied(Policy, PrincipalIn(i).roles[1], TableAt(i.q, 1))
  BY <1>1 DEF AcceptedIn, ParseTables
<1>3. PrincipalIn(i).roles[1] \in DOMAIN Policy BY <1>2 DEF ObjectDenied
<1>4. QED BY <1>3, QueryAssumption DEF DocIn

LEMMA UserFiltersAreSequence ==
  ASSUME NEW i \in Input, NEW k
  PROVE  IsSequence(UserFilters(i.q, i.cat, k))
         /\ \A j \in DOMAIN UserFilters(i.q, i.cat, k) :
              UserFilters(i.q, i.cat, k)[j].origin = "user"
<1> DEFINE cs == Conjuncts(i.q)
           mine == IF IsJoin(i.q) THEN OfAlias(cs, i.q.from[k].alias) ELSE cs
           made(j) == [col |-> mine[j].col, op |-> mine[j].op, val |-> mine[j].val,
                       origin |-> "user",
                       site |-> SiteOf(i.cat, TableAt(i.q, k), mine[j].col, mine[j].op)]
<1>1. IsSequence(i.q.where) BY InputFacts DEF IsInput
<1>2. DOMAIN cs = 1 .. Len(i.q.where) /\ Len(i.q.where) \in Nat
      /\ cs = [j \in 1 .. Len(i.q.where) |-> cs[j]]
  BY <1>1, Sequences DEF Conjuncts
<1>3. IsSequence(cs)
  <2> HIDE DEF cs
  <2>1. QED BY <1>2, IsSeqFunction
<1>4. IsSequence(mine)
  <2> HIDE DEF cs
  <2>1. OfAlias(cs, i.q.from[k].alias) \in Seq(ToSet(cs))
    BY <1>3, SequenceOf, ChosenElements DEF OfAlias
  <2>2. QED BY <1>3, <2>1, IsSeq
<1>5. UserFilters(i.q, i.cat, k) = [j \in DOMAIN mine |-> made(j)]
  BY DEF UserFilters
<1> HIDE DEF mine
<1>6. DOMAIN mine = 1 .. Len(mine) /\ Len(mine) \in Nat BY <1>4, Sequences
<1>7. \A j : made(j).origin = "user" BY Zenon
<1> HIDE DEF made
<1>8. QED BY <1>5, <1>6, <1>7, IsSeqFunction

(* What a predicate becomes on a side. *)
Secured(i, k, r) ==
  [col |-> r.col, op |-> r.op, val |-> r.val, origin |-> "security",
   site |-> SiteOf(i.cat, TableAt(i.q, k), r.col, r.op)]

LEMMA SecuredFields ==
  ASSUME NEW i, NEW k, NEW r
  PROVE  /\ Secured(i, k, r).col = r.col /\ Secured(i, k, r).val = r.val
         /\ Secured(i, k, r).origin = "security"
         /\ Secured(i, k, r).site \in {"pushed", "local"}
<1>1. SiteOf(i.cat, TableAt(i.q, k), r.col, r.op) \in {"pushed", "local"}
  BY DEF SiteOf
<1>2. /\ Secured(i, k, r).col = r.col /\ Secured(i, k, r).val = r.val
      /\ Secured(i, k, r).origin = "security"
      /\ Secured(i, k, r).site = SiteOf(i.cat, TableAt(i.q, k), r.col, r.op)
  BY DEF Secured
<1>3. QED BY <1>1, <1>2

(* A filter of side k makes the comparison of r. *)
IsFilteredBy(i, k, r) ==
  \E j \in DOMAIN FiltersIn(i, k) :
    /\ FiltersIn(i, k)[j].origin = "security"
    /\ FiltersIn(i, k)[j].col = r.col /\ FiltersIn(i, k)[j].val = r.val

(* Every residual of a table is a filter of its side, at one of the two    *)
(* sites, and its column is fetched.                                       *)
LEMMA FilterFacts ==
  ASSUME NEW i \in Input, AcceptedIn(i), NEW k
  PROVE  /\ IsSequence(FiltersIn(i, k))
         /\ \A j \in DOMAIN FiltersIn(i, k) :
              /\ FiltersIn(i, k)[j].col \in ScanProject(i.q, i.cat, DocIn(i), k)
              /\ FiltersIn(i, k)[j].origin = "security" =>
                   FiltersIn(i, k)[j].site \in {"pushed", "local"}
         /\ \A r \in ToSet(Residuals(DocIn(i), TableAt(i.q, k))) :
              IsFilteredBy(i, k, r)
<1> DEFINE us == UserFilters(i.q, i.cat, k)
           rs == Residuals(DocIn(i), TableAt(i.q, k))
           ss == SecurityFilters(i.q, i.cat, DocIn(i), k)
           fs == FiltersIn(i, k)
<1>1. IsSequence(us) /\ \A j \in DOMAIN us : us[j].origin = "user"
  BY UserFiltersAreSequence
<1>2. IsSequence(rs)
  <2>1. IsSequence(DocIn(i).rls) BY AcceptedDoc DEF IsPolicy
  <2>2. rs \in Seq(ToSet(DocIn(i).rls))
    BY <2>1, SequenceOf, ChosenElements DEF Residuals
  <2>3. QED BY <2>2, IsSeq
<1>3. ss = [j \in DOMAIN rs |-> Secured(i, k, rs[j])]
  BY DEF SecurityFilters, Secured
<1> HIDE DEF us, rs
<1>4. DOMAIN rs = 1 .. Len(rs) /\ Len(rs) \in Nat BY <1>2, Sequences
<1>5. IsSequence(ss) /\ Len(ss) = Len(rs)
  <2> HIDE DEF ss
  <2>1. QED BY <1>3, <1>4, IsSeqFunction
<1>6. fs = Reverse(us \o ss) BY DEF FiltersIn, FiltersOf, us
<1> HIDE DEF ss, fs
<1> DEFINE X == ToSet(us) \cup ToSet(ss)
<1>7. us \in Seq(X) /\ ss \in Seq(X)
  <2>1. us \in Seq(ToSet(us)) /\ ss \in Seq(ToSet(ss)) BY <1>1, <1>5, SequenceOf
  <2>2. QED BY <2>1
<1> HIDE DEF X
<1> DEFINE all == us \o ss
<1>8. /\ all \in Seq(X) /\ Len(all) = Len(us) + Len(ss)
      /\ \A j \in 1 .. Len(all) :
           all[j] = IF j <= Len(us) THEN us[j] ELSE ss[j - Len(us)]
  BY <1>7
<1>9. Len(us) \in Nat /\ Len(ss) \in Nat /\ Len(all) \in Nat
      /\ DOMAIN us = 1 .. Len(us)
  BY <1>7, <1>8
<1> HIDE DEF all
<1>10. fs = [j \in 1 .. Len(all) |-> all[(Len(all) - j) + 1]]
  BY <1>6 DEF Reverse, all
<1>11. IsSequence(fs) /\ DOMAIN fs = 1 .. Len(all) BY <1>9, <1>10, IsSeqFunction
<1>12. ASSUME NEW j \in DOMAIN fs
       PROVE  /\ fs[j].col \in ScanProject(i.q, i.cat, DocIn(i), k)
              /\ fs[j].origin = "security" => fs[j].site \in {"pushed", "local"}
  <2>1. fs[j].col \in ScanProject(i.q, i.cat, DocIn(i), k)
    BY DEF fs, FiltersIn, ScanProject
  <2>2. PICK m \in 1 .. Len(all) : fs[j] = all[m]
    <3>1. (Len(all) - j) + 1 \in 1 .. Len(all) BY <1>9, <1>11
    <3>2. QED BY <1>10, <1>11, <3>1
  <2>3. CASE m <= Len(us)
    <3>1. fs[j] = us[m] /\ m \in DOMAIN us BY <1>8, <1>9, <2>2, <2>3
    <3>2. fs[j].origin = "user" BY <1>1, <3>1
    <3>3. QED BY <2>1, <3>2
  <2>4. CASE ~(m <= Len(us))
    <3>1. fs[j] = ss[m - Len(us)] /\ m - Len(us) \in 1 .. Len(rs)
      BY <1>5, <1>8, <1>9, <2>2, <2>4
    <3>2. fs[j] = Secured(i, k, rs[m - Len(us)]) BY <1>3, <1>4, <3>1
    <3>3. QED BY <2>1, <3>2, SecuredFields
  <2>5. QED BY <2>3, <2>4
<1>13. ASSUME NEW r \in ToSet(rs)
       PROVE  \E j \in DOMAIN fs : /\ fs[j].origin = "security"
                                   /\ fs[j].col = r.col /\ fs[j].val = r.val
  <2>1. PICK m \in 1 .. Len(rs) : r = rs[m] BY <1>4 DEF ToSet
  <2>2. ss[m] = Secured(i, k, r) BY <1>3, <1>4, <2>1
  <2>3. /\ Len(us) + m \in 1 .. Len(all) /\ ~(Len(us) + m <= Len(us))
        /\ (Len(us) + m) - Len(us) = m
    BY <1>4, <1>5, <1>8, <1>9
  <2>4. all[Len(us) + m] = ss[m] BY <1>8, <2>3
  <2> DEFINE j == (Len(all) - (Len(us) + m)) + 1
  <2>5. j \in 1 .. Len(all) /\ (Len(all) - j) + 1 = Len(us) + m
    BY <1>9, <2>3
  <2> HIDE DEF j
  <2>6. fs[j] = Secured(i, k, r) BY <1>10, <2>2, <2>4, <2>5
  <2>7. QED BY <1>11, <2>5, <2>6, SecuredFields
<1>14. \A r \in ToSet(rs) : IsFilteredBy(i, k, r) BY <1>13 DEF fs, IsFilteredBy
<1>15. QED BY <1>11, <1>12, <1>14 DEF fs, rs

----------------------------------------------------------------------------
(* The side being fetched.                                                 *)

LEMMA Here ==
  ASSUME QInv, fetched # <<>>
  PROVE  /\ Filters = FiltersIn(in, side) /\ Table = TableAt(in.q, side)
         /\ Columns = ScanProject(in.q, in.cat, DocIn(in), side)
         /\ IsServer(in.server[Table])
         /\ RowsIn(in, side) = SentBy(in.server[Table], Columns)
         /\ \A f : Want(f) = WantIn(in, f) /\ (Unresolved(f) <=> ~HasValue(in, f))
         /\ Len(plan.sides) = Len(in.q.from)
<1>1. Busy /\ in \in Input /\ side \in 1 .. Len(in.q.from) BY DEF QInv
<1>2. plan = PlanIn(in) /\ AcceptedIn(in) BY <1>1 DEF Busy
<1>3. plan.sides[side] = ScanIn(in, side) /\ Len(plan.sides) = Len(in.q.from)
  BY <1>1, <1>2, PlanFacts
<1>4. /\ Filters = FiltersIn(in, side) /\ Table = TableAt(in.q, side)
      /\ Columns = ScanProject(in.q, in.cat, DocIn(in), side)
  BY <1>3, Fields DEF Filters, Table, Columns, FiltersIn
<1>5. IsServer(in.server[Table])
  <2>1. SidesOf(in.q) = 1 .. Len(in.q.from) BY <1>1, InputFacts
  <2>2. Table \in ParseTables(in.q) BY <1>1, <1>4, <2>1 DEF ParseTables
  <2>3. Table \in DOMAIN in.server
    BY <1>1, <1>2, <2>2, InputFacts DEF AcceptedIn, IsInput
  <2>4. QED BY <1>1, <2>3, InputFacts DEF IsInput
<1>6. RowsIn(in, side) = SentBy(in.server[Table], Columns)
  BY <1>4 DEF RowsIn, TableOfIn
<1>7. \A f : Want(f) = WantIn(in, f)
  BY DEF Want, WantIn, Caller, PrincipalIn
<1>8. \A f : Unresolved(f) <=> ~HasValue(in, f)
  BY DEF Unresolved, HasValue, Caller, PrincipalIn
<1>9. QED BY <1>3, <1>4, <1>5, <1>6, <1>7, <1>8

(* Rows that are verified, filtered and kept are cleared: a security       *)
(* predicate without a value would have stopped the fetch, whether it is   *)
(* pushed (the request is not made) or local (the least of those that have *)
(* none is met by a kept row).                                             *)
LEMMA KeptAreCleared ==
  ASSUME QInv, fetched # <<>>, ~Unsendable, NEW rows \in Seq(RowsIn(in, side)),
         Verified(rows, Filters), ~Stuck(rows, Filters)
  PROVE  Kept(rows, Filters) \in Seq(ClearedIn(in, side))
<1> DEFINE fs == Filters
           kept == Kept(rows, Filters)
           X == RowsIn(in, side)
           places == {k \in DOMAIN rows :
                        \A j \in At(fs, "local") : Passes(rows[k], fs[j])}
<1>1. AcceptedIn(in) /\ in \in Input BY DEF QInv, Busy
<1>2. fs = FiltersIn(in, side) BY Here
<1>3. IsSequence(fs) /\ DOMAIN fs = 1 .. Len(fs) /\ Len(fs) \in Nat
  BY <1>1, <1>2, FilterFacts, Sequences
<1>4. \A j \in DOMAIN fs : fs[j].origin = "security" =>
                             fs[j].site \in {"pushed", "local"}
  BY <1>1, <1>2, FilterFacts
<1>5. kept = Chosen(rows, places) /\ places \in SUBSET DOMAIN rows
  BY DEF Kept
<1> HIDE DEF places, kept, X, fs
<1>6. kept \in Seq(X) /\ \A n \in DOMAIN kept : \E k \in places : kept[n] = rows[k]
  <2>1. rows \in Seq(X) BY DEF X
  <2>2. QED BY <1>5, <2>1, ChosenElements
<1>7. ASSUME NEW k \in places, NEW j \in DOMAIN fs, fs[j].origin = "security"
      PROVE  Clears(in, fs[j], rows[k])
  <2>1. CASE fs[j].site = "pushed"
    <3>1. j \in At(fs, "pushed") BY <2>1 DEF At
    <3>2. ~Unresolved(fs[j]) BY <3>1 DEF Unsendable, fs
    <3>3. Passes(rows[k], fs[j]) BY <1>5, <1>7, <3>1 DEF Verified, fs
    <3>4. QED BY <3>2, <3>3, Here DEF Clears, Passes
  <2>2. CASE fs[j].site = "local"
    <3>1. j \in At(fs, "local") BY <2>2 DEF At
    <3>2. \A m \in At(fs, "local") : Passes(rows[k], fs[m]) BY DEF places
    <3>3. ~Unresolved(fs[j])
      <4> SUFFICES ASSUME Unresolved(fs[j]) PROVE FALSE OBVIOUS
      <4> DEFINE bad == {m \in At(fs, "local") : Unresolved(fs[m])}
      <4>1. j \in bad /\ bad \in SUBSET Nat
        <5>1. \A m \in At(fs, "local") : m \in Nat BY <1>3 DEF At
        <5>2. QED BY <3>1, <5>1
      <4>2. PICK m \in Nat : IsFirst(bad, m)
        <5> HIDE DEF bad
        <5>1. QED BY <4>1, HasFirst
      <4>3. m \in At(fs, "local") /\ Unresolved(fs[m])
            /\ \A l \in At(fs, "local") : l < m => ~Unresolved(fs[l])
        BY <4>2 DEF IsFirst
      <4>4. rows[k] \in ToSet(rows) BY <1>5 DEF ToSet
      <4>5. Stuck(rows, fs) BY <3>2, <4>3, <4>4 DEF Stuck
      <4>6. QED BY <4>5 DEF fs
    <3>4. QED BY <3>1, <3>2, <3>3, Here DEF Clears, Passes
  <2>3. QED BY <1>4, <1>7, <2>1, <2>2
<1>8. \A k \in places : rows[k] \in ClearedIn(in, side)
  <2> SUFFICES ASSUME NEW k \in places PROVE rows[k] \in ClearedIn(in, side)
    OBVIOUS
  <2>1. rows[k] \in RowsIn(in, side) BY <1>5
  <2>2. QED BY <1>2, <1>7, <2>1 DEF ClearedIn
<1>9. \A n \in DOMAIN kept : kept[n] \in ClearedIn(in, side) BY <1>6, <1>8
<1>10. kept \in Seq(ClearedIn(in, side))
  <2>1. DOMAIN kept = 1 .. Len(kept) /\ Len(kept) \in Nat
        /\ kept = [n \in 1 .. Len(kept) |-> kept[n]]
    BY <1>6
  <2>2. QED BY <1>9, <2>1
<1>11. QED BY <1>10 DEF kept

(* An IN-list leaves whole, whatever else is pushed on its column.         *)
LEMMA CallFits ==
  ASSUME QInv, Leaves
  PROVE  /\ fetched # <<>> /\ stage = "fetch" /\ chunks # <<>> /\ ~Unsendable
         /\ IsSequence(calls') /\ \A c \in DOMAIN calls' : IsCall(in, calls'[c])
<1>1. /\ stage = "fetch" /\ chunks # <<>> /\ ~Unsendable
      /\ calls' = Append(calls, Call)
  BY DEF Leaves, Pending
<1>2. fetched # <<>> BY <1>1 DEF QInv, Idle
<1>3. Busy /\ side \in 1 .. Len(in.q.from) BY <1>2 DEF QInv
<1>4. IsProbe(in, side, Head(chunks))
  <2>1. IsSequence(chunks) BY <1>3 DEF Busy
  <2>2. Head(chunks) = chunks[1] /\ 1 \in DOMAIN chunks BY <1>1, <2>1, Sequences
  <2>3. QED BY <1>3, <2>2 DEF Busy
<1> DEFINE pushed == PushedFilters(Filters, Head(chunks))
<1>5. Call.side = side /\ Call.pushed = pushed
  <2> HIDE DEF pushed
  <2>1. Call = [side |-> side, table |-> Table, project |-> Columns,
                pushed |-> pushed, offset |-> Offset]
    BY DEF Call, pushed
  <2>2. QED BY <2>1
<1>6. ASSUME NEW c \in DOMAIN Head(chunks) PROVE pushed[c] = Head(chunks)[c]
  BY DEF PushedFilters
<1>7. IsCall(in, Call)
  <2> HIDE DEF pushed
  <2> SUFFICES ASSUME side > 1
               PROVE  Fits(in, side, pushed[LinkIn(in, side).toCol])
    BY <1>5 DEF IsCall
  <2>1. side # 1 BY <1>3
  <2>2. /\ DOMAIN Head(chunks) = {LinkIn(in, side).toCol}
        /\ Fits(in, side, Head(chunks)[LinkIn(in, side).toCol])
    BY <1>4, <2>1 DEF IsProbe
  <2>3. QED BY <1>6, <2>2
<1>8. IsSequence(calls) /\ \A c \in DOMAIN calls : IsCall(in, calls[c])
  BY <1>3 DEF Busy
<1>9. /\ IsSequence(calls') /\ DOMAIN calls' = 1 .. Len(calls) + 1
      /\ \A c \in 1 .. Len(calls) : calls'[c] = calls[c]
      /\ calls'[Len(calls) + 1] = Call
  <2>1. calls \in Seq(ToSet(calls)) BY <1>8, SequenceOf
  <2>2. calls \in Seq(ToSet(calls) \cup {Call}) BY <2>1
  <2>3. calls' \in Seq(ToSet(calls) \cup {Call}) BY <1>1, <2>2
  <2>4. IsSequence(calls') BY <2>3, IsSeq
  <2> HIDE DEF Call
  <2>5. QED BY <1>1, <2>1, <2>4
<1>10. \A c \in DOMAIN calls' : IsCall(in, calls'[c])
  <2> SUFFICES ASSUME NEW c \in DOMAIN calls' PROVE IsCall(in, calls'[c]) OBVIOUS
  <2>1. DOMAIN calls = 1 .. Len(calls) /\ Len(calls) \in Nat BY <1>8, Sequences
  <2>2. CASE c \in 1 .. Len(calls) BY <1>8, <1>9, <2>1, <2>2
  <2>3. CASE c = Len(calls) + 1 BY <1>7, <1>9, <2>3
  <2>4. QED BY <1>9, <2>1, <2>2, <2>3
<1>11. QED BY <1>1, <1>2, <1>9, <1>10

LEMMA RefusedHolds ==
  ASSUME QInv, NEW e \in Error, Refused(e)
  PROVE  QInv'
<1>1. Leaves /\ stage' = "done" /\ UNCHANGED <<in, plan, side, chunks, got, fetched>>
      /\ out' = [err |-> e, rows |-> <<>>]
  BY DEF Refused
<1>2. /\ fetched # <<>>
      /\ IsSequence(calls') /\ \A c \in DOMAIN calls' : IsCall(in, calls'[c])
  BY <1>1, CallFits
<1>3. Busy BY <1>2 DEF QInv
<1>4. Busy' BY <1>1, <1>2, <1>3 DEF Busy
<1>5. Answered' BY <1>1, ErrorAnswers
<1>6. QED BY <1>1, <1>2, <1>4, <1>5 DEF QInv

LEMMA SourceFailsHolds == QInv /\ SourceFails => QInv'
<1>1. SourceErrors \subseteq Error BY DEF Error
<1>2. QED BY <1>1, RefusedHolds DEF SourceFails

LEMMA ResponsesTyped ==
  ASSUME QInv, fetched # <<>>, NEW answer \in Responses
  PROVE  /\ answer.status \in {"ok", "rateLimited", "column", "tooLarge"}
         /\ answer.rows \in Seq(RowsIn(in, side))
<1>1. /\ IsServer(in.server[Table])
      /\ RowsIn(in, side) = SentBy(in.server[Table], Columns)
  BY Here
<1>2. Offset \in Nat
  <2>1. got \in Seq(RowsIn(in, side)) BY DEF QInv, Busy
  <2>2. QED BY <2>1 DEF Offset
<1> DEFINE nth == Len(SelectSeq(calls, LAMBDA c : c.table = Table)) + 1
<1>3. answer \in HandleTable(in.server[Table], nth, Columns, Call.pushed, Offset)
  BY DEF Responses
<1> HIDE DEF nth
<1>4. QED BY <1>1, <1>2, <1>3, ServerAnswers

LEMMA SourceRefusesHolds == QInv /\ SourceRefuses => QInv'
<1> SUFFICES ASSUME QInv, SourceRefuses PROVE QInv' OBVIOUS
<1>1. PICK answer \in Responses :
        /\ answer.status # "ok"
        /\ Refused(IF /\ answer.status = "column"
                      /\ SecurityNeeds(Filters, answer.field)
                   THEN "denied" ELSE answer.status)
  BY DEF SourceRefuses
<1>2. fetched # <<>> BY DEF QInv, Idle, SourceRefuses, Pending
<1>3. answer.status \in {"rateLimited", "column", "tooLarge"}
  BY <1>1, <1>2, ResponsesTyped
<1>4. "denied" \in Error /\ answer.status \in Error BY <1>3 DEF Error
<1>5. CASE answer.status = "column" /\ SecurityNeeds(Filters, answer.field)
  BY <1>1, <1>4, <1>5, RefusedHolds
<1>6. CASE ~(answer.status = "column" /\ SecurityNeeds(Filters, answer.field))
  BY <1>1, <1>4, <1>6, RefusedHolds
<1>7. QED BY <1>5, <1>6

LEMMA MorePagesHolds == QInv /\ MorePages => QInv'
<1> SUFFICES ASSUME QInv, MorePages PROVE QInv' OBVIOUS
<1>1. PICK answer \in Responses : got' = got \o answer.rows BY DEF MorePages
<1>2. Leaves /\ UNCHANGED <<in, stage, plan, side, chunks, fetched, out>>
  BY DEF MorePages
<1>3. /\ fetched # <<>> /\ chunks # <<>>
      /\ IsSequence(calls') /\ \A c \in DOMAIN calls' : IsCall(in, calls'[c])
  BY <1>2, CallFits
<1>4. Busy BY <1>3 DEF QInv
<1>5. got' \in Seq(RowsIn(in, side))
  <2>1. answer.rows \in Seq(RowsIn(in, side)) BY <1>3, ResponsesTyped
  <2>2. got \in Seq(RowsIn(in, side)) BY <1>4 DEF Busy
  <2>3. QED BY <1>1, <2>1, <2>2
<1>6. Busy' BY <1>2, <1>3, <1>4, <1>5 DEF Busy
<1>7. Answered' BY <1>2 DEF QInv, Answered
<1>8. QED BY <1>2, <1>3, <1>6, <1>7 DEF QInv

(* distinctValues gives each key once, in some order.                      *)
LEMMA Listed ==
  ASSUME NEW S, IsFiniteSet(S)
  PROVE  IsSequence(SetToSeq(S)) /\ Len(SetToSeq(S)) = Cardinality(S)
<1>1. Cardinality(S) \in Nat /\ ExistsBijection(1 .. Cardinality(S), S)
  BY FS_CardinalityType
<1>2. PICK g : g \in Bijection(1 .. Cardinality(S), S)
  BY <1>1 DEF ExistsBijection
<1>3. g \in [1 .. Cardinality(S) -> S] /\ IsInjective(g)
  BY <1>2 DEF Bijection, Injection, IsInjective
<1>4. SetToSeq(S) \in [1 .. Cardinality(S) -> S] BY <1>3 DEF SetToSeq
<1> DEFINE s == SetToSeq(S)
<1> HIDE DEF s
<1>5. DOMAIN s = 1 .. Cardinality(S) /\ s = [k \in 1 .. Cardinality(S) |-> s[k]]
  BY <1>4 DEF s
<1>6. QED BY <1>1, <1>5, IsSeqFunction DEF s

LEMMA FewKeys ==
  ASSUME NEW rows, IsSequence(rows), NEW col
  PROVE  /\ IsFiniteSet(KeysOf(rows, col))
         /\ DistinctValues(rows, col) = SetToSeq(KeysOf(rows, col))
<1> DEFINE value == [k \in 1 .. Len(rows) |-> Val(rows[k], col)]
           all == {Val(rows[k], col) : k \in DOMAIN rows}
<1>1. Len(rows) \in Nat /\ DOMAIN rows = 1 .. Len(rows) BY Sequences
<1>2. value \in Surjection(1 .. Len(rows), all)
  <2>1. \A k \in 1 .. Len(rows) : value[k] \in all BY <1>1
  <2>2. \A v \in all : \E k \in 1 .. Len(rows) : value[k] = v BY <1>1
  <2>3. value \in [1 .. Len(rows) -> all] BY <2>1
  <2> HIDE DEF value, all
  <2>4. QED BY <2>2, <2>3 DEF Surjection
<1>3. IsFiniteSet(all)
  <2> HIDE DEF value, all
  <2>1. QED BY <1>1, <1>2, FS_Interval, FS_Surjection
<1>4. KeysOf(rows, col) = all \ {Empty}
      /\ DistinctValues(rows, col) = SetToSeq(all \ {Empty})
  BY DEF DistinctValues, KeysOf
<1> HIDE DEF value, all
<1>5. IsFiniteSet(all \ {Empty}) BY <1>3, FS_Subset
<1>6. QED BY <1>4, <1>5

LEMMA KeysListed ==
  ASSUME NEW rows, IsSequence(rows), NEW col
  PROVE  IsSequence(DistinctValues(rows, col))
BY FewKeys, Listed

LEMMA ElementsOfSequence ==
  ASSUME NEW s, IsSequence(s)
  PROVE  IsFiniteSet(ToSet(s)) /\ Cardinality(ToSet(s)) <= Len(s)
<1>1. Len(s) \in Nat /\ DOMAIN s = 1 .. Len(s) BY Sequences
<1>2. s \in Seq(ToSet(s)) BY SequenceOf
<1>3. s \in [1 .. Len(s) -> ToSet(s)] BY <1>1, <1>2
<1>4. \A v \in ToSet(s) : \E k \in 1 .. Len(s) : s[k] = v BY <1>1 DEF ToSet
<1>5. s \in Surjection(1 .. Len(s), ToSet(s)) BY <1>3, <1>4 DEF Surjection
<1>6. IsFiniteSet(1 .. Len(s)) /\ Cardinality(1 .. Len(s)) = Len(s)
  <2> DEFINE n == Len(s)
  <2>1. n \in Nat BY <1>1
  <2> HIDE DEF n
  <2>2. /\ IsFiniteSet(1 .. n)
        /\ Cardinality(1 .. n) = IF 1 > n THEN 0 ELSE n - 1 + 1
    BY <2>1, FS_Interval
  <2>3. IsFiniteSet(1 .. n) /\ Cardinality(1 .. n) = n BY <2>1, <2>2
  <2>4. QED BY <2>3 DEF n
<1>7. QED BY <1>5, <1>6, FS_Surjection

(* chunkStrings makes no chunk of more than size keys.                     *)
LEMMA ChunksAreSmall ==
  ASSUME NEW keys, IsSequence(keys), NEW size \in Nat \ {0}
  PROVE  /\ IsSequence(ChunkStrings(keys, size))
         /\ \A k \in DOMAIN ChunkStrings(keys, size) :
              Cardinality(ToSet(ChunkStrings(keys, size)[k])) <= size
<1> DEFINE n == (Len(keys) + size - 1) \div size
           last(k) == Min({k * size, Len(keys)})
           chunk(k) == SubSeq(keys, (k - 1) * size + 1, last(k))
           cs == ChunkStrings(keys, size)
<1>1. Len(keys) \in Nat /\ keys \in Seq(ToSet(keys)) BY Sequences, SequenceOf
<1>2. n \in Nat
  <2>1. Len(keys) + size - 1 \in Nat BY <1>1
  <2>2. QED BY <2>1
<1>3. cs = [k \in 1 .. n |-> chunk(k)] BY DEF ChunkStrings
<1>4. ASSUME NEW k \in 1 .. n
      PROVE  Cardinality(ToSet(chunk(k))) <= size
  <2> DEFINE before == (k - 1) * size
             c == SubSeq(keys, before + 1, last(k))
  <2>1. k \in Nat /\ k - 1 \in Nat BY <1>2
  <2>2. before \in Nat BY <2>1
  <2>3. k * size = before + size /\ k * size \in Nat BY <2>1
  <2>4. last(k) \in Int /\ last(k) <= k * size /\ last(k) <= Len(keys)
    <3>1. k * size \in Int /\ Len(keys) \in Int BY <1>1, <2>3
    <3>2. QED BY <3>1, MinOfTwo
  <2> HIDE DEF before, last, n
  <2>5. /\ c \in Seq(ToSet(keys)) /\ DOMAIN c = 1 .. last(k) - before
    BY <1>1, <2>2, <2>4, PartOf
  <2>6. last(k) - before <= size BY <2>2, <2>3, <2>4
  <2> HIDE DEF c
  <2>7. Len(c) <= size
    <3>1. Len(c) \in Nat /\ 1 .. Len(c) = 1 .. last(k) - before BY <2>5
    <3>2. CASE Len(c) = 0 BY <3>2
    <3>3. CASE Len(c) # 0
      <4>1. Len(c) \in 1 .. Len(c) BY <3>1, <3>3
      <4>2. Len(c) \in 1 .. last(k) - before BY <3>1, <4>1
      <4>3. QED BY <2>2, <2>4, <2>6, <4>2, <3>1
    <3>4. QED BY <3>2, <3>3
  <2>8. Cardinality(ToSet(c)) <= Len(c) /\ Len(c) \in Nat
        /\ Cardinality(ToSet(c)) \in Int
    <3>1. IsSequence(c) BY <2>5, IsSeq
    <3>2. QED BY <2>5, <3>1, ElementsOfSequence, FS_CardinalityType
  <2>9. Cardinality(ToSet(c)) <= size BY <2>7, <2>8
  <2>10. QED BY <2>9 DEF c, before
<1>5. IsSequence(cs)
  <2> HIDE DEF n, chunk, cs
  <2>1. DOMAIN cs = 1 .. n /\ cs = [k \in 1 .. n |-> cs[k]] BY <1>3
  <2>2. QED BY <1>2, <2>1, IsSeqFunction
<1>6. \A k \in DOMAIN cs : Cardinality(ToSet(cs[k])) <= size
  <2> HIDE DEF n, chunk, cs
  <2>1. DOMAIN cs = 1 .. n /\ \A k \in 1 .. n : cs[k] = chunk(k) BY <1>3
  <2>2. \A k \in 1 .. n : Cardinality(ToSet(chunk(k))) <= size BY <1>4
  <2>3. QED BY <2>1, <2>2
<1>7. QED BY <1>5, <1>6 DEF cs

LEMMA ProbesFit ==
  ASSUME NEW keys, IsSequence(keys), NEW link, link.maxInList \in Int
  PROVE  /\ IsSequence(ChunksFor(keys, link))
         /\ \A k \in DOMAIN ChunksFor(keys, link) :
              link.maxInList > 0 =>
                Cardinality(ToSet(ChunksFor(keys, link)[k])) <= link.maxInList
<1>1. Len(keys) \in Nat /\ (keys # <<>> => Len(keys) > 0) BY Sequences
<1>2. CASE keys = <<>>
  <2>1. ChunksFor(keys, link) = <<>> BY <1>2 DEF ChunksFor
  <2> DEFINE cs == ChunksFor(keys, link)
  <2>2. cs = <<>> BY <2>1
  <2> HIDE DEF cs
  <2>3. IsSequence(cs) /\ DOMAIN cs = {} BY <2>2, NoneIsSeq
  <2>4. QED BY <2>3 DEF cs
<1>3. CASE keys # <<>> /\ link.maxInList <= 0
  <2>1. ChunksFor(keys, link) = ChunkStrings(keys, Len(keys))
    BY <1>3 DEF ChunksFor
  <2>2. Len(keys) \in Nat \ {0} /\ ~(link.maxInList > 0) BY <1>1, <1>3
  <2>3. QED BY <2>1, <2>2, ChunksAreSmall
<1>4. CASE keys # <<>> /\ ~(link.maxInList <= 0)
  <2>1. ChunksFor(keys, link) = ChunkStrings(keys, link.maxInList)
    BY <1>4 DEF ChunksFor
  <2>2. link.maxInList \in Nat \ {0} BY <1>4
  <2>3. QED BY <2>1, <2>2, ChunksAreSmall
<1>5. QED BY <1>2, <1>3, <1>4

LEMMA LinkFacts ==
  ASSUME NEW i \in Input, AcceptedIn(i), NEW k \in 2 .. Len(i.q.from)
  PROVE  /\ LinkIn(i, k).maxInList \in Int
         /\ LinkIn(i, k).from \in 1 .. k - 1 /\ LinkIn(i, k).to = k
<1>1. /\ Len(i.q.from) \in Nat /\ SidesOf(i.q) = 1 .. Len(i.q.from)
  BY InputFacts
<1>2. k \in SidesOf(i.q) \ {1} BY <1>1
<1>3. LinkSupported(i.q, i.cat, k) BY <1>2 DEF AcceptedIn, Buildable
<1>4. TableAt(i.q, k) \in DOMAIN i.cat BY <1>3 DEF LinkSupported
<1>5. i.cat[TableAt(i.q, k)].maxInList \in Int BY <1>4, InputFacts DEF IsInput
<1> DEFINE a == SideOf(i.q, BuildEnd(i.q, k).alias)
<1>6. a \in SidesOf(i.q) /\ a < k
  <2>1. BuildEnd(i.q, k).alias \in Aliases(i.q)
    BY <1>3 DEF LinkSupported, BuildEnd
  <2>2. \E j \in SidesOf(i.q) : i.q.from[j].alias = BuildEnd(i.q, k).alias
    BY <2>1 DEF Aliases
  <2>3. a \in SidesOf(i.q) BY <2>2 DEF SideOf
  <2>4. QED BY <1>3, <2>3 DEF LinkSupported
<1>7. /\ LinkIn(i, k).from = a /\ LinkIn(i, k).to = k
      /\ LinkIn(i, k).maxInList = i.cat[TableAt(i.q, k)].maxInList
  BY DEF LinkIn, LinkTo
<1> HIDE DEF a
<1>8. QED BY <1>1, <1>5, <1>6, <1>7

LEMMA NextSideHolds == QInv /\ NextSide => QInv'
<1> SUFFICES ASSUME QInv, NextSide PROVE QInv' OBVIOUS
<1>1. /\ stage = "fetch" /\ chunks = <<>> /\ side < Len(plan.sides)
      /\ side' = side + 1 /\ fetched' = Append(fetched, <<>>)
      /\ UNCHANGED <<in, stage, plan, got, calls, out>>
  BY DEF NextSide
<1>2. fetched # <<>> BY <1>1 DEF QInv, Idle
<1>3. /\ Busy /\ in \in Input /\ side \in 1 .. Len(in.q.from)
      /\ AcceptedIn(in) /\ plan = PlanIn(in) /\ Len(in.q.from) \in Nat
  BY <1>2, InputFacts DEF QInv, Busy
<1>4. side' \in 2 .. Len(in.q.from) /\ side \in 1 .. Len(in.q.from) - 1
  BY <1>1, <1>2, <1>3, Here
<1> DEFINE link == LinkIn(in, side')
           rows == fetched[link.from]
           keys == DistinctValues(rows, link.fromCol)
           cs == ChunksFor(keys, link)
<1>5. plan.links[side] = link
  BY <1>1, <1>3, <1>4, PlanFacts DEF LinkIn
<1>6. chunks' = [k \in DOMAIN cs |-> [c \in {link.toCol} |-> ToSet(cs[k])]]
  BY <1>5 DEF NextSide
<1>7. link.maxInList \in Int /\ link.from \in 1 .. side
  BY <1>1, <1>3, <1>4, LinkFacts
<1> HIDE DEF link
<1>8. IsSequence(rows)
  <2>1. rows \in Seq(ClearedIn(in, link.from)) BY <1>3, <1>7 DEF Busy
  <2>2. QED BY <2>1, IsSeq
<1> HIDE DEF rows
<1>9. IsSequence(keys) BY <1>8, KeysListed
<1> HIDE DEF keys
<1>10. /\ IsSequence(cs)
       /\ \A k \in DOMAIN cs :
            link.maxInList > 0 => Cardinality(ToSet(cs[k])) <= link.maxInList
  BY <1>7, <1>9, ProbesFit
<1> HIDE DEF cs
<1>11. IsSequence(chunks')
  <2>1. DOMAIN cs = 1 .. Len(cs) /\ Len(cs) \in Nat BY <1>10, Sequences
  <2>2. DOMAIN chunks' = 1 .. Len(cs)
        /\ chunks' = [k \in 1 .. Len(cs) |-> chunks'[k]]
    BY <1>6, <2>1
  <2>3. QED BY <2>1, <2>2, IsSeqFunction
<1>12. \A c \in DOMAIN chunks' : IsProbe(in, side', chunks'[c])
  <2> SUFFICES ASSUME NEW c \in DOMAIN chunks' PROVE IsProbe(in, side', chunks'[c])
    OBVIOUS
  <2>1. chunks'[c] = [x \in {link.toCol} |-> ToSet(cs[c])] /\ c \in DOMAIN cs
    BY <1>6
  <2>2. DOMAIN chunks'[c] = {link.toCol} /\ chunks'[c][link.toCol] = ToSet(cs[c])
    BY <2>1
  <2>3. side' # 1 BY <1>4
  <2>4. Fits(in, side', ToSet(cs[c])) BY <1>10, <2>1 DEF Fits, link
  <2>5. QED BY <2>2, <2>3, <2>4 DEF IsProbe, link
<1>13. /\ IsSequence(fetched') /\ Len(fetched') = side' /\ fetched' # <<>>
       /\ \A k \in 1 .. side' : fetched'[k] \in Seq(ClearedIn(in, k))
  <2>1. IsSequence(fetched) /\ Len(fetched) = side
        /\ \A k \in 1 .. side : fetched[k] \in Seq(ClearedIn(in, k))
    BY <1>3 DEF Busy
  <2>2. IsSequence(fetched') BY <1>1, <2>1, Sequences
  <2>3. /\ Len(fetched') = side + 1 /\ fetched'[side + 1] = <<>>
        /\ \A k \in 1 .. side : fetched'[k] = fetched[k]
    <3>1. fetched \in Seq(ToSet(fetched)) BY <2>1, SequenceOf
    <3>2. QED BY <1>1, <2>1, <3>1
  <2>4. \A k \in 1 .. side + 1 : k \in 1 .. side \/ k = side + 1 BY <1>3
  <2>5. \A k : <<>> \in Seq(ClearedIn(in, k)) OBVIOUS
  <2>6. fetched' # <<>> BY <1>3, <2>3
  <2>7. QED BY <1>1, <2>1, <2>2, <2>3, <2>4, <2>5, <2>6
<1>14. got' = <<>> /\ got' \in Seq(RowsIn(in, side'))
  BY <1>1, <1>3 DEF Busy
<1>15. Busy' BY <1>1, <1>3, <1>11, <1>12, <1>13, <1>14 DEF Busy
<1>16. Answered' BY <1>1 DEF QInv, Answered
<1>17. side' \in 1 .. Len(in.q.from) BY <1>4
<1>18. QED BY <1>1, <1>3, <1>13, <1>15, <1>16, <1>17 DEF QInv

LEMMA FetchedHolds == QInv /\ Fetched => QInv'
<1> SUFFICES ASSUME QInv, Fetched PROVE QInv' OBVIOUS
<1>1. /\ stage = "fetch" /\ side = Len(plan.sides) /\ stage' = "merge"
      /\ UNCHANGED <<in, plan, side, chunks, got, fetched, calls, out>>
  BY DEF Fetched
<1>2. fetched # <<>> BY <1>1 DEF QInv, Idle
<1>3. Busy /\ side = Len(in.q.from) BY <1>1, <1>2, Here DEF QInv
<1>4. Busy' BY <1>1, <1>3 DEF Busy
<1>5. Answered' BY <1>1 DEF QInv, Answered
<1>6. QED BY <1>1, <1>2, <1>4, <1>5 DEF QInv

LEMMA SourceAnswersHolds == QInv /\ SourceAnswers => QInv'
<1> SUFFICES ASSUME QInv, SourceAnswers PROVE QInv' OBVIOUS
<1>1. PICK answer \in Responses :
        LET rows == got \o answer.rows
        IN IF ~Verified(rows, Filters) \/ Stuck(rows, Filters)
           THEN Refused("denied")
           ELSE /\ Leaves
                /\ fetched' = [fetched EXCEPT ![side] = @ \o Kept(rows, Filters)]
                /\ got' = <<>>
                /\ chunks' = Tail(chunks)
                /\ UNCHANGED <<in, stage, plan, side, out>>
  BY DEF SourceAnswers
<1> DEFINE rows == got \o answer.rows
<1>2. CASE ~Verified(rows, Filters) \/ Stuck(rows, Filters)
  <2>1. "denied" \in Error BY DEF Error
  <2>2. QED BY <1>1, <1>2, <2>1, RefusedHolds
<1>3. CASE Verified(rows, Filters) /\ ~Stuck(rows, Filters)
  <2>1. /\ Leaves /\ got' = <<>> /\ chunks' = Tail(chunks)
        /\ fetched' = [fetched EXCEPT ![side] =
                         fetched[side] \o Kept(rows, Filters)]
        /\ UNCHANGED <<in, stage, plan, side, out>>
    BY <1>1, <1>3
  <2>2. /\ fetched # <<>> /\ chunks # <<>> /\ ~Unsendable
        /\ IsSequence(calls') /\ \A c \in DOMAIN calls' : IsCall(in, calls'[c])
    BY <2>1, CallFits
  <2>3. Busy /\ side \in 1 .. Len(in.q.from) BY <2>2 DEF QInv
  <2>4. rows \in Seq(RowsIn(in, side))
    <3>1. answer.rows \in Seq(RowsIn(in, side)) BY <2>2, ResponsesTyped
    <3>2. got \in Seq(RowsIn(in, side)) BY <2>3 DEF Busy
    <3>3. QED BY <3>1, <3>2
  <2> HIDE DEF rows
  <2>5. Kept(rows, Filters) \in Seq(ClearedIn(in, side))
    BY <1>3, <2>2, <2>4, KeptAreCleared
  <2> DEFINE kept == Kept(rows, Filters)
  <2> HIDE DEF kept
  <2>6. /\ IsSequence(fetched') /\ Len(fetched') = side /\ fetched' # <<>>
        /\ \A k \in 1 .. side : fetched'[k] \in Seq(ClearedIn(in, k))
    <3>1. /\ IsSequence(fetched) /\ Len(fetched) = side
          /\ \A k \in 1 .. side : fetched[k] \in Seq(ClearedIn(in, k))
      BY <2>3 DEF Busy
    <3>2. DOMAIN fetched = 1 .. side /\ side \in Nat BY <3>1, Sequences
    <3>3. fetched' = [fetched EXCEPT ![side] = fetched[side] \o kept]
      BY <2>1 DEF kept
    <3>4. DOMAIN fetched' = 1 .. side /\ fetched' = [k \in 1 .. side |-> fetched'[k]]
      BY <3>2, <3>3
    <3>5. IsSequence(fetched') /\ Len(fetched') = side
      BY <3>2, <3>4, IsSeqFunction
    <3>6. side \in 1 .. side BY <2>3
    <3>7. fetched[side] \o kept \in Seq(ClearedIn(in, side))
      <4>1. fetched[side] \in Seq(ClearedIn(in, side)) BY <3>1, <3>6
      <4>2. kept \in Seq(ClearedIn(in, side)) BY <2>5 DEF kept
      <4>3. QED BY <4>1, <4>2
    <3>8. \A k \in 1 .. side : fetched'[k] \in Seq(ClearedIn(in, k))
      BY <3>1, <3>2, <3>3, <3>7
    <3>9. fetched' # <<>>
      <4>1. side \in DOMAIN fetched' BY <3>4, <3>6
      <4>2. QED BY <4>1
    <3>10. QED BY <3>5, <3>8, <3>9
  <2>7. IsSequence(chunks') /\ \A c \in DOMAIN chunks' : IsProbe(in, side, chunks'[c])
    <3>1. IsSequence(chunks) BY <2>3 DEF Busy
    <3>2. /\ IsSequence(Tail(chunks))
          /\ \A k \in DOMAIN Tail(chunks) : k + 1 \in DOMAIN chunks
                                            /\ Tail(chunks)[k] = chunks[k + 1]
      BY <2>2, <3>1, Sequences
    <3>3. QED BY <2>1, <2>3, <3>2 DEF Busy
  <2>8. got' \in Seq(RowsIn(in, side)) BY <2>1
  <2>9. Busy' BY <2>1, <2>2, <2>3, <2>6, <2>7, <2>8 DEF Busy
  <2>10. Answered' BY <2>1 DEF QInv, Answered
  <2>11. QED BY <2>1, <2>6, <2>9, <2>10 DEF QInv
<1>4. QED BY <1>2, <1>3

----------------------------------------------------------------------------
(* Admission.                                                              *)

LEMMA TurnedAwayHolds == QInv /\ TurnedAway => QInv'
<1>1. "denied" \in Error /\ "unauthenticated" \in Error BY DEF Error
<1>2. QED BY <1>1, FailHolds DEF TurnedAway

LEMMA RefuseHolds == QInv /\ Refuse => QInv'
<1>1. "denied" \in Error /\ "plan" \in Error BY DEF Error
<1>2. QED BY <1>1, FailHolds DEF Refuse

LEMMA CannotResolveHolds == QInv /\ CannotResolve => QInv'
<1>1. "denied" \in Error BY DEF Error
<1>2. QED BY <1>1, FailHolds DEF CannotResolve

LEMMA AdmitHolds == QInv /\ Admit => QInv'
<1> SUFFICES ASSUME QInv, Admit PROVE QInv' OBVIOUS
<1>1. /\ stage = "admit" /\ ~NotIdentified /\ ~AccessDenied /\ Plannable
      /\ plan' = Build(in.q, in.cat, Doc) /\ UNCHANGED <<in, side, got, calls>>
  BY DEF Admit
<1>2. /\ in \in Input /\ side \in 1 .. Len(in.q.from) /\ fetched = <<>> /\ Idle
      /\ out = [err |-> NoError, rows |-> <<>>]
  BY <1>1 DEF QInv, Busy, Answered
<1>3. side = 1 /\ chunks = <<>> /\ got = <<>> /\ calls = <<>>
  BY <1>2 DEF Idle
<1>4. plan' = PlanIn(in) BY <1>1 DEF Doc, Role, Caller, DocIn, PrincipalIn, PlanIn
<1>5. CASE /\ ParseTables(in.q) \subseteq in.connected
           /\ stage' = "fetch" /\ chunks' = <<[c \in {} |-> {}]>>
           /\ fetched' = <<<<>>>> /\ UNCHANGED out
  <2>1. AcceptedIn(in)
    <3>1. PrincipalIn(in).ok /\ PrincipalIn(in).roles # <<>>
      BY <1>1 DEF NotIdentified, Caller, PrincipalIn
    <3>2. \A t \in ParseTables(in.q) :
            ~ObjectDenied(Policy, PrincipalIn(in).roles[1], t)
      BY <1>1 DEF AccessDenied, Role, Caller, PrincipalIn
    <3>3. ParseTables(in.q) \subseteq DOMAIN in.cat /\ Buildable(in.q, in.cat, DocIn(in))
      BY <1>1 DEF Plannable, Doc, Role, Caller, DocIn, PrincipalIn
    <3>4. QED BY <1>5, <3>1, <3>2, <3>3 DEF AcceptedIn
  <2>2. /\ IsSequence(fetched') /\ Len(fetched') = 1 /\ fetched' # <<>>
        /\ \A k \in 1 .. 1 : fetched'[k] \in Seq(ClearedIn(in, k))
    <3>1. fetched' \in Seq({<<>>}) /\ Len(fetched') = 1 /\ fetched'[1] = <<>>
      BY <1>5
    <3>2. <<>> \in Seq(ClearedIn(in, 1)) OBVIOUS
    <3>3. fetched' # <<>> BY <3>1
    <3>4. \A k \in 1 .. 1 : k = 1 OBVIOUS
    <3>5. \A k \in 1 .. 1 : fetched'[k] \in Seq(ClearedIn(in, k))
      BY <3>1, <3>2, <3>4
    <3>6. IsSequence(fetched') BY <3>1, IsSeq
    <3>7. QED BY <3>1, <3>3, <3>5, <3>6
  <2>3. IsSequence(chunks') /\ \A c \in DOMAIN chunks' : IsProbe(in, 1, chunks'[c])
    <3> DEFINE nothing == [c \in {} |-> {}]
    <3>1. DOMAIN nothing = {} OBVIOUS
    <3> HIDE DEF nothing
    <3>2. chunks' = <<nothing>> BY <1>5 DEF nothing
    <3>3. chunks' \in Seq({nothing}) BY <3>2
    <3>4. \A c \in DOMAIN chunks' : chunks'[c] = nothing BY <3>2
    <3>5. QED BY <3>1, <3>3, <3>4, IsSeq DEF IsProbe
  <2>4. got' \in Seq(RowsIn(in, side)) /\ got' = <<>> BY <1>1, <1>3
  <2>5. IsSequence(calls') /\ \A c \in DOMAIN calls' : IsCall(in, calls'[c])
    <3>1. calls' = <<>> BY <1>1, <1>3
    <3>2. IsSequence(calls') /\ DOMAIN calls' = {} BY <3>1, NoneIsSeq
    <3>3. QED BY <3>2
  <2>6. Busy' BY <1>1, <1>3, <1>4, <1>5, <2>1, <2>2, <2>3, <2>4, <2>5 DEF Busy
  <2>7. Answered'
    <3>1. Answered /\ stage # "done" /\ stage' = "fetch" BY <1>1, <1>5 DEF QInv
    <3>2. out' = out /\ in' = in BY <1>1, <1>5
    <3>3. QED BY <3>1, <3>2 DEF Answered
  <2>8. stage' \in {"admit", "fetch", "merge", "done"} BY <1>5
  <2>9. QED BY <1>1, <1>2, <2>2, <2>6, <2>7, <2>8 DEF QInv
<1>6. CASE /\ stage' = "done"
           /\ out' = [out EXCEPT !.err = IF AssertInvariant(plan')
                                         THEN "connector" ELSE "denied"]
           /\ UNCHANGED <<chunks, fetched>>
  <2> DEFINE e == IF AssertInvariant(plan') THEN "connector" ELSE "denied"
  <2>1. e \in Error BY DEF Error
  <2>2. out' = [out EXCEPT !.err = e] BY <1>6
  <2> HIDE DEF e
  <2>3. out' = [err |-> e, rows |-> <<>>] BY <1>2, <2>2
  <2>4. Answered' BY <1>6, <2>1, <2>3, ErrorAnswers
  <2>5. Idle' BY <1>1, <1>3, <1>4, <1>6 DEF Idle
  <2>6. QED BY <1>1, <1>2, <1>6, <2>4, <2>5 DEF QInv
<1>7. QED BY <1>5, <1>6 DEF Admit

----------------------------------------------------------------------------
(* Folding over a sequence.                                                *)

(* The results of n steps from a base; a step can be taken any number of   *)
(* times.                                                                  *)
IsRun(f, S, base, step, n) ==
  /\ f \in [0 .. n -> S]
  /\ f[0] = base /\ \A k \in 1 .. n : f[k] = step[<<k, f[k - 1]>>]

LEMMA Iterates ==
  ASSUME NEW S, NEW base \in S, NEW step \in [Nat \X S -> S], NEW n \in Nat
  PROVE  \E f : IsRun(f, S, base, step, n)
<1> USE DEF IsRun
<1> DEFINE Reaches(m) == \E f : IsRun(f, S, base, step, m)
           bad == {m \in Nat : ~Reaches(m)}
<1> SUFFICES ASSUME n \in bad PROVE FALSE OBVIOUS
<1>1. PICK m \in Nat : IsFirst(bad, m)
  <2>1. bad \in SUBSET Nat /\ bad # {} OBVIOUS
  <2> HIDE DEF bad
  <2>2. QED BY <2>1, HasFirst
<1>2. m \in bad /\ \A j \in Nat : j < m => j \notin bad BY <1>1 DEF IsFirst
<1>3. CASE m = 0
  <2> DEFINE f == [k \in 0 .. 0 |-> base]
  <2>1. f \in [0 .. 0 -> S] /\ f[0] = base /\ 1 .. 0 = {} OBVIOUS
  <2> HIDE DEF f
  <2>2. Reaches(0) BY <2>1
  <2>3. QED BY <1>2, <1>3, <2>2
<1>4. CASE m # 0
  <2>1. m - 1 \in Nat /\ m - 1 < m BY <1>4
  <2>2. Reaches(m - 1) BY <1>2, <2>1
  <2>3. PICK f \in [0 .. m - 1 -> S] :
          f[0] = base /\ \A k \in 1 .. m - 1 : f[k] = step[<<k, f[k - 1]>>]
    BY <2>2
  <2> DEFINE last == step[<<m, f[m - 1]>>]
             g == [k \in 0 .. m |-> IF k < m THEN f[k] ELSE last]
  <2>4. last \in S
    <3>1. f[m - 1] \in S BY <2>1
    <3>2. QED BY <3>1
  <2>5. \A k \in 0 .. m : k < m => k \in 0 .. m - 1 OBVIOUS
  <2>6. g \in [0 .. m -> S]
    <3> HIDE DEF last
    <3>1. QED BY <2>4, <2>5
  <2>7. g[0] = base BY <1>4, <2>3
  <2>8. \A k \in 1 .. m : g[k] = step[<<k, g[k - 1]>>]
    <3> SUFFICES ASSUME NEW k \in 1 .. m PROVE g[k] = step[<<k, g[k - 1]>>]
      OBVIOUS
    <3>1. k - 1 \in 0 .. m /\ k - 1 < m /\ k \in 0 .. m OBVIOUS
    <3>2. g[k - 1] = f[k - 1] BY <3>1
    <3>3. CASE k < m
      <4>1. k \in 1 .. m - 1 BY <3>3
      <4>2. g[k] = f[k] BY <3>1, <3>3
      <4>3. QED BY <2>3, <3>2, <4>1, <4>2
    <3>4. CASE k = m
      <4>1. g[k] = last BY <3>1, <3>4
      <4>2. QED BY <3>2, <3>4, <4>1
    <3>5. QED BY <3>3, <3>4
  <2> HIDE DEF g
  <2>9. Reaches(m) BY <2>6, <2>7, <2>8
  <2>10. QED BY <1>2, <2>9
<1>5. QED BY <1>3, <1>4

(* What FlattenSeq concatenates: g[i] is the first i sequences in one.     *)
IsFlat(g, X, seqs) ==
  /\ g[1] = seqs[1]
  /\ \A i \in 2 .. Len(seqs) : g[i] = g[i - 1] \o seqs[i]
  /\ \A i \in 1 .. Len(seqs) : g[i] \in Seq(X)

LEMMA FlattenRuns ==
  ASSUME NEW X, NEW seqs \in Seq(Seq(X))
  PROVE  \/ Len(seqs) = 0 /\ FlattenSeq(seqs) = <<>>
         \/ \E g : IsFlat(g, X, seqs) /\ FlattenSeq(seqs) = g[Len(seqs)]
<1> DEFINE n == Len(seqs)
           flat[i \in 1 .. n] == IF i = 1 THEN seqs[i] ELSE flat[i - 1] \o seqs[i]
<1>1. n \in Nat /\ \A i \in 1 .. n : seqs[i] \in Seq(X) OBVIOUS
<1>2. FlattenSeq(seqs) = IF n = 0 THEN seqs ELSE flat[n] BY DEF FlattenSeq
<1>3. CASE n = 0
  <2>1. seqs = <<>> BY <1>3
  <2>2. QED BY <1>2, <1>3, <2>1
<1>4. CASE n # 0
  <2> DEFINE step == [x \in Nat \X Seq(X) |->
                        IF x[1] + 1 \in 1 .. n THEN x[2] \o seqs[x[1] + 1]
                        ELSE x[2]]
  <2>1. step \in [Nat \X Seq(X) -> Seq(X)]
    <3> HIDE DEF n
    <3>1. \A x \in Nat \X Seq(X) : x[2] \in Seq(X) OBVIOUS
    <3>2. \A x \in Nat \X Seq(X) :
            x[1] + 1 \in 1 .. n => x[2] \o seqs[x[1] + 1] \in Seq(X)
      BY <1>1, <3>1
    <3>3. QED BY <3>1, <3>2
  <2>2. seqs[1] \in Seq(X) /\ n - 1 \in Nat /\ 1 \in 1 .. n BY <1>1, <1>4
  <2>3. PICK f \in [0 .. n - 1 -> Seq(X)] :
          f[0] = seqs[1] /\ \A k \in 1 .. n - 1 : f[k] = step[<<k, f[k - 1]>>]
    <3> DEFINE T == Seq(X)
               m == n - 1
               base == seqs[1]
    <3>1. step \in [Nat \X T -> T] /\ base \in T /\ m \in Nat BY <2>1, <2>2
    <3> HIDE DEF step, n, T, m, base
    <3>2. \E f : IsRun(f, T, base, step, m) BY <3>1, Iterates
    <3>3. QED BY <3>2 DEF T, m, base, IsRun
  <2> DEFINE g == [i \in 1 .. n |-> f[i - 1]]
  <2>4. g = [i \in 1 .. n |-> IF i = 1 THEN seqs[i] ELSE g[i - 1] \o seqs[i]]
    <3> HIDE DEF step, n
    <3> SUFFICES ASSUME NEW i \in 1 .. n
                 PROVE  f[i - 1] = IF i = 1 THEN seqs[i] ELSE g[i - 1] \o seqs[i]
      BY Zenon DEF g
    <3>1. i \in Nat /\ n \in Nat BY <1>1
    <3>2. CASE i = 1 BY <2>3, <3>2
    <3>3. CASE i # 1
      <4>1. i - 1 \in 1 .. n - 1 /\ i - 1 \in 1 .. n /\ i - 2 \in 0 .. n - 1
            /\ (i - 1) + 1 = i /\ (i - 1) - 1 = i - 2 /\ i - 1 \in Nat
        BY <3>1, <3>3
      <4>2. f[i - 1] = step[<<i - 1, f[i - 2]>>]
        <5> DEFINE k == i - 1
        <5>1. k \in 1 .. n - 1 /\ k - 1 = i - 2 BY <4>1
        <5> HIDE DEF k, step
        <5>2. f[k] = step[<<k, f[k - 1]>>] BY <2>3, <5>1
        <5>3. QED BY <5>1, <5>2 DEF k
      <4>3. f[i - 2] \in Seq(X) BY <2>3, <4>1
      <4>4. step[<<i - 1, f[i - 2]>>] = f[i - 2] \o seqs[i]
        <5> DEFINE x == <<i - 1, f[i - 2]>>
        <5> USE DEF step
        <5>1. x \in Nat \X Seq(X) /\ x[1] = i - 1 /\ x[2] = f[i - 2] BY <4>1, <4>3
        <5>2. x[1] + 1 = i /\ i \in 1 .. n BY <4>1, <5>1
        <5> HIDE DEF x
        <5>3. step[x] = x[2] \o seqs[x[1] + 1] BY Zenon, <5>1, <5>2
        <5> HIDE DEF step
        <5>4. step[x] = f[i - 2] \o seqs[i] BY Zenon, <5>1, <5>2, <5>3
        <5>5. QED BY <5>4 DEF x
      <4>5. g[i - 1] = f[i - 2] BY <4>1
      <4>6. QED BY <3>3, <4>2, <4>4, <4>5
    <3>4. QED BY <3>2, <3>3
  <2>5. flat = [i \in 1 .. n |-> IF i = 1 THEN seqs[i] ELSE flat[i - 1] \o seqs[i]]
    <3> HIDE DEF g
    <3>1. QED BY Zenon, <2>4
  <2> HIDE DEF flat, n
  <2> DEFINE bad == {i \in 1 .. n : flat[i] \notin Seq(X)}
  <2>6. bad = {}
    <3> SUFFICES ASSUME bad # {} PROVE FALSE OBVIOUS
    <3>1. bad \in SUBSET Nat BY <1>1
    <3>2. PICK i \in Nat : IsFirst(bad, i)
      <4> HIDE DEF bad
      <4>1. QED BY <3>1, HasFirst
    <3>3. i \in 1 .. n /\ flat[i] \notin Seq(X) /\ \A j \in bad : ~(j < i)
      BY <3>2 DEF IsFirst
    <3>4. CASE i = 1 BY <1>1, <2>5, <3>3, <3>4
    <3>5. CASE i # 1
      <4>1. i - 1 \in 1 .. n /\ i - 1 < i BY <1>1, <3>3, <3>5
      <4>2. flat[i - 1] \in Seq(X) BY <3>3, <4>1
      <4>3. flat[i] = flat[i - 1] \o seqs[i] BY <2>5, <3>3, <3>5
      <4>4. QED BY <1>1, <3>3, <4>2, <4>3
    <3>6. QED BY <3>4, <3>5
  <2>7. IsFlat(flat, X, seqs)
    <3>1. \A i \in 1 .. n : flat[i] \in Seq(X) BY <2>6
    <3>2. 1 \in 1 .. n /\ \A i \in 2 .. n : i \in 1 .. n /\ i # 1 BY <1>1, <1>4
    <3>3. flat[1] = seqs[1] /\ \A i \in 2 .. n : flat[i] = flat[i - 1] \o seqs[i]
      BY <2>5, <3>2
    <3>4. QED BY <3>1, <3>3 DEF IsFlat, n
  <2>8. FlattenSeq(seqs) = flat[Len(seqs)] BY <1>2, <1>4 DEF n
  <2> HIDE DEF bad
  <2>9. QED BY <2>7, <2>8
<1>5. QED BY <1>3, <1>4

LEMMA FlattenTyped ==
  ASSUME NEW X, NEW seqs \in Seq(Seq(X))
  PROVE  FlattenSeq(seqs) \in Seq(X)
<1>1. CASE Len(seqs) = 0
  <2>1. FlattenSeq(seqs) = seqs BY <1>1 DEF FlattenSeq
  <2>2. seqs = <<>> BY <1>1
  <2>3. QED BY <2>1, <2>2
<1>2. CASE Len(seqs) # 0
  <2>1. PICK g : IsFlat(g, X, seqs) /\ FlattenSeq(seqs) = g[Len(seqs)]
    BY <1>2, FlattenRuns
  <2>2. Len(seqs) \in 1 .. Len(seqs) BY <1>2
  <2>3. QED BY <2>1, <2>2 DEF IsFlat
<1>3. QED BY <1>1, <1>2

----------------------------------------------------------------------------
(* The joins.                                                              *)

LEMMA EachAppended ==
  ASSUME NEW T, NEW U, NEW r, \A t \in T : Append(t, r) \in U, NEW s \in Seq(T)
  PROVE  [m \in DOMAIN s |-> Append(s[m], r)] \in Seq(U)
<1>1. DOMAIN s = 1 .. Len(s) /\ Len(s) \in Nat OBVIOUS
<1>2. \A m \in DOMAIN s : Append(s[m], r) \in U OBVIOUS
<1>3. QED BY <1>1, <1>2

(* What JoinOn and Crossed concatenate.                                    *)
Matching(acc, link, right) ==
  {m \in DOMAIN acc :
     Val(acc[m][link.from], link.fromCol) = Val(right, link.toCol)}

JoinPart(acc, link, k) ==
  LET match == Chosen(acc, Matching(acc, link, fetched[link.to][k]))
  IN [m \in DOMAIN match |-> Append(match[m], fetched[link.to][k])]

JoinParts(acc, link) ==
  [k \in DOMAIN fetched[link.to] |-> JoinPart(acc, link, k)]

CrossParts(acc, rows) ==
  [k \in DOMAIN acc |-> [m \in DOMAIN rows |-> Append(acc[k], rows[m])]]

LEMMA JoinTyped ==
  ASSUME NEW T, NEW R, NEW U, \A t \in T : \A r \in R : Append(t, r) \in U,
         NEW acc \in Seq(T), NEW link, fetched[link.to] \in Seq(R)
  PROVE  /\ JoinOn(acc, link) = FlattenSeq(JoinParts(acc, link))
         /\ JoinParts(acc, link) \in Seq(Seq(U))
         /\ JoinOn(acc, link) \in Seq(U)
<1> DEFINE rows == fetched[link.to]
<1>1. JoinOn(acc, link) = FlattenSeq(JoinParts(acc, link))
  BY DEF JoinOn, JoinParts, JoinPart, Matching
<1>2. JoinParts(acc, link) = [k \in DOMAIN rows |-> JoinPart(acc, link, k)]
  BY DEF JoinParts
<1>3. rows \in Seq(R) OBVIOUS
<1>4. ASSUME NEW k \in DOMAIN rows PROVE JoinPart(acc, link, k) \in Seq(U)
  <2> DEFINE places == Matching(acc, link, rows[k])
             match == Chosen(acc, places)
  <2>1. JoinPart(acc, link, k) = [m \in DOMAIN match |-> Append(match[m], rows[k])]
    BY DEF JoinPart
  <2>2. places \in SUBSET DOMAIN acc BY DEF Matching
  <2> HIDE DEF places
  <2>3. match \in Seq(T) BY <2>2, ChosenElements
  <2> HIDE DEF match, rows
  <2>4. \A t \in T : Append(t, rows[k]) \in U BY <1>3
  <2>5. [m \in DOMAIN match |-> Append(match[m], rows[k])] \in Seq(U)
    BY <2>3, <2>4, EachAppended
  <2>6. QED BY <2>1, <2>5
<1>5. JoinParts(acc, link) \in Seq(Seq(U))
  <2> HIDE DEF rows
  <2>1. DOMAIN rows = 1 .. Len(rows) /\ Len(rows) \in Nat BY <1>3
  <2>2. QED BY <1>2, <1>4, <2>1
<1>6. QED BY <1>1, <1>5, FlattenTyped

LEMMA CrossTyped ==
  ASSUME NEW T, NEW R, NEW U, \A t \in T : \A r \in R : Append(t, r) \in U,
         NEW acc \in Seq(T), NEW rows \in Seq(R)
  PROVE  /\ Crossed(acc, rows) = FlattenSeq(CrossParts(acc, rows))
         /\ CrossParts(acc, rows) \in Seq(Seq(U))
         /\ Crossed(acc, rows) \in Seq(U)
<1> DEFINE with(k) == [m \in DOMAIN rows |-> Append(acc[k], rows[m])]
<1>1. /\ Crossed(acc, rows) = FlattenSeq(CrossParts(acc, rows))
      /\ CrossParts(acc, rows) = [k \in DOMAIN acc |-> with(k)]
  BY DEF Crossed, CrossParts
<1>2. ASSUME NEW k \in DOMAIN acc PROVE with(k) \in Seq(U)
  <2>1. acc[k] \in T /\ \A m \in DOMAIN rows : rows[m] \in R OBVIOUS
  <2>2. \A m \in DOMAIN rows : Append(acc[k], rows[m]) \in U BY <2>1
  <2>3. DOMAIN rows = 1 .. Len(rows) /\ Len(rows) \in Nat OBVIOUS
  <2>4. QED BY <2>2, <2>3
<1> HIDE DEF with
<1>3. CrossParts(acc, rows) \in Seq(Seq(U))
  <2>1. DOMAIN acc = 1 .. Len(acc) /\ Len(acc) \in Nat OBVIOUS
  <2>2. QED BY <1>1, <1>2, <2>1
<1>4. QED BY <1>1, <1>3, FlattenTyped

(* A joined row of the first m sides: of each a row that it was cleared    *)
(* to give.                                                                *)
AnyRow(i) == UNION {ClearedIn(i, k) : k \in 1 .. Len(i.q.from)}
Partial(i, m) ==
  {t \in Seq(AnyRow(i)) : Len(t) = m /\ \A k \in 1 .. m : t[k] \in ClearedIn(i, k)}

LEMMA PartialGrows ==
  ASSUME NEW i \in Input, NEW m \in 1 .. Len(i.q.from),
         NEW t \in Partial(i, m - 1), NEW r \in ClearedIn(i, m)
  PROVE  Append(t, r) \in Partial(i, m)
<1>1. Len(i.q.from) \in Nat BY InputFacts
<1>2. t \in Seq(AnyRow(i)) /\ Len(t) = m - 1
      /\ \A k \in 1 .. m - 1 : t[k] \in ClearedIn(i, k)
  BY DEF Partial
<1>3. r \in AnyRow(i) BY DEF AnyRow
<1>4. Append(t, r) \in Seq(AnyRow(i)) /\ Len(Append(t, r)) = m BY <1>1, <1>2, <1>3
<1>5. \A k \in 1 .. m : Append(t, r)[k] \in ClearedIn(i, k)
  <2> SUFFICES ASSUME NEW k \in 1 .. m PROVE Append(t, r)[k] \in ClearedIn(i, k)
    OBVIOUS
  <2>1. CASE k \in 1 .. m - 1
    <3>1. Append(t, r)[k] = t[k] BY <1>2, <2>1
    <3>2. QED BY <1>2, <2>1, <3>1
  <2>2. CASE k = m
    <3>1. Append(t, r)[k] = r BY <1>2, <2>2
    <3>2. QED BY <2>2, <3>1
  <2>3. k \in 1 .. m - 1 \/ k = m BY <1>1
  <2>4. QED BY ONLY <2>1, <2>2, <2>3
<1>6. QED BY <1>4, <1>5 DEF Partial

(* What is fetched when all is fetched. *)
LEMMA AllFetched ==
  ASSUME QInv, stage = "merge"
  PROVE  /\ in \in Input /\ AcceptedIn(in) /\ plan = PlanIn(in)
         /\ Len(in.q.from) \in Nat \ {0} /\ Len(fetched) = Len(in.q.from)
         /\ DOMAIN fetched = 1 .. Len(in.q.from)
         /\ \A k \in 1 .. Len(in.q.from) : fetched[k] \in Seq(ClearedIn(in, k))
         /\ Len(plan.links) = Len(in.q.from) - 1
         /\ \A k \in 1 .. Len(in.q.from) - 1 : plan.links[k].to = k + 1
<1>1. fetched # <<>> /\ in \in Input BY DEF QInv, Idle
<1>2. Busy BY <1>1 DEF QInv
<1>3. /\ AcceptedIn(in) /\ plan = PlanIn(in) /\ Len(in.q.from) \in Nat \ {0}
      /\ IsSequence(fetched) /\ Len(fetched) = Len(in.q.from)
      /\ \A k \in 1 .. Len(in.q.from) : fetched[k] \in Seq(ClearedIn(in, k))
  BY <1>1, <1>2, InputFacts DEF Busy
<1>4. DOMAIN fetched = 1 .. Len(in.q.from) BY <1>3, Sequences
<1>5. /\ Len(plan.links) = Len(in.q.from) - 1
      /\ \A k \in 1 .. Len(in.q.from) - 1 :
           plan.links[k] = LinkTo(in.q, in.cat, k + 1)
  BY <1>1, <1>3, PlanFacts
<1>6. \A k : LinkTo(in.q, in.cat, k + 1).to = k + 1 BY DEF LinkTo
<1>7. QED BY <1>1, <1>3, <1>4, <1>5, <1>6

(* The joins of GoJoin, one link after another.                            *)
IsGoJoin(f) ==
  /\ f[0] = [j \in DOMAIN fetched[1] |-> <<fetched[1][j]>>]
  /\ \A k \in 1 .. Len(in.q.from) - 1 : f[k] = JoinOn(f[k - 1], plan.links[k])
  /\ \A k \in 0 .. Len(in.q.from) - 1 : f[k] \in Seq(Partial(in, k + 1))

LEMMA GoJoinRuns ==
  ASSUME QInv, stage = "merge"
  PROVE  /\ GoJoin.err = NoError
         /\ \E f : IsGoJoin(f) /\ GoJoin.rows = f[Len(in.q.from) - 1]
<1> DEFINE n == Len(in.q.from)
           base == [j \in DOMAIN fetched[1] |-> <<fetched[1][j]>>]
           S == Seq(Seq(AnyRow(in)))
           upTo[k \in 0 .. Len(plan.links)] ==
             IF k = 0 THEN base ELSE JoinOn(upTo[k - 1], plan.links[k])
           Right(f) ==
             f = [k \in 0 .. n - 1 |->
                    IF k = 0 THEN base ELSE JoinOn(f[k - 1], plan.links[k])]
<1>1. /\ in \in Input /\ n \in Nat \ {0} /\ Len(plan.links) = n - 1
      /\ \A k \in 1 .. n : fetched[k] \in Seq(ClearedIn(in, k))
      /\ \A k \in 1 .. n - 1 : plan.links[k].to = k + 1
  BY AllFetched
<1>2. GoJoin = Joined(NoError, upTo[n - 1])
  BY <1>1 DEF GoJoin
<1>3. GoJoin.err = NoError /\ GoJoin.rows = upTo[n - 1]
  <2> HIDE DEF upTo
  <2>1. QED BY <1>2, Zenon DEF Joined
<1>4. ASSUME NEW k \in 1 .. n - 1, NEW acc \in Seq(Partial(in, k))
      PROVE  JoinOn(acc, plan.links[k]) \in Seq(Partial(in, k + 1))
  <2>1. k + 1 \in 1 .. n /\ (k + 1) - 1 = k BY <1>1
  <2>2. \A t \in Partial(in, k) : \A r \in ClearedIn(in, k + 1) :
          Append(t, r) \in Partial(in, k + 1)
    <3> DEFINE m == k + 1
    <3>1. m \in 1 .. Len(in.q.from) /\ m - 1 = k BY <2>1
    <3> HIDE DEF m
    <3>2. \A t \in Partial(in, m - 1) : \A r \in ClearedIn(in, m) :
            Append(t, r) \in Partial(in, m)
      BY <1>1, <3>1, PartialGrows
    <3>3. QED BY <3>1, <3>2 DEF m
  <2>3. fetched[plan.links[k].to] \in Seq(ClearedIn(in, k + 1)) BY <1>1, <2>1
  <2>4. QED BY <2>2, <2>3, JoinTyped
<1>5. ASSUME NEW k \in 1 .. n - 1, NEW acc \in S
      PROVE  JoinOn(acc, plan.links[k]) \in S
  <2>1. k + 1 \in 1 .. n BY <1>1
  <2>2. \A t \in Seq(AnyRow(in)) : \A r \in ClearedIn(in, k + 1) :
          Append(t, r) \in Seq(AnyRow(in))
    <3>1. \A r \in ClearedIn(in, k + 1) : r \in AnyRow(in) BY <2>1 DEF AnyRow
    <3>2. QED BY <3>1
  <2>3. fetched[plan.links[k].to] \in Seq(ClearedIn(in, k + 1)) BY <1>1, <2>1
  <2>4. QED BY <2>2, <2>3, JoinTyped
<1>6. base \in Seq(Partial(in, 1))
  <2>1. fetched[1] \in Seq(ClearedIn(in, 1)) /\ 1 \in 1 .. n BY <1>1
  <2>2. DOMAIN fetched[1] = 1 .. Len(fetched[1]) /\ Len(fetched[1]) \in Nat
        /\ \A j \in DOMAIN fetched[1] : fetched[1][j] \in ClearedIn(in, 1)
    BY <2>1
  <2>3. \A r \in ClearedIn(in, 1) : <<r>> \in Partial(in, 1)
    <3> SUFFICES ASSUME NEW r \in ClearedIn(in, 1) PROVE <<r>> \in Partial(in, 1)
      OBVIOUS
    <3>1. r \in AnyRow(in) BY <2>1 DEF AnyRow
    <3>2. <<r>> \in Seq(AnyRow(in)) /\ Len(<<r>>) = 1 /\ <<r>>[1] = r BY <3>1
    <3>3. \A k \in 1 .. 1 : k = 1 OBVIOUS
    <3>4. QED BY <3>2, <3>3 DEF Partial
  <2>4. \A j \in DOMAIN fetched[1] : <<fetched[1][j]>> \in Partial(in, 1)
    BY <2>2, <2>3
  <2>5. QED BY <2>2, <2>4
<1>7. base \in S
  <2>1. Partial(in, 1) \subseteq Seq(AnyRow(in)) BY DEF Partial
  <2> HIDE DEF base
  <2>2. QED BY <1>6, <2>1
<1> DEFINE step == [x \in Nat \X S |->
                      IF x[1] \in 1 .. n - 1 THEN JoinOn(x[2], plan.links[x[1]])
                      ELSE x[2]]
<1>8. step \in [Nat \X S -> S]
  <2> HIDE DEF S, n
  <2>1. \A x \in Nat \X S : x[2] \in S OBVIOUS
  <2>2. \A x \in Nat \X S :
          x[1] \in 1 .. n - 1 => JoinOn(x[2], plan.links[x[1]]) \in S
    BY <1>5, <2>1
  <2>3. QED BY <2>1, <2>2
<1>9. \A k \in 1 .. n - 1 : \A acc \in S :
        step[<<k, acc>>] = JoinOn(acc, plan.links[k])
  <2> HIDE DEF S, n
  <2> SUFFICES ASSUME NEW k \in 1 .. n - 1, NEW acc \in S
               PROVE  step[<<k, acc>>] = JoinOn(acc, plan.links[k])
    OBVIOUS
  <2>1. <<k, acc>> \in Nat \X S OBVIOUS
  <2>2. QED BY <2>1
<1>10. PICK f : IsRun(f, S, base, step, n - 1)
  <2>1. n - 1 \in Nat BY <1>1
  <2> HIDE DEF S, n, base, step
  <2>2. QED BY <1>7, <1>8, <2>1, Iterates
<1>11. Right(f)
  <2> HIDE DEF S, n, base, step
  <2>1. f \in [0 .. n - 1 -> S] /\ f[0] = base
        /\ \A k \in 1 .. n - 1 : f[k] = step[<<k, f[k - 1]>>]
    BY <1>10 DEF IsRun
  <2>2. ASSUME NEW k \in 0 .. n - 1, k # 0
        PROVE  f[k] = JoinOn(f[k - 1], plan.links[k])
    <3>1. k \in 1 .. n - 1 /\ k - 1 \in 0 .. n - 1 BY <1>1, <2>2
    <3>2. f[k - 1] \in S BY <2>1, <3>1
    <3>3. QED BY <1>9, <2>1, <3>1, <3>2
  <2>3. QED BY <2>1, <2>2
<1>12. Right(upTo)
  <2> DEFINE m == Len(plan.links)
  <2>1. m = n - 1 BY <1>1
  <2> HIDE DEF n, base, m
  <2>2. \E g : g = [k \in 0 .. m |->
                      IF k = 0 THEN base ELSE JoinOn(g[k - 1], plan.links[k])]
    BY <1>11, <2>1
  <2>3. upTo = [k \in 0 .. m |->
                  IF k = 0 THEN base ELSE JoinOn(upTo[k - 1], plan.links[k])]
    BY <2>2 DEF m
  <2> HIDE DEF upTo
  <2>4. QED BY <2>1, <2>3
<1> HIDE DEF upTo, base, step, S
<1> DEFINE bad == {k \in 0 .. n - 1 : upTo[k] \notin Seq(Partial(in, k + 1))}
<1>13. bad = {}
  <2> SUFFICES ASSUME bad # {} PROVE FALSE OBVIOUS
  <2>1. bad \in SUBSET Nat BY <1>1
  <2>2. PICK k \in Nat : IsFirst(bad, k)
    <3> HIDE DEF bad
    <3>1. QED BY <2>1, HasFirst
  <2>3. /\ k \in 0 .. n - 1 /\ upTo[k] \notin Seq(Partial(in, k + 1))
        /\ \A j \in bad : ~(j < k)
    BY <2>2 DEF IsFirst
  <2>4. CASE k = 0 BY <1>6, <1>12, <2>3, <2>4
  <2>5. CASE k # 0
    <3>1. k - 1 \in 0 .. n - 1 /\ k - 1 < k /\ (k - 1) + 1 = k /\ k \in 1 .. n - 1
      BY <1>1, <2>3, <2>5
    <3>2. upTo[k - 1] \in Seq(Partial(in, (k - 1) + 1)) BY <2>3, <3>1
    <3>3. upTo[k] = JoinOn(upTo[k - 1], plan.links[k]) BY <1>12, <2>3, <2>5
    <3>4. QED BY <1>4, <2>3, <3>1, <3>2, <3>3
  <2>6. QED BY <2>4, <2>5
<1>14. IsGoJoin(upTo)
  <2>1. \A k \in 0 .. n - 1 : upTo[k] \in Seq(Partial(in, k + 1)) BY <1>13
  <2>2. upTo[0] = base /\ 0 \in 0 .. n - 1 BY <1>1, <1>12
  <2>3. \A k \in 1 .. n - 1 : upTo[k] = JoinOn(upTo[k - 1], plan.links[k])
    <3>1. \A k \in 1 .. n - 1 : k \in 0 .. n - 1 /\ k # 0 BY <1>1
    <3>2. QED BY <1>12, <3>1
  <2>4. QED BY <2>1, <2>2, <2>3 DEF IsGoJoin, base
<1> HIDE DEF bad, Right
<1>15. QED BY <1>3, <1>14

LEMMA GoJoinTyped ==
  ASSUME QInv, stage = "merge"
  PROVE  GoJoin.err = NoError /\ GoJoin.rows \in Seq(Partial(in, Len(in.q.from)))
<1>1. PICK f : IsGoJoin(f) /\ GoJoin.rows = f[Len(in.q.from) - 1] BY GoJoinRuns
<1> DEFINE n == Len(in.q.from)
<1>2. n \in Nat \ {0} BY AllFetched
<1>3. n - 1 \in 0 .. n - 1 /\ (n - 1) + 1 = n BY <1>2
<1>4. \A k \in 0 .. n - 1 : f[k] \in Seq(Partial(in, k + 1))
  BY <1>1 DEF IsGoJoin
<1> HIDE DEF n
<1>5. f[n - 1] \in Seq(Partial(in, n)) BY <1>3, <1>4
<1>6. QED BY <1>1, <1>5, GoJoinRuns DEF n

(* The products of CrossJoin, one side after another.                      *)
IsCrossJoin(f) ==
  /\ f[0] = <<<<>>>>
  /\ \A k \in 1 .. Len(in.q.from) : f[k] = Crossed(f[k - 1], fetched[k])
  /\ \A k \in 0 .. Len(in.q.from) : f[k] \in Seq(Partial(in, k))

LEMMA CrossJoinRuns ==
  ASSUME QInv, stage = "merge"
  PROVE  \E f : IsCrossJoin(f) /\ CrossJoin = f[Len(in.q.from)]
<1> DEFINE n == Len(in.q.from)
           base == <<<<>>>>
           S == Seq(Seq(AnyRow(in)))
           upTo[k \in 0 .. Len(fetched)] ==
             IF k = 0 THEN base ELSE Crossed(upTo[k - 1], fetched[k])
           Right(f) ==
             f = [k \in 0 .. n |-> IF k = 0 THEN base
                                   ELSE Crossed(f[k - 1], fetched[k])]
<1>1. /\ in \in Input /\ n \in Nat \ {0} /\ Len(fetched) = n
      /\ \A k \in 1 .. n : fetched[k] \in Seq(ClearedIn(in, k))
  BY AllFetched
<1>2. CrossJoin = upTo[n] BY <1>1 DEF CrossJoin
<1>3. ASSUME NEW k \in 1 .. n, NEW acc \in Seq(Partial(in, k - 1))
      PROVE  Crossed(acc, fetched[k]) \in Seq(Partial(in, k))
  <2>1. \A t \in Partial(in, k - 1) : \A r \in ClearedIn(in, k) :
          Append(t, r) \in Partial(in, k)
    BY <1>1, PartialGrows
  <2>2. fetched[k] \in Seq(ClearedIn(in, k)) BY <1>1
  <2>3. QED BY <2>1, <2>2, CrossTyped
<1>4. ASSUME NEW k \in 1 .. n, NEW acc \in S
      PROVE  Crossed(acc, fetched[k]) \in S
  <2>1. \A t \in Seq(AnyRow(in)) : \A r \in ClearedIn(in, k) :
          Append(t, r) \in Seq(AnyRow(in))
    <3>1. \A r \in ClearedIn(in, k) : r \in AnyRow(in) BY DEF AnyRow
    <3>2. QED BY <3>1
  <2>2. fetched[k] \in Seq(ClearedIn(in, k)) BY <1>1
  <2>3. QED BY <2>1, <2>2, CrossTyped
<1>5. base \in Seq(Partial(in, 0)) /\ base \in S
  <2>1. <<>> \in Seq(AnyRow(in)) /\ Len(<<>>) = 0 /\ 1 .. 0 = {} OBVIOUS
  <2>2. <<>> \in Partial(in, 0) BY <2>1 DEF Partial
  <2>3. QED BY <2>1, <2>2
<1> DEFINE step == [x \in Nat \X S |->
                      IF x[1] \in 1 .. n THEN Crossed(x[2], fetched[x[1]])
                      ELSE x[2]]
<1>6. step \in [Nat \X S -> S]
  <2> HIDE DEF S, n
  <2>1. \A x \in Nat \X S : x[2] \in S OBVIOUS
  <2>2. \A x \in Nat \X S : x[1] \in 1 .. n => Crossed(x[2], fetched[x[1]]) \in S
    BY <1>4, <2>1
  <2>3. QED BY <2>1, <2>2
<1>7. \A k \in 1 .. n : \A acc \in S : step[<<k, acc>>] = Crossed(acc, fetched[k])
  <2> HIDE DEF S, n
  <2> SUFFICES ASSUME NEW k \in 1 .. n, NEW acc \in S
               PROVE  step[<<k, acc>>] = Crossed(acc, fetched[k])
    OBVIOUS
  <2>1. <<k, acc>> \in Nat \X S OBVIOUS
  <2>2. QED BY <2>1
<1>8. PICK f : IsRun(f, S, base, step, n)
  <2>1. n \in Nat BY <1>1
  <2> HIDE DEF S, n, base, step
  <2>2. QED BY <1>5, <1>6, <2>1, Iterates
<1>9. Right(f)
  <2> HIDE DEF S, n, base, step
  <2>1. f \in [0 .. n -> S] /\ f[0] = base
        /\ \A k \in 1 .. n : f[k] = step[<<k, f[k - 1]>>]
    BY <1>8 DEF IsRun
  <2>2. ASSUME NEW k \in 0 .. n, k # 0
        PROVE  f[k] = Crossed(f[k - 1], fetched[k])
    <3>1. k \in 1 .. n /\ k - 1 \in 0 .. n BY <1>1, <2>2
    <3>2. f[k - 1] \in S BY <2>1, <3>1
    <3>3. QED BY <1>7, <2>1, <3>1, <3>2
  <2>3. QED BY <2>1, <2>2
<1>10. Right(upTo)
  <2> DEFINE m == Len(fetched)
  <2>1. m = n BY <1>1
  <2> HIDE DEF n, base, m
  <2>2. \E g : g = [k \in 0 .. m |->
                      IF k = 0 THEN base ELSE Crossed(g[k - 1], fetched[k])]
    BY <1>9, <2>1
  <2>3. upTo = [k \in 0 .. m |->
                  IF k = 0 THEN base ELSE Crossed(upTo[k - 1], fetched[k])]
    BY <2>2 DEF m
  <2> HIDE DEF upTo
  <2>4. QED BY <2>1, <2>3
<1> HIDE DEF upTo, base, step, S
<1> DEFINE bad == {k \in 0 .. n : upTo[k] \notin Seq(Partial(in, k))}
<1>11. bad = {}
  <2> SUFFICES ASSUME bad # {} PROVE FALSE OBVIOUS
  <2>1. bad \in SUBSET Nat BY <1>1
  <2>2. PICK k \in Nat : IsFirst(bad, k)
    <3> HIDE DEF bad
    <3>1. QED BY <2>1, HasFirst
  <2>3. /\ k \in 0 .. n /\ upTo[k] \notin Seq(Partial(in, k))
        /\ \A j \in bad : ~(j < k)
    BY <2>2 DEF IsFirst
  <2>4. CASE k = 0 BY <1>5, <1>10, <2>3, <2>4
  <2>5. CASE k # 0
    <3>1. k - 1 \in 0 .. n /\ k - 1 < k /\ k \in 1 .. n BY <1>1, <2>3, <2>5
    <3>2. upTo[k - 1] \in Seq(Partial(in, k - 1)) BY <2>3, <3>1
    <3>3. upTo[k] = Crossed(upTo[k - 1], fetched[k]) BY <1>10, <2>3, <2>5
    <3>4. QED BY <1>3, <2>3, <3>1, <3>2, <3>3
  <2>6. QED BY <2>4, <2>5
<1>12. IsCrossJoin(upTo)
  <2>1. \A k \in 0 .. n : upTo[k] \in Seq(Partial(in, k)) BY <1>11
  <2>2. upTo[0] = base /\ 0 \in 0 .. n BY <1>1, <1>10
  <2>3. \A k \in 1 .. n : upTo[k] = Crossed(upTo[k - 1], fetched[k])
    <3>1. \A k \in 1 .. n : k \in 0 .. n /\ k # 0 BY <1>1
    <3>2. QED BY <1>10, <3>1
  <2>4. QED BY <2>1, <2>2, <2>3 DEF IsCrossJoin, base
<1> HIDE DEF bad, Right
<1>13. QED BY <1>2, <1>12

LEMMA CrossJoinTyped ==
  ASSUME QInv, stage = "merge"
  PROVE  CrossJoin \in Seq(Partial(in, Len(in.q.from)))
<1>1. PICK f : IsCrossJoin(f) /\ CrossJoin = f[Len(in.q.from)] BY CrossJoinRuns
<1> DEFINE n == Len(in.q.from)
<1>2. n \in Nat \ {0} BY AllFetched
<1>3. n \in 0 .. n BY <1>2
<1>4. \A k \in 0 .. n : f[k] \in Seq(Partial(in, k)) BY <1>1 DEF IsCrossJoin
<1>5. QED BY <1>1, <1>3, <1>4

LEMMA DuckJoinTyped ==
  ASSUME QInv, stage = "merge"
  PROVE  /\ DuckJoin.err \in {NoError, "join"}
         /\ DuckJoin.rows \in Seq(Partial(in, Len(in.q.from)))
<1> DEFINE X == Partial(in, Len(in.q.from))
           places == {n \in DOMAIN CrossJoin : \A k \in DOMAIN plan.links :
                        LET link == plan.links[k]
                        IN Val(CrossJoin[n][link.to], link.toCol) =
                           Val(CrossJoin[n][link.from], link.fromCol)}
<1>1. \/ DuckJoin = Joined(NoError, <<>>) \/ DuckJoin = Joined("join", <<>>)
      \/ DuckJoin = Joined(NoError, Chosen(CrossJoin, places))
  BY Zenon DEF DuckJoin
<1>2. Chosen(CrossJoin, places) \in Seq(X)
  <2>1. CrossJoin \in Seq(X) BY CrossJoinTyped
  <2>2. places \in SUBSET DOMAIN CrossJoin OBVIOUS
  <2> HIDE DEF places, X
  <2>3. QED BY <2>1, <2>2, ChosenElements
<1> HIDE DEF X, places
<1>3. \A e, r : Joined(e, r).err = e /\ Joined(e, r).rows = r BY Zenon DEF Joined
<1>4. <<>> \in Seq(X) OBVIOUS
<1>5. DuckJoin.err \in {NoError, "join"} /\ DuckJoin.rows \in Seq(X)
  <2> DEFINE d == DuckJoin
             S == Seq(X)
             c == Chosen(CrossJoin, places)
  <2>1. \/ d = Joined(NoError, <<>>) \/ d = Joined("join", <<>>)
        \/ d = Joined(NoError, c)
    BY <1>1
  <2>2. c \in S /\ <<>> \in S BY <1>2, <1>4
  <2> HIDE DEF d, S, c
  <2>3. d.err \in {NoError, "join"} /\ d.rows \in S BY ONLY <1>3, <2>1, <2>2
  <2>4. QED BY <2>3 DEF d, S
<1>6. QED BY <1>5 DEF X

LEMMA OutputAnswers ==
  ASSUME in \in Input, AcceptedIn(in), plan = PlanIn(in),
         NEW row \in Partial(in, Len(in.q.from))
  PROVE  IsAnswer(in, Output(row))
<1> DEFINE n == Len(in.q.from)
           ids == [j \in DOMAIN row |-> row[j].id]
           vals == [k \in DOMAIN plan.cols |-> Shown(plan.cols[k], row)]
<1>1. Output(row).ids = ids /\ Output(row).vals = vals
  <2>1. Output(row) = [ids |-> ids, vals |-> vals] BY DEF Output
  <2> HIDE DEF ids, vals
  <2>2. QED BY <2>1
<1>2. n \in Nat /\ DOMAIN row = 1 .. n
      /\ \A k \in 1 .. n : row[k] \in ClearedIn(in, k)
  BY InputFacts DEF Partial
<1>3. DOMAIN ids = 1 .. n /\ \A k \in 1 .. n : ids[k] = row[k].id BY <1>2
<1>4. Len(ids) = n
  <2>1. ids = [k \in 1 .. n |-> ids[k]] BY <1>2
  <2> HIDE DEF ids, n
  <2>2. QED BY <1>2, <1>3, <2>1, IsSeqFunction
<1>5. /\ DOMAIN plan.cols = DOMAIN in.q.select
      /\ \A k \in DOMAIN in.q.select : plan.cols[k] = ColumnIn(in, k)
  BY PlanFacts
<1>6. DOMAIN in.q.select = 1 .. Len(in.q.select) /\ Len(in.q.select) \in Nat
  BY InputFacts, Sequences DEF IsInput
<1>7. DOMAIN vals = 1 .. Len(in.q.select)
      /\ \A k \in DOMAIN in.q.select : vals[k] = Shown(ColumnIn(in, k), row)
  BY <1>5, <1>6
<1>8. Len(vals) = Len(in.q.select)
  <2>1. vals = [k \in 1 .. Len(in.q.select) |-> vals[k]] BY <1>5, <1>6
  <2> HIDE DEF vals
  <2>2. QED BY <1>6, <1>7, <2>1, IsSeqFunction
<1>9. \A k \in DOMAIN in.q.select : vals[k].fn = MaskIn(in, k)
  <2>1. \A c : Shown(c, row).fn = c.mask BY DEF Shown
  <2> HIDE DEF vals
  <2>2. QED BY <1>7, <2>1, Fields
<1> HIDE DEF ids, vals
<1>10. QED BY <1>1, <1>2, <1>3, <1>4, <1>8, <1>9 DEF IsAnswer

LEMMA MergeHolds == QInv /\ Merge => QInv'
<1> SUFFICES ASSUME QInv, Merge PROVE QInv' OBVIOUS
<1> DEFINE X == Partial(in, Len(in.q.from))
<1>1. /\ stage = "merge" /\ stage' = "done"
      /\ UNCHANGED <<in, plan, side, chunks, got, fetched, calls>>
  BY DEF Merge
<1>2. /\ in \in Input /\ AcceptedIn(in) /\ plan = PlanIn(in) /\ fetched # <<>>
  <2>1. Len(in.q.from) \in Nat \ {0} /\ Len(fetched) = Len(in.q.from)
    BY <1>1, AllFetched
  <2>2. fetched # <<>> BY <2>1
  <2>3. QED BY <1>1, <2>2, AllFetched
<1>3. PICK merged \in {GoJoin, DuckJoin} :
        out' = IF merged.err # NoError
               THEN [err |-> merged.err, rows |-> <<>>]
               ELSE IF merged.rows # <<>> /\ MaskUnsupported
               THEN [err |-> "mask", rows |-> <<>>]
               ELSE [err |-> NoError,
                     rows |-> [k \in DOMAIN merged.rows |-> Output(merged.rows[k])]]
  BY DEF Merge
<1>4. merged.err \in {NoError, "join"} /\ merged.rows \in Seq(X)
  BY <1>1, GoJoinTyped, DuckJoinTyped
<1> HIDE DEF X
<1>5. Answered'
  <2>1. "join" \in Error /\ "mask" \in Error BY DEF Error
  <2>2. CASE merged.err # NoError
    <3>1. merged.err \in Error BY <1>4, <2>1, <2>2
    <3>2. QED BY <1>1, <1>3, <2>2, <3>1, ErrorAnswers
  <2>3. CASE merged.err = NoError /\ merged.rows # <<>> /\ MaskUnsupported
    BY <1>1, <1>3, <2>1, <2>3, ErrorAnswers
  <2>4. CASE merged.err = NoError /\ ~(merged.rows # <<>> /\ MaskUnsupported)
    <3> DEFINE rows == [k \in DOMAIN merged.rows |-> Output(merged.rows[k])]
    <3>1. out' = [err |-> NoError, rows |-> rows] BY <1>3, <2>4
    <3>2. \A k \in DOMAIN merged.rows : IsAnswer(in, Output(merged.rows[k]))
      <4>1. \A k \in DOMAIN merged.rows : merged.rows[k] \in X BY <1>4
      <4>2. QED BY <1>2, <4>1, OutputAnswers DEF X
    <3>3. \A row \in ToSet(rows) : IsAnswer(in, row)
      BY <3>2 DEF ToSet
    <3> HIDE DEF rows
    <3>4. out'.err = NoError /\ out'.rows = rows BY <3>1, Zenon
    <3>5. QED BY <1>1, <3>3, <3>4 DEF Answered
  <2>5. QED BY <2>2, <2>3, <2>4
<1>6. Busy'
  <2>1. Busy BY <1>2 DEF QInv
  <2>2. QED BY <1>1, <2>1 DEF Busy
<1>7. QED BY <1>1, <1>2, <1>5, <1>6 DEF QInv

LEMMA QInvHolds == Spec => []QInv
<1>1. Init => QInv BY InitHolds
<1>2. QInv /\ [Next]_vars => QInv'
  <2>1. QInv /\ Next => QInv'
    <3>1. QInv /\ Done => QInv'
      BY DEF Done, vars, QInv, Idle, Busy, Answered
    <3>2. QED
      BY <3>1, TurnedAwayHolds, RefuseHolds, AdmitHolds, CannotResolveHolds,
         SourceFailsHolds, SourceRefusesHolds, MorePagesHolds,
         SourceAnswersHolds, NextSideHolds, FetchedHolds, MergeHolds DEF Next
  <2>2. QInv /\ UNCHANGED vars => QInv' BY DEF vars, QInv, Idle, Busy, Answered
  <2>3. QED BY <2>1, <2>2
<1>3. QED BY <1>1, <1>2, PTL DEF Spec

----------------------------------------------------------------------------
(* What follows for every query.                                           *)

(* Every state is well-typed: what was fetched of a side is rows of the    *)
(* server behind it, with the columns asked for, and an answer has a row   *)
(* for each side and a value for each column selected.                     *)
THEOREM TypeCorrect == Spec => []TypeOK
<1>1. QInv => TypeOK
  <2> SUFFICES ASSUME QInv PROVE TypeOK OBVIOUS
  <2>1. /\ in \in Input /\ side \in 1 .. Len(in.q.from)
        /\ stage \in {"admit", "fetch", "merge", "done"}
        /\ Answered /\ (fetched = <<>> => Idle) /\ (fetched # <<>> => Busy)
        /\ Len(in.q.from) \in Nat
    BY InputFacts DEF QInv
  <2>2. DOMAIN plan = DOMAIN NoPlan
    BY <2>1 DEF Idle, Busy, PlanIn, Build, NoPlan
  <2>3. ASSUME NEW k \in DOMAIN chunks PROVE Cardinality(DOMAIN chunks[k]) <= 1
    <3>1. IsProbe(in, side, chunks[k])
      <4>1. CASE fetched = <<>>
        <5>1. chunks = <<>> BY <2>1, <4>1 DEF Idle
        <5>2. QED BY <5>1
      <4>2. CASE fetched # <<>> BY <2>1, <4>2 DEF Busy
      <4>3. QED BY <4>1, <4>2
    <3>2. DOMAIN chunks[k] = {} \/ \E c : DOMAIN chunks[k] = {c}
      BY <3>1 DEF IsProbe
    <3> DEFINE d == DOMAIN chunks[k]
    <3> HIDE DEF d
    <3>3. CASE d = {}
      <4>1. Cardinality(d) = 0 BY <3>3, FS_EmptySet
      <4>2. QED BY <4>1 DEF d
    <3>4. CASE \E c : d = {c}
      <4>1. PICK c : d = {c} BY <3>4
      <4>2. Cardinality(d) = 1 BY <4>1, FS_Singleton
      <4>3. QED BY <4>2 DEF d
    <3>5. QED BY <3>2, <3>3, <3>4 DEF d
  <2>4. got # <<>> => chunks # <<>> BY <2>1 DEF Idle, Busy
  <2>5. /\ Len(fetched) <= Len(in.q.from)
        /\ \A i \in DOMAIN fetched :
             ToSet(fetched[i]) \subseteq {Cells(r, plan.sides[i].project) : r \in Data(i)}
    <3>1. CASE fetched = <<>>
      <4>1. Len(fetched) = 0 /\ DOMAIN fetched = {} BY <3>1
      <4>2. QED BY <2>1, <4>1
    <3>2. CASE fetched # <<>>
      <4>1. /\ plan = PlanIn(in) /\ IsSequence(fetched) /\ Len(fetched) = side
            /\ \A k \in 1 .. side : fetched[k] \in Seq(ClearedIn(in, k))
        BY <2>1, <3>2 DEF Busy
      <4>2. DOMAIN fetched = 1 .. side BY <4>1, Sequences
      <4>3. ASSUME NEW i \in 1 .. side
            PROVE  ToSet(fetched[i]) \subseteq
                     {Cells(r, plan.sides[i].project) : r \in Data(i)}
        <5>1. i \in 1 .. Len(in.q.from) BY <2>1
        <5>2. plan.sides[i].project = ScanProject(in.q, in.cat, DocIn(in), i)
          BY <2>1, <4>1, <5>1, PlanFacts, Fields
        <5>3. RowsIn(in, i) = {Cells(r, plan.sides[i].project) : r \in Data(i)}
          BY <5>2 DEF RowsIn, SentBy, TableOfIn, Data
        <5>4. fetched[i] \in Seq(ClearedIn(in, i)) BY <4>1
        <5>5. ToSet(fetched[i]) \subseteq ClearedIn(in, i) BY <5>4 DEF ToSet
        <5>6. ClearedIn(in, i) \subseteq RowsIn(in, i) BY DEF ClearedIn
        <5>7. QED BY <5>3, <5>5, <5>6
      <4>4. QED BY <2>1, <4>1, <4>2, <4>3
    <3>3. QED BY <3>1, <3>2
  <2>6. /\ out.err \in Error \cup {NoError}
        /\ \A row \in ToSet(out.rows) :
             Len(row.ids) = Len(in.q.from) /\ Len(row.vals) = Len(in.q.select)
    BY <2>1 DEF Answered, IsAnswer
  <2>7. QED BY <2>1, <2>2, <2>3, <2>4, <2>5, <2>6 DEF TypeOK
<1>2. QED BY <1>1, QInvHolds, PTL

(* No call leaves for a caller who is not known, has no role, has a role   *)
(* without a policy, or is denied one of the tables of the query.          *)
THEOREM DeniedReadsNothing == Spec => []DeniedQueryReadsNothing
<1>1. QInv => DeniedQueryReadsNothing
  <2> SUFFICES ASSUME QInv, calls # <<>>
               PROVE  /\ in.token.bearer /\ in.token.iss \in DOMAIN Registry
                      /\ HasRole # {} /\ RoleOwed \in DOMAIN Policy
                      /\ \A i \in SidesOf(in.q) :
                           TableAt(in.q, i) \notin Policy[RoleOwed].deny
    BY DEF DeniedQueryReadsNothing
  <2>1. in \in Input /\ AcceptedIn(in) BY DEF QInv, Idle, Busy
  <2>2. QED BY <2>1, RoleIsOwed
<1>2. QED BY <1>1, QInvHolds, PTL

(* No probe has more keys than the catalog says its connector takes,       *)
(* however many rows the side before it has.                               *)
THEOREM ProbesAreSmall == Spec => []CallsFit
<1>1. QInv => CallsFit
  <2> SUFFICES ASSUME QInv PROVE CallsFit OBVIOUS
  <2>1. \A c \in DOMAIN calls : IsCall(in, calls[c])
    <3>1. CASE fetched = <<>>
      <4>1. calls = <<>> BY <3>1 DEF QInv, Idle
      <4>2. QED BY <4>1
    <3>2. CASE fetched # <<>> BY <3>2 DEF QInv, Busy
    <3>3. QED BY <3>1, <3>2
  <2>2. QED BY <2>1 DEF CallsFit, IsCall, Fits, LinkIn
<1>2. QED BY <1>1, QInvHolds, PTL

(* The probes depend on which keys the build side has, never on the order  *)
(* in which its source sent them.                                          *)
THEOREM ProbesAreStable == Spec => []ProbesIgnoreRowOrder
<1>1. ASSUME NEW rows, NEW col,
             NEW order \in Bijection(DOMAIN rows, DOMAIN rows)
      PROVE  DistinctValues([k \in DOMAIN rows |-> rows[order[k]]], col)
             = DistinctValues(rows, col)
  <2> DEFINE other == [k \in DOMAIN rows |-> rows[order[k]]]
             all(some) == {Val(some[k], col) : k \in DOMAIN some}
  <2>1. /\ order \in [DOMAIN rows -> DOMAIN rows]
        /\ \A k \in DOMAIN rows : \E j \in DOMAIN rows : order[j] = k
    BY DEF Bijection, Injection, Surjection
  <2>2. DOMAIN other = DOMAIN rows
        /\ \A k \in DOMAIN rows : other[k] = rows[order[k]]
    OBVIOUS
  <2> HIDE DEF other
  <2>3. all(other) = all(rows)
    <3>1. \A k \in DOMAIN other : \E j \in DOMAIN rows : other[k] = rows[j]
      BY <2>1, <2>2
    <3>2. \A k \in DOMAIN rows : \E j \in DOMAIN other : other[j] = rows[k]
      BY <2>1, <2>2
    <3>3. QED BY <3>1, <3>2
  <2>4. \A some : DistinctValues(some, col) = SetToSeq(all(some) \ {Empty})
    BY DEF DistinctValues
  <2> HIDE DEF all
  <2>5. DistinctValues(other, col) = DistinctValues(rows, col) BY <2>3, <2>4
  <2>6. QED BY <2>5 DEF other
<1>2. ProbesIgnoreRowOrder
  <2> DEFINE link == plan.links[side - 1]
             rows == fetched[link.from]
             probes(some) == ChunksFor(DistinctValues(some, link.fromCol), link)
  <2>1. ASSUME NEW order \in Bijection(DOMAIN rows, DOMAIN rows)
        PROVE  probes([k \in DOMAIN rows |-> rows[order[k]]]) = probes(rows)
    <3>1. DistinctValues([k \in DOMAIN rows |-> rows[order[k]]], link.fromCol)
          = DistinctValues(rows, link.fromCol)
      <4> HIDE DEF rows, link
      <4>1. QED BY <1>1
    <3>2. QED BY <3>1, Zenon
  <2>2. QED BY <2>1, Zenon DEF ProbesIgnoreRowOrder
<1>3. QED BY <1>2, PTL

(* A residual is a predicate of the document.                              *)
LEMMA ResidualFacts ==
  ASSUME EqualityResiduals, in \in Input, AcceptedIn(in),
         NEW k \in 1 .. Len(in.q.from), NEW f \in Rls(k)
  PROVE  /\ f.op = "=" /\ f.val[1] \in {"attr", "lit"}
         /\ \E j \in DOMAIN FiltersIn(in, k) :
              /\ FiltersIn(in, k)[j].origin = "security"
              /\ FiltersIn(in, k)[j].col = f.col /\ FiltersIn(in, k)[j].val = f.val
              /\ f.col \in ScanProject(in.q, in.cat, DocIn(in), k)
<1> DEFINE doc == DocIn(in)
           table == TableAt(in.q, k)
           places == {j \in DOMAIN doc.rls : doc.rls[j].table = table}
<1>1. doc = Policy[RoleOwed] /\ RoleOwed \in DOMAIN Policy BY RoleIsOwed
<1>2. IsPolicy(doc) BY AcceptedDoc
<1>3. doc.rls \in Seq(ToSet(doc.rls)) BY <1>2, SequenceOf DEF IsPolicy
<1>4. f \in ToSet(Residuals(doc, table)) BY <1>1 DEF Rls
<1>5. PICK j \in DOMAIN doc.rls : f = doc.rls[j]
  <2>1. Residuals(doc, table) = Chosen(doc.rls, places) BY DEF Residuals
  <2>2. places \in SUBSET DOMAIN doc.rls OBVIOUS
  <2> HIDE DEF places, doc, table
  <2>3. \A n \in DOMAIN Residuals(doc, table) :
          \E m \in places : Residuals(doc, table)[n] = doc.rls[m]
    BY <1>3, <2>1, <2>2, ChosenElements
  <2>4. QED BY <1>4, <2>2, <2>3 DEF ToSet
<1>6. f.op = "=" BY <1>1, <1>5 DEF EqualityResiduals, EqualityIn
<1>7. f.val[1] \in {"attr", "lit"} BY <1>2, <1>5 DEF IsPolicy
<1>8. PICK m \in DOMAIN FiltersIn(in, k) :
        /\ FiltersIn(in, k)[m].origin = "security"
        /\ FiltersIn(in, k)[m].col = f.col /\ FiltersIn(in, k)[m].val = f.val
  <2>1. IsFilteredBy(in, k, f) BY <1>4, FilterFacts
  <2>2. QED BY <2>1 DEF IsFilteredBy
<1>9. f.col \in ScanProject(in.q, in.cat, DocIn(in), k) BY <1>8, FilterFacts
<1>10. QED BY <1>6, <1>7, <1>8, <1>9

(* The ghost of a row that was sent is that of one row of the table, with  *)
(* the same cells as far as they were asked for.                           *)
LEMMA RowBehind ==
  ASSUME in \in Input, AcceptedIn(in), NEW k \in 1 .. Len(in.q.from),
         NEW r \in RowsIn(in, k),
         NEW c \in ScanProject(in.q, in.cat, DocIn(in), k)
  PROVE  Val(RowOf(k, r.id), c) = Val(r, c)
<1> DEFINE server == TableOfIn(in, k)
           fields == ScanProject(in.q, in.cat, DocIn(in), k)
<1>1. IsServer(server)
  <2>1. SidesOf(in.q) = 1 .. Len(in.q.from) BY InputFacts
  <2>2. TableAt(in.q, k) \in ParseTables(in.q) BY <2>1 DEF ParseTables
  <2>3. TableAt(in.q, k) \in DOMAIN in.server
    BY <2>2, InputFacts DEF AcceptedIn, IsInput
  <2>4. QED BY <2>3, InputFacts DEF IsInput, TableOfIn
<1>2. PICK d \in ToSet(server.rows) : r = Cells(d, fields)
  BY DEF RowsIn, SentBy
<1>3. r.id = d.id /\ r.vals = [a \in fields |-> Val(d, a)]
  BY <1>2 DEF Cells
<1>4. Data(k) = ToSet(server.rows) BY DEF Data, TableOfIn
<1>5. RowOf(k, r.id) = d
  <2>1. \A e \in ToSet(server.rows) : e.id = d.id => e = d
    BY <1>1, <1>2 DEF IsServer, ToSet
  <2>2. RowOf(k, r.id) \in Data(k) /\ RowOf(k, r.id).id = d.id
    BY <1>2, <1>3, <1>4 DEF RowOf
  <2>3. QED BY <1>4, <2>1, <2>2
<1>6. Val(r, c) = Val(d, c)
  <2>1. c \in DOMAIN r.vals /\ r.vals[c] = Val(d, c)
    <3> HIDE DEF fields
    <3>1. c \in fields BY DEF fields
    <3>2. QED BY <1>3, <3>1
  <2>2. QED BY <2>1 DEF Val
<1>7. QED BY <1>5, <1>6

(* A row that was kept is one that the caller may see.                     *)
LEMMA ClearedAreEntitled ==
  ASSUME EqualityResiduals, in \in Input, AcceptedIn(in),
         NEW k \in 1 .. Len(in.q.from), NEW r \in ClearedIn(in, k),
         NEW f \in Rls(k)
  PROVE  Entitled(RowOf(k, r.id), f)
<1>1. f.op = "=" /\ f.val[1] \in {"attr", "lit"} BY ResidualFacts
<1>2. PICK j \in DOMAIN FiltersIn(in, k) :
        /\ FiltersIn(in, k)[j].origin = "security"
        /\ FiltersIn(in, k)[j].col = f.col /\ FiltersIn(in, k)[j].val = f.val
        /\ f.col \in ScanProject(in.q, in.cat, DocIn(in), k)
  BY ResidualFacts
<1>3. r \in RowsIn(in, k) /\ Clears(in, FiltersIn(in, k)[j], r)
  BY <1>2 DEF ClearedIn
<1>4. Val(RowOf(k, r.id), f.col) = Val(r, f.col) BY <1>2, <1>3, RowBehind
<1>5. HasValue(in, f) /\ Val(r, f.col) = WantIn(in, f)
  BY <1>2, <1>3 DEF Clears, HasValue, WantIn
<1>6. CASE f.val[1] = "attr"
  <2>1. f.val[2] \in DOMAIN PrincipalIn(in).attrs BY <1>5, <1>6 DEF HasValue
  <2>2. /\ SetBy(f.val[2]) # {}
        /\ PrincipalIn(in).attrs[f.val[2]] = AttrOwed(f.val[2])
    BY <2>1, AttrIsOwed
  <2>3. WantIn(in, f) = AttrOwed(f.val[2]) BY <1>6, <2>2 DEF WantIn
  <2>4. QED BY <1>1, <1>4, <1>5, <1>6, <2>2, <2>3 DEF Entitled, Sat
<1>7. CASE f.val[1] = "lit"
  <2>1. WantIn(in, f) = f.val[2] BY <1>7 DEF WantIn
  <2>2. QED BY <1>1, <1>4, <1>5, <1>7, <2>1 DEF Entitled, Sat
<1>8. QED BY <1>1, <1>6, <1>7

(* A column that the policy masks has a mask in the plan.                  *)
LEMMA MasksApply ==
  ASSUME in \in Input, AcceptedIn(in), NEW table, NEW col,
         col \in MaskCols(DocIn(in), table)
  PROVE  MaskFor(DocIn(in), table, col) # "none"
<1> DEFINE doc == DocIn(in)
           rules == {k \in DOMAIN doc.cls : doc.cls[k].table = table
                                             /\ doc.cls[k].col = col}
<1>1. IsPolicy(doc) BY AcceptedDoc
<1>2. DOMAIN doc.cls = 1 .. Len(doc.cls) /\ Len(doc.cls) \in Nat
  BY <1>1, Sequences DEF IsPolicy
<1>3. rules # {} BY DEF MaskCols
<1>4. MaskFor(doc, table, col) = doc.cls[Latest(rules)].fn
  BY <1>3 DEF MaskFor
<1>5. Latest(rules) \in DOMAIN doc.cls
  <2>1. rules \in SUBSET DOMAIN doc.cls OBVIOUS
  <2> HIDE DEF rules, doc
  <2>2. IsLast(rules, Latest(rules)) BY <1>2, <1>3, <2>1, HasLast
  <2>3. QED BY <2>1, <2>2 DEF IsLast
<1>6. QED BY <1>1, <1>4, <1>5 DEF IsPolicy

(* What comes out is what the caller may see, under a policy of equalities *)
(* and over sources that send whatever rows they like: each row behind an  *)
(* output row satisfies the residuals of its table for the role and the    *)
(* attributes of the caller's groups, and masked columns are masked.       *)
THEOREM AnswersAreEntitled ==
  ASSUME EqualityResiduals
  PROVE  Spec => []EntitledOutput
<1>1. QInv => EntitledOutput
  <2> SUFFICES ASSUME QInv, NEW row \in ToSet(out.rows)
               PROVE  /\ \A i \in DOMAIN row.ids : \A f \in Rls(i) :
                           Entitled(RowOf(i, row.ids[i]), f)
                      /\ \A k \in DOMAIN in.q.select :
                           in.q.select[k].col \in
                             MaskCols(Policy[RoleOwed],
                               TableAt(in.q, SideOf(in.q, in.q.select[k].alias)))
                           => row.vals[k].fn # "none"
    BY DEF EntitledOutput
  <2>1. in \in Input /\ IsAnswer(in, row) BY DEF QInv, Answered
  <2>2. /\ AcceptedIn(in) /\ DOMAIN row.ids = 1 .. Len(in.q.from)
        /\ \A i \in 1 .. Len(in.q.from) :
             \E r \in ClearedIn(in, i) : row.ids[i] = r.id
        /\ \A k \in DOMAIN in.q.select : row.vals[k].fn = MaskIn(in, k)
    BY <2>1 DEF IsAnswer
  <2>3. DocIn(in) = Policy[RoleOwed] BY <2>1, <2>2, RoleIsOwed
  <2>4. ASSUME NEW i \in DOMAIN row.ids, NEW f \in Rls(i)
        PROVE  Entitled(RowOf(i, row.ids[i]), f)
    BY <2>1, <2>2, ClearedAreEntitled
  <2>5. ASSUME NEW k \in DOMAIN in.q.select,
               in.q.select[k].col \in
                 MaskCols(Policy[RoleOwed],
                   TableAt(in.q, SideOf(in.q, in.q.select[k].alias)))
        PROVE  row.vals[k].fn # "none"
    BY <2>1, <2>2, <2>3, <2>5, MasksApply DEF MaskIn
  <2>6. QED BY <2>4, <2>5
<1>2. QED BY <1>1, QInvHolds, PTL

----------------------------------------------------------------------------
(* The two engines.  A joined row is made of a row of each side, and each  *)
(* of these is at some place among the rows fetched: a pick is a place for *)
(* each of the first m sides.  Both engines list the same picks, each one  *)
(* once, so that a row comes out of both as many times.                    *)

(* The places of all the elements of the sequences in a sequence.          *)
PlacesOf(seqs, i) ==
  {x \in (1 .. i) \X Nat : x[2] \in DOMAIN seqs[x[1]]}

(* s has each element at these places once, where c says it is from.       *)
Takes(c, s, places, seqs) ==
  /\ c \in Bijection(DOMAIN s, places)
  /\ \A n \in DOMAIN s : s[n] = seqs[c[n][1]][c[n][2]]

LEMMA TakesOneMore ==
  ASSUME NEW X, NEW seqs, NEW i \in Nat \ {0}, NEW s \in Seq(X),
         seqs[i] \in Seq(X), NEW c, Takes(c, s, PlacesOf(seqs, i - 1), seqs)
  PROVE  \E d : Takes(d, s \o seqs[i], PlacesOf(seqs, i), seqs)
<1> DEFINE t == seqs[i]
           P == PlacesOf(seqs, i - 1)
           Q == PlacesOf(seqs, i)
           N == Len(s)
           d == [n \in DOMAIN (s \o t) |-> IF n <= N THEN c[n] ELSE <<i, n - N>>]
<1>1. /\ N \in Nat /\ DOMAIN s = 1 .. N
      /\ Len(t) \in Nat /\ DOMAIN t = 1 .. Len(t)
      /\ DOMAIN (s \o t) = 1 .. N + Len(t)
      /\ \A n \in 1 .. N : (s \o t)[n] = s[n]
      /\ \A n \in 1 .. N + Len(t) : ~(n <= N) => (s \o t)[n] = t[n - N]
  OBVIOUS
<1>2. /\ c \in [1 .. N -> P]
      /\ \A m, n \in 1 .. N : c[m] = c[n] => m = n
      /\ \A x \in P : \E n \in 1 .. N : c[n] = x
      /\ \A n \in 1 .. N : s[n] = seqs[c[n][1]][c[n][2]]
  <2>1. c \in Bijection(DOMAIN s, P)
        /\ \A n \in DOMAIN s : s[n] = seqs[c[n][1]][c[n][2]]
    BY DEF Takes
  <2> HIDE DEF P, N, t, d
  <2>2. /\ c \in [DOMAIN s -> P]
        /\ \A m, n \in DOMAIN s : c[m] = c[n] => m = n
        /\ \A x \in P : \E n \in DOMAIN s : c[n] = x
    BY <2>1, Fun_BijectionProperties
  <2>3. QED BY <1>1, <2>1, <2>2
<1>3. /\ \A x \in P : x \in Q /\ x[1] # i
      /\ \A m \in DOMAIN t : <<i, m>> \in Q
      /\ \A x \in Q : x \in P \/ \E m \in DOMAIN t : x = <<i, m>>
  <2>1. \A x \in P : x \in Q /\ x[1] # i BY DEF PlacesOf
  <2>2. \A m \in DOMAIN t : <<i, m>> \in Q BY <1>1 DEF PlacesOf
  <2>3. ASSUME NEW x \in Q, x \notin P PROVE \E m \in DOMAIN t : x = <<i, m>>
    <3>1. x \in (1 .. i) \X Nat /\ x[2] \in DOMAIN seqs[x[1]] BY DEF PlacesOf
    <3>2. x[1] \notin 1 .. i - 1 BY <2>3, <3>1 DEF PlacesOf
    <3>3. x[1] = i BY <3>1, <3>2
    <3>4. x = <<i, x[2]>> /\ x[2] \in DOMAIN t BY <3>1, <3>3
    <3>5. QED BY <3>4
  <2>4. QED BY <2>1, <2>2, <2>3
<1> HIDE DEF P, Q, t, N
<1> DEFINE places == 1 .. N + Len(t)
<1>4. /\ \A n \in 1 .. N : n \in places /\ d[n] = c[n]
      /\ \A m \in 1 .. Len(t) : m + N \in places /\ d[m + N] = <<i, m>>
      /\ \A n \in places :
           n \in 1 .. N \/ (n - N \in 1 .. Len(t) /\ ~(n <= N) /\ n = (n - N) + N)
  <2>1. d = [n \in places |-> IF n <= N THEN c[n] ELSE <<i, n - N>>] BY <1>1
  <2> HIDE DEF d
  <2>2. ASSUME NEW n \in 1 .. N PROVE n \in places /\ d[n] = c[n]
    BY <1>1, <2>1
  <2>3. ASSUME NEW m \in 1 .. Len(t)
        PROVE  m + N \in places /\ d[m + N] = <<i, m>>
    <3>1. m + N \in places /\ ~(m + N <= N) /\ (m + N) - N = m BY <1>1
    <3>2. QED BY <2>1, <3>1
  <2>4. ASSUME NEW n \in places
        PROVE  n \in 1 .. N \/ (n - N \in 1 .. Len(t) /\ ~(n <= N) /\ n = (n - N) + N)
    <3> DEFINE L == Len(t)
    <3>1. N \in Nat /\ L \in Nat /\ n \in 1 .. N + L BY <1>1
    <3> HIDE DEF L, places
    <3>2. n \in Nat /\ 1 <= n /\ n <= N + L BY <3>1
    <3>3. CASE n <= N BY <3>1, <3>2, <3>3
    <3>4. CASE ~(n <= N)
      <4>1. n - N \in 1 .. L /\ n = (n - N) + N BY <3>1, <3>2, <3>4
      <4>2. QED BY <3>4, <4>1 DEF L
    <3>5. QED BY <3>3, <3>4
  <2>5. QED BY <2>2, <2>3, <2>4
<1>5. d \in [places -> Q]
  <2>1. \A n \in places : d[n] \in Q
    <3> SUFFICES ASSUME NEW n \in places PROVE d[n] \in Q OBVIOUS
    <3> HIDE DEF d, places
    <3>1. CASE n \in 1 .. N
      <4>1. d[n] = c[n] /\ c[n] \in P BY <1>2, <1>4, <3>1
      <4>2. QED BY <1>3, <4>1
    <3>2. CASE n \notin 1 .. N
      <4>1. n - N \in 1 .. Len(t) /\ n = (n - N) + N BY <1>4, <3>2
      <4>2. d[n] = <<i, n - N>> BY <1>4, <4>1
      <4>3. QED BY <1>1, <1>3, <4>1, <4>2
    <3>3. QED BY <3>1, <3>2
  <2>2. DOMAIN d = places /\ d = [n \in DOMAIN d |-> d[n]] BY <1>1
  <2> HIDE DEF d, places
  <2>3. QED BY <2>1, <2>2
<1> HIDE DEF d
<1>6. ASSUME NEW m \in places, NEW n \in places, d[m] = d[n]
      PROVE  m = n
  <2>1. ASSUME NEW k \in places
        PROVE  \/ k \in 1 .. N /\ d[k] = c[k] /\ d[k][1] # i
               \/ k - N \in 1 .. Len(t) /\ d[k] = <<i, k - N>> /\ k \notin 1 .. N
    <3> HIDE DEF places
    <3>1. CASE k \in 1 .. N
      <4>1. d[k] = c[k] /\ c[k] \in P BY <1>2, <1>4, <3>1
      <4>2. QED BY <1>3, <3>1, <4>1
    <3>2. CASE k \notin 1 .. N
      <4>1. k - N \in 1 .. Len(t) /\ k = (k - N) + N BY <1>4, <3>2
      <4>2. d[k] = <<i, k - N>> BY <1>4, <4>1
      <4>3. QED BY <3>2, <4>1, <4>2
    <3>3. QED BY <3>1, <3>2
  <2>2. m \in Int /\ n \in Int /\ N \in Int BY <1>1
  <2> HIDE DEF places
  <2>3. CASE m \in 1 .. N /\ n \in 1 .. N
    <3>1. c[m] = c[n] BY <1>6, <2>1, <2>3
    <3>2. QED BY <1>2, <2>3, <3>1
  <2>4. CASE m \notin 1 .. N /\ n \notin 1 .. N
    <3>1. d[m] = <<i, m - N>> /\ d[n] = <<i, n - N>> BY <2>1, <2>4
    <3>2. d[m][2] = m - N /\ d[n][2] = n - N BY <3>1
    <3>3. m - N = n - N BY <1>6, <3>2
    <3>4. QED BY <2>2, <3>3
  <2>5. CASE ~(m \in 1 .. N <=> n \in 1 .. N)
    <3>1. \A k \in places : k \notin 1 .. N => d[k][1] = i BY <2>1
    <3>2. \A k \in places : k \in 1 .. N => d[k][1] # i BY <2>1
    <3>3. QED BY <1>6, <2>5, <3>1, <3>2
  <2>6. QED BY <2>3, <2>4, <2>5
<1>7. ASSUME NEW x \in Q PROVE \E n \in places : d[n] = x
  <2> HIDE DEF places
  <2>1. CASE x \in P
    <3>1. PICK n \in 1 .. N : c[n] = x BY <1>2, <2>1
    <3>2. QED BY <1>4, <3>1
  <2>2. CASE \E m \in DOMAIN t : x = <<i, m>>
    <3>1. PICK m \in 1 .. Len(t) : x = <<i, m>> BY <1>1, <2>2
    <3>2. QED BY <1>4, <3>1
  <2>3. QED BY <1>3, <2>1, <2>2
<1>8. ASSUME NEW n \in places PROVE (s \o t)[n] = seqs[d[n][1]][d[n][2]]
  <2> HIDE DEF places
  <2>1. CASE n \in 1 .. N
    <3>1. d[n] = c[n] /\ (s \o t)[n] = s[n] BY <1>1, <1>4, <2>1
    <3>2. QED BY <1>2, <2>1, <3>1
  <2>2. CASE n \notin 1 .. N
    <3>1. n - N \in 1 .. Len(t) /\ ~(n <= N) /\ n = (n - N) + N
      BY <1>4, <2>2
    <3>2. d[n] = <<i, n - N>> /\ (s \o t)[n] = t[n - N]
      BY <1>1, <1>4, <3>1 DEF places
    <3>3. QED BY <3>2 DEF t
  <2>3. QED BY <2>1, <2>2
<1>9. DOMAIN (s \o t) = places BY <1>1
<1> HIDE DEF places
<1>10. Takes(d, s \o t, Q, seqs)
  <2>1. d \in Bijection(places, Q) BY <1>5, <1>6, <1>7, Fun_IsBij
  <2>2. QED BY <1>8, <1>9, <2>1 DEF Takes
<1>11. QED BY <1>10 DEF t, Q

LEMMA FlattenTakes ==
  ASSUME NEW X, NEW seqs \in Seq(Seq(X))
  PROVE  \E c : Takes(c, FlattenSeq(seqs), PlacesOf(seqs, Len(seqs)), seqs)
<1> DEFINE n == Len(seqs)
<1>1. n \in Nat /\ \A i \in 1 .. n : seqs[i] \in Seq(X) OBVIOUS
<1>2. \E c : Takes(c, <<>>, PlacesOf(seqs, 0), seqs)
  <2> DEFINE c == [k \in {} |-> k]
  <2>1. PlacesOf(seqs, 0) = {} /\ DOMAIN <<>> = {} BY DEF PlacesOf
  <2>2. c \in [{} -> {}] OBVIOUS
  <2>3. c \in Bijection({}, {}) BY <2>2, Fun_IsBij
  <2>4. Takes(c, <<>>, PlacesOf(seqs, 0), seqs) BY <2>1, <2>3 DEF Takes
  <2> HIDE DEF c
  <2>5. QED BY <2>4
<1>3. CASE Len(seqs) = 0
  <2>1. FlattenSeq(seqs) = seqs BY <1>3 DEF FlattenSeq
  <2>2. seqs = <<>> BY <1>3
  <2>3. QED BY <1>2, <1>3, <2>1, <2>2
<1>4. CASE Len(seqs) # 0
  <2>1. PICK g : IsFlat(g, X, seqs) /\ FlattenSeq(seqs) = g[n]
    BY <1>4, FlattenRuns
  <2>2. /\ g[1] = seqs[1] /\ \A i \in 2 .. n : g[i] = g[i - 1] \o seqs[i]
        /\ \A i \in 1 .. n : g[i] \in Seq(X)
    BY <2>1 DEF IsFlat
  <2> DEFINE Taken(i) == \E c : Takes(c, g[i], PlacesOf(seqs, i), seqs)
             bad == {i \in 1 .. n : ~Taken(i)}
  <2>3. bad = {}
    <3> SUFFICES ASSUME bad # {} PROVE FALSE OBVIOUS
    <3>1. bad \in SUBSET Nat BY <1>1
    <3>2. PICK i \in Nat : IsFirst(bad, i)
      <4> HIDE DEF bad
      <4>1. QED BY <3>1, HasFirst
    <3>3. i \in 1 .. n /\ ~Taken(i) /\ \A j \in bad : ~(j < i)
      BY <3>2 DEF IsFirst
    <3>4. CASE i = 1
      <4>1. <<>> \in Seq(X) /\ <<>> \o seqs[1] = seqs[1] /\ seqs[1] \in Seq(X)
        BY <1>1, <3>3, <3>4
      <4>2. PICK c : Takes(c, <<>>, PlacesOf(seqs, 0), seqs) BY <1>2
      <4>3. PICK d : Takes(d, <<>> \o seqs[1], PlacesOf(seqs, 1), seqs)
        <5> DEFINE k == 1
        <5>1. k \in Nat \ {0} /\ k - 1 = 0 OBVIOUS
        <5> HIDE DEF k
        <5>2. \E d : Takes(d, <<>> \o seqs[k], PlacesOf(seqs, k), seqs)
          BY <4>1, <4>2, <5>1, TakesOneMore DEF k
        <5>3. QED BY <5>2 DEF k
      <4>4. QED BY <2>2, <3>3, <3>4, <4>1, <4>3
    <3>5. CASE i # 1
      <4>1. i - 1 \in 1 .. n /\ i - 1 < i /\ i \in 2 .. n /\ i \in Nat \ {0}
        BY <1>1, <3>3, <3>5
      <4>2. Taken(i - 1)
        <5>1. i - 1 \notin bad BY <3>3, <4>1
        <5>2. QED BY <4>1, <5>1
      <4>3. PICK c : Takes(c, g[i - 1], PlacesOf(seqs, i - 1), seqs) BY <4>2
      <4>4. g[i - 1] \in Seq(X) /\ seqs[i] \in Seq(X) BY <1>1, <2>2, <3>3, <4>1
      <4>5. \E d : Takes(d, g[i - 1] \o seqs[i], PlacesOf(seqs, i), seqs)
        BY <4>1, <4>3, <4>4, TakesOneMore
      <4>6. QED BY <2>2, <3>3, <4>1, <4>5
    <3>6. QED BY <3>4, <3>5
  <2>4. n \in 1 .. n BY <1>1, <1>4
  <2>5. Taken(n) BY <2>3, <2>4
  <2>6. QED BY <2>1, <2>5
<1>5. QED BY <1>3, <1>4

(* A pick of the first m sides, the row that it makes, and the picks that  *)
(* the links between those sides allow.                                    *)
Picks(m) ==
  {p \in Seq(Nat) : Len(p) = m /\ \A j \in 1 .. m : p[j] \in DOMAIN fetched[j]}

RowsAt(p) == [j \in DOMAIN p |-> fetched[j][p[j]]]

Holds(p, link) ==
  Val(fetched[link.from][p[link.from]], link.fromCol) =
    Val(fetched[link.to][p[link.to]], link.toCol)

Hits(m) == {p \in Picks(m) : \A k \in 1 .. m - 1 : Holds(p, plan.links[k])}

(* s has the rows that these picks make, once for each pick.               *)
Lists(b, s, picks) ==
  /\ b \in Bijection(DOMAIN s, picks)
  /\ \A n \in DOMAIN s : s[n] = RowsAt(b[n])

LEMMA TakenLists ==
  ASSUME NEW c, NEW s, NEW places, NEW seqs, Takes(c, s, places, seqs),
         NEW picks, NEW g \in Bijection(places, picks),
         \A x \in places : seqs[x[1]][x[2]] = RowsAt(g[x])
  PROVE  \E b : Lists(b, s, picks)
<1> DEFINE b == [n \in DOMAIN s |-> g[c[n]]]
<1>1. c \in Bijection(DOMAIN s, places)
      /\ \A n \in DOMAIN s : s[n] = seqs[c[n][1]][c[n][2]]
  BY DEF Takes
<1>2. b \in Bijection(DOMAIN s, picks) BY <1>1, Fun_BijTransitive
<1>3. \A n \in DOMAIN s : c[n] \in places BY <1>1, Fun_BijectionProperties
<1>4. \A n \in DOMAIN s : s[n] = RowsAt(b[n]) BY <1>1, <1>3
<1> HIDE DEF b
<1>5. QED BY <1>2, <1>4 DEF Lists

LEMMA ChosenPlaces ==
  ASSUME NEW X, NEW s \in Seq(X), NEW places \in SUBSET DOMAIN s
  PROVE  LET nth == [n \in DOMAIN Chosen(s, places) |-> Nth(places, n)]
         IN /\ nth \in Bijection(DOMAIN Chosen(s, places), places)
            /\ \A n \in DOMAIN Chosen(s, places) : Chosen(s, places)[n] = s[nth[n]]
<1> DEFINE D == DOMAIN Chosen(s, places)
           nth == [n \in D |-> Nth(places, n)]
<1>1. Len(s) \in Nat /\ places \in SUBSET (1 .. Len(s)) OBVIOUS
<1>2. /\ D = 1 .. Cardinality(places)
      /\ \A n \in 1 .. Cardinality(places) : Chosen(s, places)[n] = s[Nth(places, n)]
  BY DEF Chosen
<1> HIDE DEF D
<1>3. \A n \in D : Nth(places, n) \in places
                   /\ Cardinality(UpTo(places, Nth(places, n))) = n
  BY <1>1, <1>2, NthExists
<1>4. \A k \in places : \E n \in D : Nth(places, n) = k
  BY <1>1, <1>2, NthInverse
<1>5. nth \in [D -> places] BY <1>3
<1>6. \A a, b \in D : nth[a] = nth[b] => a = b BY <1>3
<1>7. \A k \in places : \E n \in D : nth[n] = k BY <1>4
<1>8. \A n \in D : Chosen(s, places)[n] = s[nth[n]] BY <1>2
<1> HIDE DEF nth
<1>9. nth \in Bijection(D, places) BY <1>5, <1>6, <1>7, Fun_IsBij
<1>10. QED BY <1>8, <1>9 DEF nth, D

LEMMA PickGrows ==
  ASSUME NEW m \in Nat, DOMAIN fetched[m + 1] \subseteq Nat,
         NEW p \in Picks(m), NEW r \in DOMAIN fetched[m + 1]
  PROVE  /\ Append(p, r) \in Picks(m + 1)
         /\ Append(p, r)[m + 1] = r
         /\ \A j \in 1 .. m : Append(p, r)[j] = p[j]
         /\ RowsAt(p) \in Seq(ToSet(RowsAt(p))) /\ Len(RowsAt(p)) = m
         /\ RowsAt(Append(p, r)) = Append(RowsAt(p), fetched[m + 1][r])
<1> DEFINE q == Append(p, r)
           s == RowsAt(p)
           row == fetched[m + 1][r]
<1>1. p \in Seq(Nat) /\ Len(p) = m /\ \A j \in 1 .. m : p[j] \in DOMAIN fetched[j]
  BY DEF Picks
<1>2. DOMAIN p = 1 .. m /\ r \in Nat BY <1>1
<1>3. /\ q \in Seq(Nat) /\ Len(q) = m + 1 /\ DOMAIN q = 1 .. m + 1
      /\ q[m + 1] = r /\ \A j \in 1 .. m : q[j] = p[j]
  BY <1>1, <1>2
<1> HIDE DEF q
<1>4. \A j \in 1 .. m + 1 : j \in 1 .. m \/ j = m + 1 OBVIOUS
<1>5. q \in Picks(m + 1)
  <2>1. \A j \in 1 .. m + 1 : q[j] \in DOMAIN fetched[j] BY <1>1, <1>3, <1>4
  <2>2. QED BY <1>3, <2>1 DEF Picks
<1>6. s \in Seq(ToSet(s)) /\ Len(s) = m
  <2>1. DOMAIN s = 1 .. m /\ s = [j \in 1 .. m |-> s[j]] BY <1>2 DEF RowsAt
  <2> HIDE DEF s
  <2>2. IsSequence(s) BY <2>1, IsSeqFunction
  <2>3. s \in Seq(ToSet(s)) BY <2>2, SequenceOf
  <2>4. QED BY <2>1, <2>3
<1>7. RowsAt(q) = Append(s, row)
  <2>1. DOMAIN s = 1 .. m /\ \A j \in 1 .. m : s[j] = fetched[j][p[j]]
    BY <1>2 DEF RowsAt
  <2>2. RowsAt(q) = [j \in 1 .. m + 1 |-> fetched[j][q[j]]] BY <1>3 DEF RowsAt
  <2> HIDE DEF s
  <2>3. Append(s, row) = [j \in 1 .. m + 1 |-> IF j = m + 1 THEN row ELSE s[j]]
    BY <1>6
  <2>4. \A j \in 1 .. m + 1 : fetched[j][q[j]] = IF j = m + 1 THEN row ELSE s[j]
    BY <1>3, <1>4, <2>1
  <2> HIDE DEF row
  <2>5. QED BY <2>2, <2>3, <2>4
<1>8. QED BY <1>3, <1>5, <1>6, <1>7 DEF q, s

(* Two picks that grow to the same one are the same.                       *)
LEMMA PicksAgree ==
  ASSUME NEW m \in Nat, DOMAIN fetched[m + 1] \subseteq Nat,
         NEW p \in Picks(m), NEW q \in Picks(m),
         NEW r \in DOMAIN fetched[m + 1], NEW t \in DOMAIN fetched[m + 1],
         Append(p, r) = Append(q, t)
  PROVE  p = q /\ r = t
<1>1. p \in Seq(Nat) /\ q \in Seq(Nat) /\ Len(p) = m /\ Len(q) = m BY DEF Picks
<1>2. r \in Nat /\ t \in Nat OBVIOUS
<1>3. p = [i \in 1 .. m |-> p[i]] /\ q = [i \in 1 .. m |-> q[i]] BY <1>1
<1> DEFINE u == Append(p, r)
<1>4. u[m + 1] = r /\ \A i \in 1 .. m : u[i] = p[i]
  <2>1. DOMAIN fetched[m + 1] \subseteq Nat OBVIOUS
  <2>2. QED BY ONLY m \in Nat, p \in Picks(m), r \in DOMAIN fetched[m + 1], <2>1,
               PickGrows
<1> DEFINE v == Append(q, t)
<1>5. v[m + 1] = t /\ \A i \in 1 .. m : v[i] = q[i]
  <2>1. DOMAIN fetched[m + 1] \subseteq Nat OBVIOUS
  <2>2. QED BY ONLY m \in Nat, q \in Picks(m), t \in DOMAIN fetched[m + 1], <2>1,
               PickGrows
<1>6. u = v OBVIOUS
<1> HIDE DEF u, v
<1>7. \A i \in 1 .. m : p[i] = q[i] BY ONLY <1>4, <1>5, <1>6
<1>8. [i \in 1 .. m |-> p[i]] = [i \in 1 .. m |-> q[i]] BY ONLY <1>7
<1>9. QED BY ONLY <1>3, <1>4, <1>5, <1>8, <1>6

LEMMA PickShrinks ==
  ASSUME NEW m \in Nat, NEW q \in Picks(m + 1)
  PROVE  \E p \in Picks(m), r \in DOMAIN fetched[m + 1] : q = Append(p, r)
<1> DEFINE p == [j \in 1 .. m |-> q[j]]
           r == q[m + 1]
<1>1. /\ q \in Seq(Nat) /\ Len(q) = m + 1 /\ DOMAIN q = 1 .. m + 1
      /\ \A j \in 1 .. m + 1 : q[j] \in DOMAIN fetched[j]
      /\ \A j \in 1 .. m : j \in 1 .. m + 1
  BY DEF Picks
<1>2. p \in Seq(Nat) /\ Len(p) = m BY <1>1
<1>3. p \in Picks(m)
  <2>1. \A j \in 1 .. m : p[j] = q[j] OBVIOUS
  <2> HIDE DEF p
  <2>2. QED BY <1>1, <1>2, <2>1 DEF Picks
<1>4. r \in DOMAIN fetched[m + 1] BY <1>1
<1>5. q = Append(p, r)
  <2>1. q = [j \in 1 .. m + 1 |-> q[j]] BY <1>1
  <2>2. Append(p, r) = [j \in 1 .. m + 1 |-> IF j = m + 1 THEN r ELSE p[j]]
    BY <1>2
  <2>3. \A j \in 1 .. m + 1 : j # m + 1 => j \in 1 .. m OBVIOUS
  <2>4. \A j \in 1 .. m + 1 : q[j] = IF j = m + 1 THEN r ELSE p[j] BY <2>3
  <2> HIDE DEF p, r
  <2>5. QED BY <2>1, <2>2, <2>4
<1> HIDE DEF p, r
<1>6. QED BY <1>3, <1>4, <1>5

(* Each side comes with a link to a side before it.                        *)
LEMMA MergeFacts ==
  ASSUME QInv, stage = "merge"
  PROVE  /\ in \in Input /\ Len(in.q.from) \in Nat \ {0}
         /\ DOMAIN plan.links = 1 .. Len(in.q.from) - 1
         /\ \A k \in 1 .. Len(in.q.from) :
              /\ fetched[k] \in Seq(ClearedIn(in, k))
              /\ DOMAIN fetched[k] = 1 .. Len(fetched[k])
              /\ Len(fetched[k]) \in Nat /\ DOMAIN fetched[k] \subseteq Nat
         /\ \A k \in 1 .. Len(in.q.from) - 1 :
              /\ plan.links[k] = LinkIn(in, k + 1)
              /\ plan.links[k].to = k + 1 /\ plan.links[k].from \in 1 .. k
<1> DEFINE n == Len(in.q.from)
<1>1. /\ in \in Input /\ AcceptedIn(in) /\ plan = PlanIn(in) /\ n \in Nat \ {0}
      /\ \A k \in 1 .. n : fetched[k] \in Seq(ClearedIn(in, k))
  BY AllFetched
<1>2. DOMAIN plan.links = 1 .. n - 1
      /\ \A k \in 1 .. n - 1 : plan.links[k] = LinkIn(in, k + 1)
  BY <1>1, PlanFacts DEF LinkIn
<1>3. ASSUME NEW k \in 1 .. n - 1
      PROVE  LinkIn(in, k + 1).to = k + 1 /\ LinkIn(in, k + 1).from \in 1 .. k
  <2> DEFINE j == k + 1
  <2>1. j \in 2 .. Len(in.q.from) /\ j - 1 = k BY <1>1
  <2> HIDE DEF j
  <2>2. LinkIn(in, j).from \in 1 .. j - 1 /\ LinkIn(in, j).to = j
    BY <1>1, <2>1, LinkFacts
  <2>3. QED BY <2>1, <2>2 DEF j
<1>4. \A k \in 1 .. n : DOMAIN fetched[k] = 1 .. Len(fetched[k])
        /\ Len(fetched[k]) \in Nat /\ DOMAIN fetched[k] \subseteq Nat
  BY <1>1
<1>5. QED BY <1>1, <1>2, <1>3, <1>4

LEMMA HitGrows ==
  ASSUME QInv, stage = "merge", NEW m \in 1 .. Len(in.q.from) - 1,
         NEW p \in Picks(m), NEW r \in DOMAIN fetched[m + 1]
  PROVE  Append(p, r) \in Hits(m + 1) <=>
           p \in Hits(m) /\ Holds(Append(p, r), plan.links[m])
<1> DEFINE q == Append(p, r)
<1>1. /\ m \in Nat \ {0} /\ m + 1 \in 1 .. Len(in.q.from)
      /\ \A k \in 1 .. m : k \in 1 .. Len(in.q.from) - 1
  BY MergeFacts
<1>2. DOMAIN fetched[m + 1] \subseteq Nat BY <1>1, MergeFacts
<1>3. q \in Picks(m + 1) /\ \A j \in 1 .. m : q[j] = p[j]
  <2>1. m \in Nat BY <1>1
  <2>2. Append(p, r) \in Picks(m + 1) BY <1>2, <2>1, PickGrows
  <2>3. \A j \in 1 .. m : Append(p, r)[j] = p[j] BY <1>2, <2>1, PickGrows
  <2>4. QED BY <2>2, <2>3
<1> HIDE DEF q
<1>4. ASSUME NEW k \in 1 .. m - 1
      PROVE  Holds(q, plan.links[k]) <=> Holds(p, plan.links[k])
  <2>1. k \in 1 .. m /\ k + 1 \in 1 .. m BY <1>1
  <2>2. plan.links[k].to = k + 1 /\ plan.links[k].from \in 1 .. k
    BY <1>1, <2>1, MergeFacts
  <2>3. plan.links[k].to \in 1 .. m /\ plan.links[k].from \in 1 .. m
    BY <1>1, <2>1, <2>2
  <2>4. q[plan.links[k].to] = p[plan.links[k].to]
        /\ q[plan.links[k].from] = p[plan.links[k].from]
    BY <1>3, <2>3
  <2>5. QED BY <2>4 DEF Holds
<1>5. q \in Hits(m + 1) <=> \A k \in 1 .. m : Holds(q, plan.links[k])
  <2>1. (m + 1) - 1 = m BY <1>1
  <2>2. QED BY <1>3, <2>1 DEF Hits
<1>6. p \in Hits(m) <=> \A k \in 1 .. m - 1 : Holds(p, plan.links[k]) BY DEF Hits
<1>7. \A k \in 1 .. m : k \in 1 .. m - 1 \/ k = m BY <1>1
<1>8. m \in 1 .. m /\ \A k \in 1 .. m - 1 : k \in 1 .. m BY <1>1
<1>9. q \in Hits(m + 1) <=> p \in Hits(m) /\ Holds(q, plan.links[m])
  BY <1>4, <1>5, <1>6, <1>7, <1>8
<1>10. QED BY <1>9 DEF q

LEMMA JoinLists ==
  ASSUME QInv, stage = "merge", NEW m \in 1 .. Len(in.q.from) - 1,
         NEW acc \in Seq(Partial(in, m)), NEW b, Lists(b, acc, Hits(m))
  PROVE  \E d : Lists(d, JoinOn(acc, plan.links[m]), Hits(m + 1))
<1> DEFINE link == plan.links[m]
           rows == fetched[m + 1]
           parts == JoinParts(acc, link)
           X == Partial(in, m + 1)
           at(k) == Matching(acc, link, rows[k])
           places == PlacesOf(parts, Len(parts))
           picks == Hits(m + 1)
           g == [x \in places |-> Append(b[Nth(at(x[1]), x[2])], x[1])]
<1>1. /\ in \in Input /\ m \in Nat \ {0} /\ m + 1 \in 1 .. Len(in.q.from)
      /\ link.to = m + 1 /\ link.from \in 1 .. m
      /\ rows \in Seq(ClearedIn(in, m + 1))
      /\ DOMAIN rows = 1 .. Len(rows) /\ Len(rows) \in Nat /\ DOMAIN rows \subseteq Nat
  BY MergeFacts
<1>2. \A t \in Partial(in, m) : \A r \in ClearedIn(in, m + 1) : Append(t, r) \in X
  <2> DEFINE k == m + 1
  <2>1. k \in 1 .. Len(in.q.from) /\ k - 1 = m BY <1>1
  <2> HIDE DEF k
  <2>2. \A t \in Partial(in, k - 1) : \A r \in ClearedIn(in, k) :
          Append(t, r) \in Partial(in, k)
    BY <1>1, <2>1, PartialGrows
  <2>3. QED BY <2>1, <2>2 DEF k
<1>3. /\ JoinOn(acc, link) = FlattenSeq(parts) /\ parts \in Seq(Seq(X))
      /\ DOMAIN parts = DOMAIN rows
      /\ \A k \in DOMAIN rows : parts[k] = JoinPart(acc, link, k)
  <2>1. fetched[link.to] \in Seq(ClearedIn(in, m + 1)) BY <1>1
  <2>2. JoinOn(acc, link) = FlattenSeq(parts) /\ parts \in Seq(Seq(X))
    <3> HIDE DEF X, link
    <3>1. QED BY <1>2, <2>1, JoinTyped
  <2>3. parts = [k \in DOMAIN rows |-> JoinPart(acc, link, k)]
    BY <1>1 DEF JoinParts
  <2> HIDE DEF parts, rows
  <2>4. QED BY <2>2, <2>3
<1> HIDE DEF X, parts
<1>4. Len(parts) = Len(rows) BY <1>1, <1>3
<1>5. /\ b \in [DOMAIN acc -> Hits(m)]
      /\ \A j, k \in DOMAIN acc : b[j] = b[k] => j = k
      /\ \A p \in Hits(m) : \E j \in DOMAIN acc : b[j] = p
      /\ \A j \in DOMAIN acc : acc[j] = RowsAt(b[j])
  BY Fun_BijectionProperties DEF Lists
<1>6. \A k : at(k) \in SUBSET DOMAIN acc BY DEF Matching
<1>7. \A k \in DOMAIN rows : \A j \in DOMAIN acc :
        j \in at(k) <=> Holds(Append(b[j], k), link)
  <2> SUFFICES ASSUME NEW k \in DOMAIN rows, NEW j \in DOMAIN acc
               PROVE  j \in at(k) <=> Holds(Append(b[j], k), link)
    OBVIOUS
  <2>1. b[j] \in Picks(m) BY <1>5 DEF Hits
  <2>2. Append(b[j], k)[m + 1] = k /\ \A i \in 1 .. m : Append(b[j], k)[i] = b[j][i]
    <3> DEFINE p == b[j]
    <3>1. p \in Picks(m) BY <2>1
    <3>2. k \in DOMAIN fetched[m + 1] /\ m \in Nat /\ DOMAIN fetched[m + 1] \subseteq Nat
      BY <1>1
    <3> HIDE DEF p
    <3>3. Append(p, k)[m + 1] = k /\ \A i \in 1 .. m : Append(p, k)[i] = p[i]
      BY <3>1, <3>2, PickGrows
    <3>4. QED BY <3>3 DEF p
  <2>3. acc[j][link.from] = fetched[link.from][b[j][link.from]]
    <3>1. DOMAIN b[j] = 1 .. m BY <1>1, <2>1 DEF Picks
    <3>2. QED BY <1>1, <1>5, <3>1 DEF RowsAt
  <2>4. j \in at(k) <=> Val(acc[j][link.from], link.fromCol) = Val(rows[k], link.toCol)
    BY DEF Matching
  <2> HIDE DEF link
  <2>5. QED BY <1>1, <2>2, <2>3, <2>4 DEF Holds
<1> HIDE DEF link, at
<1>8. ASSUME NEW k \in DOMAIN rows
      PROVE  /\ DOMAIN parts[k] = 1 .. Cardinality(at(k))
             /\ \A i \in DOMAIN parts[k] :
                  /\ Nth(at(k), i) \in at(k)
                  /\ Cardinality(UpTo(at(k), Nth(at(k), i))) = i
                  /\ parts[k][i] = Append(acc[Nth(at(k), i)], rows[k])
             /\ \A j \in at(k) : \E i \in DOMAIN parts[k] : Nth(at(k), i) = j
  <2> DEFINE match == Chosen(acc, at(k))
  <2>1. parts[k] = [i \in DOMAIN match |-> Append(match[i], rows[k])]
    <3>1. parts[k] = JoinPart(acc, link, k) /\ link.to = m + 1 BY <1>1, <1>3
    <3>2. QED BY <3>1 DEF JoinPart, at
  <2>2. /\ DOMAIN match = 1 .. Cardinality(at(k))
        /\ \A i \in 1 .. Cardinality(at(k)) : match[i] = acc[Nth(at(k), i)]
    BY DEF Chosen
  <2>3. Len(acc) \in Nat /\ at(k) \in SUBSET (1 .. Len(acc)) BY <1>6
  <2> HIDE DEF match
  <2>4. /\ \A i \in 1 .. Cardinality(at(k)) :
             /\ Nth(at(k), i) \in at(k)
             /\ Cardinality(UpTo(at(k), Nth(at(k), i))) = i
        /\ \A j \in at(k) : \E i \in 1 .. Cardinality(at(k)) : Nth(at(k), i) = j
    BY <2>3, NthExists, NthInverse
  <2>5. QED BY <2>1, <2>2, <2>4
<1>9. ASSUME NEW x \in places
      PROVE  /\ x[1] \in DOMAIN rows /\ x[2] \in DOMAIN parts[x[1]] /\ x = <<x[1], x[2]>>
             /\ Nth(at(x[1]), x[2]) \in DOMAIN acc
             /\ b[Nth(at(x[1]), x[2])] \in Picks(m)
             /\ g[x] = Append(b[Nth(at(x[1]), x[2])], x[1])
             /\ g[x] \in picks
             /\ parts[x[1]][x[2]] = RowsAt(g[x])
  <2> DEFINE k == x[1]
             j == Nth(at(k), x[2])
  <2>1. k \in DOMAIN rows /\ x[2] \in DOMAIN parts[k] /\ x = <<k, x[2]>>
    BY <1>1, <1>4 DEF PlacesOf
  <2>2. g[x] = Append(b[j], k) OBVIOUS
  <2> HIDE DEF places, g, k
  <2>3. j \in at(k) /\ parts[k][x[2]] = Append(acc[j], rows[k]) BY <1>8, <2>1
  <2> HIDE DEF j
  <2>4. j \in DOMAIN acc /\ b[j] \in Hits(m) /\ b[j] \in Picks(m)
        /\ acc[j] = RowsAt(b[j])
    BY <1>5, <1>6, <2>3 DEF Hits
  <2>5. Holds(Append(b[j], k), link) BY <1>7, <2>1, <2>3, <2>4
  <2>6. g[x] \in picks BY <2>1, <2>2, <2>4, <2>5, HitGrows DEF link
  <2>7. RowsAt(g[x]) = Append(acc[j], rows[k])
    <3>1. m \in Nat /\ DOMAIN fetched[m + 1] \subseteq Nat
          /\ k \in DOMAIN fetched[m + 1] /\ rows[k] = fetched[m + 1][k]
      BY <1>1, <2>1
    <3>2. RowsAt(Append(b[j], k)) = Append(RowsAt(b[j]), fetched[m + 1][k])
      BY <2>4, <3>1, PickGrows
    <3>3. QED BY <2>2, <2>4, <3>1, <3>2
  <2> HIDE DEF picks
  <2>8. QED BY <2>1, <2>2, <2>3, <2>4, <2>6, <2>7 DEF k, j
<1> HIDE DEF places, g
<1>10. ASSUME NEW x \in places, NEW y \in places, g[x] = g[y] PROVE x = y
  <2> DEFINE h == Nth(at(x[1]), x[2])
             j == Nth(at(y[1]), y[2])
  <2>1. /\ g[x] = Append(b[h], x[1]) /\ b[h] \in Picks(m) /\ h \in DOMAIN acc
        /\ g[y] = Append(b[j], y[1]) /\ b[j] \in Picks(m) /\ j \in DOMAIN acc
        /\ x[1] \in DOMAIN rows /\ y[1] \in DOMAIN rows
        /\ x[2] \in DOMAIN parts[x[1]] /\ y[2] \in DOMAIN parts[y[1]]
        /\ x = <<x[1], x[2]>> /\ y = <<y[1], y[2]>>
    BY <1>9
  <2>2. Cardinality(UpTo(at(x[1]), h)) = x[2] /\ Cardinality(UpTo(at(y[1]), j)) = y[2]
    BY <1>8, <2>1
  <2> HIDE DEF h, j
  <2>3. x[1] = y[1] /\ b[h] = b[j]
    <3>1. Append(b[h], x[1]) = Append(b[j], y[1]) BY <1>10, <2>1
    <3>2. x[1] \in DOMAIN fetched[m + 1] /\ y[1] \in DOMAIN fetched[m + 1]
          /\ m \in Nat /\ DOMAIN fetched[m + 1] \subseteq Nat
      BY <1>1, <2>1
    <3> DEFINE p == b[h]
               q == b[j]
    <3>3. p \in Picks(m) /\ q \in Picks(m) BY <2>1
    <3> HIDE DEF p, q
    <3>4. Append(p, x[1]) = Append(q, y[1]) BY <3>1 DEF p, q
    <3>5. p = q /\ x[1] = y[1] BY <3>2, <3>3, <3>4, PicksAgree
    <3>6. QED BY <3>5 DEF p, q
  <2>4. h = j BY <1>5, <2>1, <2>3
  <2>5. x[2] = y[2] BY <2>2, <2>3, <2>4
  <2>6. QED BY <2>1, <2>3, <2>5
<1>11. ASSUME NEW q \in picks PROVE \E x \in places : g[x] = q
  <2>1. q \in Picks(m + 1) /\ m \in Nat BY <1>1 DEF Hits
  <2>2. PICK p \in Picks(m), k \in DOMAIN rows : q = Append(p, k)
    BY <2>1, PickShrinks
  <2>3. p \in Hits(m) /\ Holds(Append(p, k), link) BY <2>2, HitGrows DEF link
  <2>4. PICK j \in DOMAIN acc : b[j] = p BY <1>5, <2>3
  <2>5. j \in at(k) BY <1>7, <2>3, <2>4
  <2>6. PICK i \in DOMAIN parts[k] : Nth(at(k), i) = j BY <1>8, <2>5
  <2> DEFINE x == <<k, i>>
  <2>7. x[1] = k /\ x[2] = i OBVIOUS
  <2>8. x \in places
    <3>1. i \in 1 .. Cardinality(at(k)) BY <1>8, <2>6
    <3>2. i \in Nat /\ k \in 1 .. Len(parts) BY <1>1, <1>4, <3>1
    <3>3. QED BY <2>6, <3>2 DEF places, PlacesOf
  <2> HIDE DEF x
  <2>9. g[x] = q BY <1>9, <2>2, <2>4, <2>6, <2>7, <2>8
  <2>10. QED BY <2>8, <2>9
<1>12. g \in Bijection(places, picks)
  <2>1. DOMAIN g = places /\ g = [x \in DOMAIN g |-> g[x]] BY DEF g
  <2>2. \A x \in places : g[x] \in picks BY <1>9
  <2> HIDE DEF picks
  <2>3. g \in [places -> picks] BY <2>1, <2>2
  <2>4. QED BY <1>10, <1>11, <2>3, Fun_IsBij
<1>13. PICK c : Takes(c, JoinOn(acc, link), places, parts)
  BY <1>3, FlattenTakes DEF places
<1>14. \A x \in places : parts[x[1]][x[2]] = RowsAt(g[x]) BY <1>9
<1>15. \E d : Lists(d, JoinOn(acc, link), picks)
  <2> HIDE DEF picks
  <2>1. QED BY <1>12, <1>13, <1>14, TakenLists
<1>16. QED BY <1>15 DEF link

LEMMA CrossLists ==
  ASSUME QInv, stage = "merge", NEW m \in 0 .. Len(in.q.from) - 1,
         NEW acc \in Seq(Partial(in, m)), NEW b, Lists(b, acc, Picks(m))
  PROVE  \E d : Lists(d, Crossed(acc, fetched[m + 1]), Picks(m + 1))
<1> DEFINE rows == fetched[m + 1]
           parts == CrossParts(acc, rows)
           X == Partial(in, m + 1)
           places == PlacesOf(parts, Len(parts))
           picks == Picks(m + 1)
           g == [x \in places |-> Append(b[x[1]], x[2])]
<1>1. /\ in \in Input /\ m \in Nat /\ m + 1 \in 1 .. Len(in.q.from)
      /\ rows \in Seq(ClearedIn(in, m + 1))
      /\ DOMAIN rows = 1 .. Len(rows) /\ Len(rows) \in Nat /\ DOMAIN rows \subseteq Nat
  BY MergeFacts
<1>2. \A t \in Partial(in, m) : \A r \in ClearedIn(in, m + 1) : Append(t, r) \in X
  <2> DEFINE k == m + 1
  <2>1. k \in 1 .. Len(in.q.from) /\ k - 1 = m BY <1>1
  <2> HIDE DEF k
  <2>2. \A t \in Partial(in, k - 1) : \A r \in ClearedIn(in, k) :
          Append(t, r) \in Partial(in, k)
    BY <1>1, <2>1, PartialGrows
  <2>3. QED BY <2>1, <2>2 DEF k
<1>3. /\ Crossed(acc, rows) = FlattenSeq(parts) /\ parts \in Seq(Seq(X))
      /\ DOMAIN parts = DOMAIN acc
      /\ \A k \in DOMAIN acc : parts[k] = [j \in DOMAIN rows |-> Append(acc[k], rows[j])]
  <2>1. Crossed(acc, rows) = FlattenSeq(parts) /\ parts \in Seq(Seq(X))
    <3> DEFINE T == Partial(in, m)
               R == ClearedIn(in, m + 1)
    <3>1. acc \in Seq(T) /\ rows \in Seq(R)
          /\ \A t \in T : \A r \in R : Append(t, r) \in X
      BY <1>1, <1>2
    <3> HIDE DEF X, T, R, rows
    <3>2. CrossParts(acc, rows) \in Seq(Seq(X)) BY <3>1, CrossTyped
    <3>3. Crossed(acc, rows) = FlattenSeq(CrossParts(acc, rows))
      BY DEF Crossed, CrossParts
    <3>4. QED BY <3>2, <3>3
  <2>2. QED BY <2>1 DEF CrossParts
<1> HIDE DEF X, parts
<1>4. DOMAIN acc = 1 .. Len(parts) /\ Len(parts) \in Nat BY <1>3
<1>5. /\ b \in [DOMAIN acc -> Picks(m)]
      /\ \A j, k \in DOMAIN acc : b[j] = b[k] => j = k
      /\ \A p \in Picks(m) : \E j \in DOMAIN acc : b[j] = p
      /\ \A j \in DOMAIN acc : acc[j] = RowsAt(b[j])
  BY Fun_BijectionProperties DEF Lists
<1>6. ASSUME NEW x \in places
      PROVE  /\ x[1] \in DOMAIN acc /\ x[2] \in DOMAIN rows /\ x = <<x[1], x[2]>>
             /\ g[x] = Append(b[x[1]], x[2])
             /\ g[x] \in picks
             /\ parts[x[1]][x[2]] = RowsAt(g[x])
  <2> DEFINE k == x[1]
             j == x[2]
  <2>1. k \in DOMAIN acc /\ j \in DOMAIN parts[k] /\ x = <<k, j>>
    BY <1>4 DEF PlacesOf
  <2>2. g[x] = Append(b[k], j) OBVIOUS
  <2> HIDE DEF places, g, k, j
  <2>3. j \in DOMAIN rows /\ parts[k][j] = Append(acc[k], rows[j]) BY <1>3, <2>1
  <2>4. b[k] \in Picks(m) /\ acc[k] = RowsAt(b[k]) BY <1>5, <2>1
  <2>5. g[x] \in picks
    <3>1. Append(b[k], j) \in Picks(m + 1) BY <1>1, <2>3, <2>4, PickGrows
    <3>2. QED BY <2>2, <3>1
  <2>6. RowsAt(Append(b[k], j)) = Append(RowsAt(b[k]), fetched[m + 1][j])
    BY <1>1, <2>3, <2>4, PickGrows
  <2> HIDE DEF picks
  <2>7. QED BY <2>1, <2>2, <2>3, <2>4, <2>5, <2>6 DEF k, j
<1> HIDE DEF places, g
<1>7. ASSUME NEW x \in places, NEW y \in places, g[x] = g[y] PROVE x = y
  <2>1. /\ g[x] = Append(b[x[1]], x[2]) /\ b[x[1]] \in Picks(m)
        /\ g[y] = Append(b[y[1]], y[2]) /\ b[y[1]] \in Picks(m)
        /\ x[1] \in DOMAIN acc /\ y[1] \in DOMAIN acc
        /\ x[2] \in DOMAIN rows /\ y[2] \in DOMAIN rows
        /\ x = <<x[1], x[2]>> /\ y = <<y[1], y[2]>>
    BY <1>5, <1>6
  <2> DEFINE p == b[x[1]]
             q == b[y[1]]
  <2>2. x[2] = y[2] /\ p = q
    <3>1. Append(p, x[2]) = Append(q, y[2]) BY <1>7, <2>1
    <3>2. p \in Picks(m) /\ q \in Picks(m) BY <2>1
    <3>3. x[2] \in DOMAIN fetched[m + 1] /\ y[2] \in DOMAIN fetched[m + 1]
          /\ m \in Nat /\ DOMAIN fetched[m + 1] \subseteq Nat
      BY <1>1, <2>1
    <3> DEFINE r == x[2]
               t == y[2]
    <3>4. Append(p, r) = Append(q, t) /\ r \in DOMAIN fetched[m + 1]
          /\ t \in DOMAIN fetched[m + 1]
      BY <3>1, <3>3
    <3> HIDE DEF p, q, r, t, rows, picks
    <3>5. p = q /\ r = t
      <4>1. m \in Nat /\ DOMAIN fetched[m + 1] \subseteq Nat BY <3>3
      <4>2. p \in Picks(m) /\ q \in Picks(m) BY <3>2
      <4>3. r \in DOMAIN fetched[m + 1] /\ t \in DOMAIN fetched[m + 1] BY <3>4
      <4>4. Append(p, r) = Append(q, t) BY <3>4
      <4>5. QED BY ONLY <4>1, <4>2, <4>3, <4>4, PicksAgree
    <3>6. QED BY <3>5 DEF r, t
  <2>3. x[1] = y[1] BY <1>5, <2>1, <2>2
  <2>4. QED BY <2>1, <2>2, <2>3
<1>8. ASSUME NEW q \in picks PROVE \E x \in places : g[x] = q
  <2>1. PICK p \in Picks(m), j \in DOMAIN rows : q = Append(p, j)
    BY <1>1, PickShrinks
  <2>2. PICK k \in DOMAIN acc : b[k] = p BY <1>5
  <2> DEFINE x == <<k, j>>
  <2>3. x[1] = k /\ x[2] = j OBVIOUS
  <2>4. x \in places
    <3>1. j \in DOMAIN parts[k] /\ j \in Nat /\ k \in 1 .. Len(parts)
      BY <1>1, <1>3, <1>4
    <3>2. QED BY <3>1 DEF places, PlacesOf
  <2> HIDE DEF x
  <2>5. g[x] = q BY <1>6, <2>1, <2>2, <2>3, <2>4
  <2>6. QED BY <2>4, <2>5
<1>9. g \in Bijection(places, picks)
  <2>1. DOMAIN g = places /\ g = [x \in DOMAIN g |-> g[x]] BY DEF g
  <2>2. \A x \in places : g[x] \in picks BY <1>6
  <2> HIDE DEF picks
  <2>3. g \in [places -> picks] BY <2>1, <2>2
  <2>4. QED BY <1>7, <1>8, <2>3, Fun_IsBij
<1>10. PICK c : Takes(c, Crossed(acc, rows), places, parts)
  BY <1>3, FlattenTakes DEF places
<1>11. \A x \in places : parts[x[1]][x[2]] = RowsAt(g[x]) BY <1>6
<1>12. \E d : Lists(d, Crossed(acc, rows), picks)
  <2> HIDE DEF picks
  <2>1. QED BY <1>9, <1>10, <1>11, TakenLists
<1>13. QED BY <1>12

(* The joins of the gateway's engine list the picks that the links allow.  *)
LEMMA GoJoinLists ==
  ASSUME QInv, stage = "merge"
  PROVE  \E b : Lists(b, GoJoin.rows, Hits(Len(in.q.from)))
<1> DEFINE n == Len(in.q.from)
<1>1. PICK f : IsGoJoin(f) /\ GoJoin.rows = f[n - 1] BY GoJoinRuns
<1>2. /\ f[0] = [j \in DOMAIN fetched[1] |-> <<fetched[1][j]>>]
      /\ \A k \in 1 .. n - 1 : f[k] = JoinOn(f[k - 1], plan.links[k])
      /\ \A k \in 0 .. n - 1 : f[k] \in Seq(Partial(in, k + 1))
  BY <1>1 DEF IsGoJoin
<1>3. n \in Nat \ {0} /\ DOMAIN fetched[1] \subseteq Nat BY MergeFacts
<1> DEFINE Complete(k) == \E b : Lists(b, f[k], Hits(k + 1))
           bad == {k \in 0 .. n - 1 : ~Complete(k)}
<1>4. Complete(0)
  <2> DEFINE D == DOMAIN fetched[1]
             b == [j \in D |-> <<j>>]
  <2>1. Hits(1) = {<<j>> : j \in D}
    <3>1. ASSUME NEW p \in Hits(1) PROVE p \in {<<j>> : j \in D}
      <4>1. p \in Seq(Nat) /\ Len(p) = 1 /\ \A j \in 1 .. 1 : p[j] \in DOMAIN fetched[j]
        BY DEF Hits, Picks
      <4>2. p = <<p[1]>> BY <4>1
      <4>3. 1 \in 1 .. 1 OBVIOUS
      <4>4. p[1] \in D BY <4>1, <4>3
      <4>5. QED BY <4>2, <4>4
    <3>2. ASSUME NEW j \in D PROVE <<j>> \in Hits(1)
      <4>1. <<j>> \in Seq(Nat) /\ Len(<<j>>) = 1 /\ <<j>>[1] = j BY <1>3
      <4>2. \A k \in 1 .. 1 : k = 1 OBVIOUS
      <4>3. 1 .. 1 - 1 = {} OBVIOUS
      <4>4. <<j>> \in Picks(1) BY <4>1, <4>2 DEF Picks
      <4>5. QED BY <4>3, <4>4 DEF Hits
    <3>3. QED BY <3>1, <3>2
  <2>2. DOMAIN f[0] = D /\ \A j \in D : f[0][j] = <<fetched[1][j]>> BY <1>2
  <2>3. ASSUME NEW j \in D PROVE RowsAt(<<j>>) = <<fetched[1][j]>>
    <3>1. DOMAIN <<j>> = {1} /\ <<j>>[1] = j OBVIOUS
    <3>2. RowsAt(<<j>>) = [k \in {1} |-> fetched[k][<<j>>[k]]] BY <3>1 DEF RowsAt
    <3>3. RowsAt(<<j>>) = [k \in {1} |-> fetched[1][j]] BY <3>1, <3>2
    <3> DEFINE row == fetched[1][j]
    <3>4. [k \in {1} |-> row] = <<row>>
      <4> HIDE DEF row
      <4>1. DOMAIN <<row>> = {1} /\ <<row>>[1] = row OBVIOUS
      <4>2. QED BY <4>1
    <3>5. QED BY <3>3, <3>4
  <2> HIDE DEF D
  <2>4. b \in [D -> Hits(1)] BY <2>1
  <2>5. \A i, j \in D : b[i] = b[j] => i = j
    <3>1. \A j \in D : b[j] = <<j>> /\ <<j>>[1] = j OBVIOUS
    <3> HIDE DEF b
    <3>2. QED BY <3>1
  <2>6. \A p \in Hits(1) : \E j \in D : b[j] = p BY <2>1
  <2>7. \A j \in D : f[0][j] = RowsAt(b[j]) BY <2>2, <2>3
  <2> HIDE DEF b
  <2>8. b \in Bijection(D, Hits(1)) BY <2>4, <2>5, <2>6, Fun_IsBij
  <2>9. Lists(b, f[0], Hits(1)) BY <2>2, <2>7, <2>8 DEF Lists
  <2>10. QED BY <2>9
<1>5. bad = {}
  <2> SUFFICES ASSUME bad # {} PROVE FALSE OBVIOUS
  <2>1. bad \in SUBSET Nat BY <1>3
  <2>2. PICK k \in Nat : IsFirst(bad, k)
    <3> HIDE DEF bad
    <3>1. QED BY <2>1, HasFirst
  <2>3. k \in 0 .. n - 1 /\ ~Complete(k) /\ \A j \in bad : ~(j < k)
    BY <2>2 DEF IsFirst
  <2>4. k # 0 BY <1>4, <2>3
  <2>5. k - 1 \in 0 .. n - 1 /\ k - 1 < k /\ (k - 1) + 1 = k /\ k \in 1 .. n - 1
    BY <1>3, <2>3, <2>4
  <2>6. k - 1 \notin bad BY <2>3, <2>5
  <2>7. Complete(k - 1) BY <2>5, <2>6
  <2>8. PICK b : Lists(b, f[k - 1], Hits(k)) BY <2>5, <2>7
  <2>9. f[k - 1] \in Seq(Partial(in, k)) BY <1>2, <2>5
  <2>10. \E d : Lists(d, JoinOn(f[k - 1], plan.links[k]), Hits(k + 1))
    BY <2>5, <2>8, <2>9, JoinLists
  <2>11. QED BY <1>2, <2>3, <2>5, <2>10
<1>6. n - 1 \in 0 .. n - 1 /\ (n - 1) + 1 = n BY <1>3
<1>7. Complete(n - 1) BY <1>5, <1>6
<1>8. QED BY <1>1, <1>6, <1>7

(* The product lists all picks.                                            *)
LEMMA CrossJoinLists ==
  ASSUME QInv, stage = "merge"
  PROVE  \E b : Lists(b, CrossJoin, Picks(Len(in.q.from)))
<1> DEFINE n == Len(in.q.from)
<1>1. PICK f : IsCrossJoin(f) /\ CrossJoin = f[n] BY CrossJoinRuns
<1>2. /\ f[0] = <<<<>>>>
      /\ \A k \in 1 .. n : f[k] = Crossed(f[k - 1], fetched[k])
      /\ \A k \in 0 .. n : f[k] \in Seq(Partial(in, k))
  BY <1>1 DEF IsCrossJoin
<1>3. n \in Nat \ {0} BY MergeFacts
<1> DEFINE Complete(k) == \E b : Lists(b, f[k], Picks(k))
           bad == {k \in 0 .. n : ~Complete(k)}
<1>4. Complete(0)
  <2> DEFINE b == [j \in {1} |-> <<>>]
  <2>1. Picks(0) = {<<>>}
    <3>1. \A p \in Seq(Nat) : Len(p) = 0 <=> p = <<>> OBVIOUS
    <3>2. <<>> \in Seq(Nat) /\ 1 .. 0 = {} OBVIOUS
    <3>3. QED BY <3>1, <3>2 DEF Picks
  <2>2. DOMAIN f[0] = {1} /\ f[0][1] = <<>>
    <3> DEFINE e == <<>>
    <3>1. f[0] = <<e>> BY <1>2
    <3> HIDE DEF e
    <3>2. DOMAIN <<e>> = {1} /\ <<e>>[1] = e OBVIOUS
    <3>3. QED BY <3>1, <3>2 DEF e
  <2>3. RowsAt(<<>>) = <<>> BY DEF RowsAt
  <2>4. b \in [{1} -> {<<>>}] /\ b[1] = <<>> OBVIOUS
  <2> HIDE DEF b
  <2>5. b \in Bijection({1}, {<<>>}) BY <2>4, Fun_IsBij
  <2>6. Lists(b, f[0], Picks(0)) BY <2>1, <2>2, <2>3, <2>4, <2>5 DEF Lists
  <2>7. QED BY <2>6
<1>5. bad = {}
  <2> SUFFICES ASSUME bad # {} PROVE FALSE OBVIOUS
  <2>1. bad \in SUBSET Nat BY <1>3
  <2>2. PICK k \in Nat : IsFirst(bad, k)
    <3> HIDE DEF bad
    <3>1. QED BY <2>1, HasFirst
  <2>3. k \in 0 .. n /\ ~Complete(k) /\ \A j \in bad : ~(j < k)
    BY <2>2 DEF IsFirst
  <2>4. k # 0 BY <1>4, <2>3
  <2> DEFINE m == k - 1
  <2>5. m \in 0 .. n /\ m \in 0 .. n - 1 /\ m < k /\ m + 1 = k /\ k \in 1 .. n
    BY <1>3, <2>3, <2>4
  <2>6. m \notin bad BY <2>3, <2>5
  <2>7. Complete(m) BY <2>5, <2>6
  <2>8. PICK b : Lists(b, f[m], Picks(m)) BY <2>7
  <2>9. f[m] \in Seq(Partial(in, m)) BY <1>2, <2>5
  <2>10. f[k] = Crossed(f[m], fetched[k]) BY <1>2, <2>5
  <2> HIDE DEF m
  <2>11. \E d : Lists(d, Crossed(f[m], fetched[m + 1]), Picks(m + 1))
    BY <2>5, <2>8, <2>9, CrossLists
  <2>12. QED BY <2>3, <2>5, <2>10, <2>11
<1>6. n \in 0 .. n BY <1>3
<1>7. Complete(n) BY <1>5, <1>6
<1>8. QED BY <1>1, <1>7

(* DuckDB keeps of the product the rows whose pick is a hit.               *)
LinkedRows(rows) ==
  {n \in DOMAIN rows : \A k \in DOMAIN plan.links :
     LET link == plan.links[k]
     IN Val(rows[n][link.to], link.toCol) = Val(rows[n][link.from], link.fromCol)}

LEMMA LinkedLists ==
  ASSUME QInv, stage = "merge", NEW b, NEW X, NEW rows \in Seq(X),
         Lists(b, rows, Picks(Len(in.q.from)))
  PROVE  \E d : Lists(d, Chosen(rows, LinkedRows(rows)), Hits(Len(in.q.from)))
<1> DEFINE n == Len(in.q.from)
           places == LinkedRows(rows)
           s == Chosen(rows, places)
           nth == [k \in DOMAIN s |-> Nth(places, k)]
           kept == [k \in places |-> b[k]]
           d == [k \in DOMAIN s |-> kept[nth[k]]]
<1>1. /\ n \in Nat \ {0} /\ DOMAIN plan.links = 1 .. n - 1
      /\ \A k \in 1 .. n - 1 :
           plan.links[k].to = k + 1 /\ plan.links[k].from \in 1 .. k
  BY MergeFacts
<1>2. /\ b \in [DOMAIN rows -> Picks(n)]
      /\ \A j, k \in DOMAIN rows : b[j] = b[k] => j = k
      /\ \A p \in Picks(n) : \E j \in DOMAIN rows : b[j] = p
      /\ \A j \in DOMAIN rows : rows[j] = RowsAt(b[j])
  BY Fun_BijectionProperties DEF Lists
<1> HIDE DEF n
<1>3. ASSUME NEW j \in DOMAIN rows PROVE j \in places <=> b[j] \in Hits(n)
  <2>1. DOMAIN b[j] = 1 .. n /\ b[j] \in Picks(n) BY <1>1, <1>2 DEF Picks
  <2>2. \A i \in 1 .. n : rows[j][i] = fetched[i][b[j][i]]
    <3>1. rows[j] = [i \in 1 .. n |-> fetched[i][b[j][i]]]
      BY <1>2, <2>1 DEF RowsAt
    <3>2. QED BY <3>1
  <2>3. \A k \in 1 .. n - 1 :
          Holds(b[j], plan.links[k]) <=>
            Val(rows[j][plan.links[k].to], plan.links[k].toCol) =
              Val(rows[j][plan.links[k].from], plan.links[k].fromCol)
    <3> SUFFICES ASSUME NEW k \in 1 .. n - 1
                 PROVE  Holds(b[j], plan.links[k]) <=>
                          Val(rows[j][plan.links[k].to], plan.links[k].toCol) =
                            Val(rows[j][plan.links[k].from], plan.links[k].fromCol)
      OBVIOUS
    <3>1. plan.links[k].to \in 1 .. n /\ plan.links[k].from \in 1 .. n
      BY <1>1
    <3>2. QED BY <2>2, <3>1 DEF Holds
  <2>4. j \in places <=>
          \A k \in 1 .. n - 1 :
            Val(rows[j][plan.links[k].to], plan.links[k].toCol) =
              Val(rows[j][plan.links[k].from], plan.links[k].fromCol)
    BY <1>1 DEF LinkedRows
  <2>5. b[j] \in Hits(n) <=> \A k \in 1 .. n - 1 : Holds(b[j], plan.links[k])
    BY <2>1 DEF Hits
  <2>6. QED BY <2>3, <2>4, <2>5
<1>4. places \in SUBSET DOMAIN rows BY DEF LinkedRows
<1> HIDE DEF places
<1>5. kept \in Bijection(places, Hits(n))
  <2>1. kept \in [places -> Hits(n)] BY <1>3, <1>4
  <2>2. \A j, k \in places : kept[j] = kept[k] => j = k BY <1>2, <1>4
  <2>3. ASSUME NEW p \in Hits(n) PROVE \E j \in places : kept[j] = p
    <3>1. PICK j \in DOMAIN rows : b[j] = p BY <1>2 DEF Hits
    <3>2. j \in places BY <1>3, <3>1
    <3>3. QED BY <3>1, <3>2
  <2> HIDE DEF kept
  <2>4. QED BY <2>1, <2>2, <2>3, Fun_IsBij
<1>6. /\ nth \in Bijection(DOMAIN s, places)
      /\ \A k \in DOMAIN s : s[k] = rows[nth[k]]
  BY <1>4, ChosenPlaces
<1>7. \A k \in DOMAIN s : nth[k] \in places BY <1>6, Fun_BijectionProperties
<1> HIDE DEF nth, s
<1>8. d \in Bijection(DOMAIN s, Hits(n))
  <2> HIDE DEF kept
  <2>1. QED BY <1>5, <1>6, Fun_BijTransitive
<1>9. \A k \in DOMAIN s : s[k] = RowsAt(d[k]) BY <1>2, <1>4, <1>6, <1>7
<1> HIDE DEF d
<1>10. Lists(d, s, Hits(n)) BY <1>8, <1>9 DEF Lists
<1>11. QED BY <1>10 DEF s, places, n

(* Both ends of a link are columns that the scans ask for, and every row   *)
(* has the columns that were asked for.                                    *)
LEMMA KeyColumnsCome ==
  ASSUME QInv, stage = "merge",
         \A k \in 1 .. Len(in.q.from) : fetched[k] # <<>>
  PROVE  ~KeyColumnMissing
<1> DEFINE n == Len(in.q.from)
<1>1. /\ in \in Input /\ n \in Nat \ {0} /\ DOMAIN plan.links = 1 .. n - 1
      /\ \A k \in 1 .. n : fetched[k] \in Seq(ClearedIn(in, k))
      /\ \A k \in 1 .. n - 1 :
           /\ plan.links[k] = LinkIn(in, k + 1)
           /\ plan.links[k].to = k + 1 /\ plan.links[k].from \in 1 .. k
  BY MergeFacts
<1>2. SidesOf(in.q) = 1 .. n BY <1>1, InputFacts
<1>3. ASSUME NEW k \in 1 .. n, NEW col \in JoinKeys(in.q, k)
      PROVE  col \in ColumnsOf(fetched[k])
  <2>1. 1 \in DOMAIN fetched[k] /\ fetched[k][1] \in ClearedIn(in, k) BY <1>1
  <2>2. fetched[k][1] \in RowsIn(in, k) BY <2>1 DEF ClearedIn
  <2> DEFINE fields == ScanProject(in.q, in.cat, DocIn(in), k)
  <2>3. PICK r : fetched[k][1] = Cells(r, fields) BY <2>2 DEF RowsIn, SentBy
  <2>4. col \in fields BY DEF ScanProject
  <2> HIDE DEF fields
  <2>5. DOMAIN Cells(r, fields).vals = fields BY DEF Cells
  <2>6. col \in DOMAIN fetched[k][1].vals BY <2>3, <2>4, <2>5
  <2>7. QED BY <2>1, <2>6 DEF ColumnsOf
<1>4. ASSUME NEW k \in 1 .. n - 1
      PROVE  /\ plan.links[k].fromCol \in JoinKeys(in.q, plan.links[k].from)
             /\ plan.links[k].toCol \in JoinKeys(in.q, plan.links[k].to)
  <2> DEFINE t == k + 1
             a == SideOf(in.q, BuildEnd(in.q, t).alias)
  <2>1. t \in SidesOf(in.q) \ {1} /\ t > 1 BY <1>1, <1>2
  <2> HIDE DEF t
  <2>2. /\ LinkIn(in, t).from = a /\ LinkIn(in, t).fromCol = BuildEnd(in.q, t).col
        /\ LinkIn(in, t).to = t /\ LinkIn(in, t).toCol = ProbeEnd(in.q, t).col
    BY DEF LinkIn, LinkTo
  <2>3. BuildEnd(in.q, t).col \in JoinKeys(in.q, a) BY <2>1 DEF JoinKeys
  <2>4. ProbeEnd(in.q, t).col \in JoinKeys(in.q, t) BY <2>1 DEF JoinKeys
  <2> HIDE DEF a
  <2>5. plan.links[k] = LinkIn(in, t) BY <1>1 DEF t
  <2>6. QED BY <2>2, <2>3, <2>4, <2>5
<1>5. ASSUME NEW k \in 1 .. n - 1
      PROVE  /\ plan.links[k].fromCol \in ColumnsOf(fetched[plan.links[k].from])
             /\ plan.links[k].toCol \in ColumnsOf(fetched[plan.links[k].to])
  <2>1. plan.links[k].from \in 1 .. n /\ plan.links[k].to \in 1 .. n BY <1>1
  <2>2. QED BY <1>3, <1>4, <2>1
<1>6. QED BY <1>1, <1>5 DEF KeyColumnMissing

(* The rows and their numbers are those of the picks.                      *)
Making(picks, row) == {p \in picks : RowsAt(p) = row}

LEMMA PicksCount ==
  ASSUME NEW X, NEW s \in Seq(X), NEW picks, NEW b, Lists(b, s, picks)
  PROVE  /\ \A row : row \in ToSet(s) <=> Making(picks, row) # {}
         /\ \A row : Cardinality({k \in DOMAIN s : s[k] = row})
                       = Cardinality(Making(picks, row))
<1>1. /\ b \in [DOMAIN s -> picks]
      /\ \A j, k \in DOMAIN s : b[j] = b[k] => j = k
      /\ \A p \in picks : \E j \in DOMAIN s : b[j] = p
      /\ \A j \in DOMAIN s : s[j] = RowsAt(b[j])
  BY Fun_BijectionProperties DEF Lists
<1>2. ASSUME NEW row
      PROVE  /\ row \in ToSet(s) <=> Making(picks, row) # {}
             /\ Cardinality({k \in DOMAIN s : s[k] = row})
                  = Cardinality(Making(picks, row))
  <2> DEFINE mine == {k \in DOMAIN s : s[k] = row}
             c == [k \in mine |-> b[k]]
             made == Making(picks, row)
  <2>1. \A k \in DOMAIN s : k \in mine <=> b[k] \in made BY <1>1 DEF Making
  <2>2. mine \subseteq DOMAIN s /\ made \subseteq picks BY DEF Making
  <2>3. row \in ToSet(s) <=> mine # {} BY DEF ToSet
  <2>4. IsFiniteSet(mine)
    <3>1. Len(s) \in Nat /\ mine \in SUBSET (1 .. Len(s)) OBVIOUS
    <3> HIDE DEF mine
    <3>2. QED BY <3>1, Bounded
  <2> HIDE DEF mine, made
  <2>5. c \in [mine -> made] BY <2>1, <2>2
  <2>6. \A j, k \in mine : c[j] = c[k] => j = k BY <1>1, <2>2
  <2>7. ASSUME NEW p \in made PROVE \E k \in mine : c[k] = p
    <3>1. PICK k \in DOMAIN s : b[k] = p BY <1>1, <2>2
    <3>2. QED BY <2>1, <3>1
  <2> HIDE DEF c
  <2>8. c \in Bijection(mine, made) BY <2>5, <2>6, <2>7, Fun_IsBij
  <2>9. ExistsBijection(mine, made) BY <2>8 DEF ExistsBijection
  <2>10. Cardinality(mine) = Cardinality(made) BY <2>4, <2>9, FS_Bijection
  <2>11. mine # {} <=> made # {} BY <2>5, <2>7
  <2>12. QED BY <2>3, <2>10, <2>11 DEF mine, made
<1>3. QED BY <1>2

(* Whichever engine the build has, the rows that come out are the same,    *)
(* and each as often.                                                      *)
SameRows(s, t) ==
  LET times(rows, row) == Cardinality({k \in DOMAIN rows : rows[k] = row})
  IN /\ ToSet(s) = ToSet(t)
     /\ \A row \in ToSet(s) : times(s, row) = times(t, row)

LEMMA SamePicks ==
  ASSUME NEW X, NEW s \in Seq(X), NEW t \in Seq(X), NEW picks,
         NEW b, Lists(b, s, picks), NEW c, Lists(c, t, picks)
  PROVE  SameRows(s, t)
<1>1. /\ \A row : row \in ToSet(s) <=> Making(picks, row) # {}
      /\ \A row : Cardinality({k \in DOMAIN s : s[k] = row})
                    = Cardinality(Making(picks, row))
  BY PicksCount
<1>2. /\ \A row : row \in ToSet(t) <=> Making(picks, row) # {}
      /\ \A row : Cardinality({k \in DOMAIN t : t[k] = row})
                    = Cardinality(Making(picks, row))
  BY PicksCount
<1>3. ToSet(s) = ToSet(t) BY <1>1, <1>2
<1>4. \A row : Cardinality({k \in DOMAIN s : s[k] = row})
                 = Cardinality({k \in DOMAIN t : t[k] = row})
  BY <1>1, <1>2
<1>5. QED BY <1>3, <1>4 DEF SameRows

LEMMA NoPicks ==
  ASSUME NEW m, NEW k \in 1 .. m, fetched[k] = <<>>
  PROVE  Hits(m) = {}
<1>1. DOMAIN fetched[k] = {} OBVIOUS
<1>2. QED BY <1>1 DEF Hits, Picks

LEMMA DuckJoinLists ==
  ASSUME QInv, stage = "merge"
  PROVE  DuckJoin.err = NoError /\ \E c : Lists(c, DuckJoin.rows, Hits(Len(in.q.from)))
<1> DEFINE n == Len(in.q.from)
           X == Partial(in, n)
<1>1. CrossJoin \in Seq(X) BY CrossJoinTyped
<1>2. PICK c : Lists(c, CrossJoin, Picks(n)) BY CrossJoinLists
<1>3. DOMAIN fetched = 1 .. n BY AllFetched
<1>4. \A e, r : Joined(e, r).err = e /\ Joined(e, r).rows = r BY Zenon DEF Joined
<1>5. CASE \E k \in DOMAIN fetched : fetched[k] = <<>>
  <2>1. DuckJoin = Joined(NoError, <<>>) BY <1>5, Zenon DEF DuckJoin
  <2>2. DuckJoin.err = NoError /\ DuckJoin.rows = <<>> BY <1>4, <2>1
  <2>3. Hits(n) = {} BY <1>3, <1>5, NoPicks
  <2>4. DOMAIN <<>> = {} OBVIOUS
  <2>5. Lists(<<>>, <<>>, Hits(n))
    <3>1. <<>> \in [{} -> {}] OBVIOUS
    <3>2. <<>> \in Bijection({}, {}) BY <3>1, Fun_IsBij
    <3>3. QED BY <2>3, <2>4, <3>2 DEF Lists
  <2> HIDE DEF n
  <2>6. QED BY <2>2, <2>5 DEF n
<1>6. CASE \A k \in DOMAIN fetched : fetched[k] # <<>>
  <2> DEFINE rows == Chosen(CrossJoin, LinkedRows(CrossJoin))
  <2>1. ~KeyColumnMissing BY <1>3, <1>6, KeyColumnsCome
  <2>2. DuckJoin = Joined(NoError, rows)
    <3>1. ~\E k \in DOMAIN fetched : fetched[k] = <<>> BY <1>6
    <3>2. QED BY <2>1, <3>1, Zenon DEF DuckJoin, LinkedRows
  <2>3. DuckJoin.err = NoError /\ DuckJoin.rows = rows BY <1>4, <2>2
  <2>4. PICK d : Lists(d, rows, Hits(n))
    <3> HIDE DEF X
    <3>1. QED BY <1>1, <1>2, LinkedLists
  <2> HIDE DEF X, n, rows
  <2>5. QED BY <2>3, <2>4 DEF n
<1>7. QED BY <1>5, <1>6

LEMMA MergesAgree ==
  ASSUME QInv, stage = "merge"
  PROVE  DuckJoin.err = GoJoin.err /\ SameRows(GoJoin.rows, DuckJoin.rows)
<1> DEFINE X == Partial(in, Len(in.q.from))
<1>1. GoJoin.err = NoError /\ GoJoin.rows \in Seq(X) BY GoJoinTyped
<1>2. DuckJoin.err = NoError /\ DuckJoin.rows \in Seq(X)
  BY DuckJoinTyped, DuckJoinLists
<1>3. PICK b : Lists(b, GoJoin.rows, Hits(Len(in.q.from))) BY GoJoinLists
<1>4. PICK c : Lists(c, DuckJoin.rows, Hits(Len(in.q.from))) BY DuckJoinLists
<1> HIDE DEF X
<1>5. QED BY <1>1, <1>2, <1>3, <1>4, SamePicks

(* The two engines merge the same fetched rows into the same joined rows,  *)
(* each as often: hashJoinOn, link by link with what is joined so far, and *)
(* the SQL that DuckDB runs.                                               *)
THEOREM EnginesMergeAlike == Spec => []EnginesAgree
<1>1. QInv => EnginesAgree
  <2> SUFFICES ASSUME QInv, stage = "merge"
               PROVE  DuckJoin.err = GoJoin.err
                      /\ SameRows(GoJoin.rows, DuckJoin.rows)
    BY Zenon DEF EnginesAgree, SameRows
  <2>1. QED BY MergesAgree
<1>2. QED BY <1>1, QInvHolds, PTL

----------------------------------------------------------------------------
(* What a query means.                                                     *)

(* The picks of a place on each side that the links join, the ghosts that  *)
(* one of them stands for, and whether o is what comes out of it.          *)
HitsIn(i, rows) ==
  {p \in Seq(Nat) :
     /\ Len(p) = Len(i.q.from)
     /\ \A k \in 1 .. Len(i.q.from) : p[k] \in DOMAIN rows[k]
     /\ \A k \in 2 .. Len(i.q.from) :
          LET link == LinkIn(i, k)
          IN Val(rows[link.from][p[link.from]], link.fromCol) =
               Val(rows[k][p[k]], link.toCol)}

IdsAt(i, rows, p) == [k \in 1 .. Len(i.q.from) |-> rows[k][p[k]].id]

ShowsPick(i, rows, p, o) ==
  /\ o.ids = IdsAt(i, rows, p)
  /\ \A k \in DOMAIN i.q.select :
       LET s == SideOf(i.q, i.q.select[k].alias)
       IN o.vals[k].of = Val(rows[s][p[s]], i.q.select[k].col)

ExactSides(i, rows) ==
  \A k \in 1 .. Len(i.q.from) :
    /\ rows[k] \in Seq(ClearedIn(i, k))
    /\ Comes(rows[k], Asked(i, rows, k), FieldsIn(i, k))

ShowsHits(i, rows, os) ==
  /\ IsSequence(os)
  /\ \E b \in Bijection(DOMAIN os, HitsIn(i, rows)) :
       \A m \in DOMAIN os : ShowsPick(i, rows, b[m], os[m])

AnswerExact ==
  Obedient /\ stage = "done" /\ out.err = NoError =>
    AcceptedIn(in) /\ ExactSides(in, fetched) /\ ShowsHits(in, fetched, out.rows)

XInv ==
  /\ SidesExact
  /\ stage = "merge" => chunks = <<>>
  /\ AnswerExact

(* A selection has the rows at its places, each once if they were unique.  *)
Unique(s) == \A j, m \in DOMAIN s : s[j].id = s[m].id => j = m

LEMMA ChosenOnce ==
  ASSUME NEW X, NEW s \in Seq(X), Unique(s), NEW places \in SUBSET DOMAIN s
  PROVE  LET c == Chosen(s, places)
         IN /\ c \in Seq(X) /\ Unique(c)
            /\ \A a \in DOMAIN c : \E k \in places : c[a] = s[k]
            /\ \A k \in places : \E a \in DOMAIN c : c[a] = s[k]
<1> DEFINE c == Chosen(s, places)
           nth == [n \in DOMAIN c |-> Nth(places, n)]
<1>1. nth \in Bijection(DOMAIN c, places) /\ \A n \in DOMAIN c : c[n] = s[nth[n]]
  BY ChosenPlaces
<1>2. c \in Seq(X) BY ChosenElements
<1> HIDE DEF nth, c
<1>3. /\ \A n \in DOMAIN c : nth[n] \in places
      /\ \A m, n \in DOMAIN c : nth[m] = nth[n] => m = n
      /\ \A k \in places : \E n \in DOMAIN c : nth[n] = k
  BY <1>1, Fun_BijectionProperties
<1>4. Unique(c) BY <1>1, <1>3 DEF Unique
<1>5. /\ \A a \in DOMAIN c : \E k \in places : c[a] = s[k]
      /\ \A k \in places : \E a \in DOMAIN c : c[a] = s[k]
  BY <1>1, <1>3
<1>6. QED BY <1>2, <1>4, <1>5 DEF c

(* The rows of a server that a query finds, each once.                     *)
FoundIn(server, query) ==
  {d \in ToSet(server.rows) : \A c \in Applied(server, query) : Val(d, c) \in query[c]}

LEMMA FoundOnce ==
  ASSUME NEW server, IsServer(server), NEW query
  PROVE  LET found == FilterRows(server, query)
         IN /\ found \in Seq(ToSet(server.rows)) /\ Unique(found)
            /\ \A j \in DOMAIN found : found[j] \in FoundIn(server, query)
            /\ \A d \in FoundIn(server, query) : \E j \in DOMAIN found : found[j] = d
<1> DEFINE found == FilterRows(server, query)
           rows == server.rows
           pass(d) == \A c \in Applied(server, query) : Val(d, c) \in query[c]
           places == {k \in DOMAIN rows : pass(rows[k])}
<1>1. rows \in Seq(ToSet(rows)) /\ Unique(rows)
  BY SequenceOf DEF IsServer, Unique
<1>2. found = Chosen(rows, places) BY DEF FilterRows
<1>3. places \in SUBSET DOMAIN rows OBVIOUS
<1>4. \A k \in DOMAIN rows : k \in places <=> pass(rows[k]) OBVIOUS
<1>5. \A d : d \in FoundIn(server, query) <=>
               (\E k \in DOMAIN rows : d = rows[k]) /\ pass(d)
  BY DEF FoundIn, ToSet
<1> HIDE DEF found, places, rows, pass
<1>6. /\ found \in Seq(ToSet(rows)) /\ Unique(found)
      /\ \A a \in DOMAIN found : \E k \in places : found[a] = rows[k]
      /\ \A k \in places : \E a \in DOMAIN found : found[a] = rows[k]
  BY <1>1, <1>2, <1>3, ChosenOnce
<1>7. \A j \in DOMAIN found : found[j] \in FoundIn(server, query)
  BY <1>3, <1>4, <1>5, <1>6
<1>8. \A d \in FoundIn(server, query) : \E j \in DOMAIN found : found[j] = d
  BY <1>4, <1>5, <1>6
<1>9. QED BY <1>6, <1>7, <1>8 DEF found, rows

(* A page goes on where the pages before it end, and the last one ends     *)
(* with the last row that is found.                                        *)
LEMMA PageReads ==
  ASSUME NEW server, IsServer(server), NEW fields, NEW query, NEW call,
         NEW X, NEW got0 \in Seq(X),
         Read(got0, FilterRows(server, query), fields),
         NEW answer \in HandleTable(server, call, fields, query, Len(got0)),
         answer.status = "ok", answer.rows \in Seq(X)
  PROVE  LET s == got0 \o answer.rows
         IN /\ s \in Seq(X) /\ Read(s, FilterRows(server, query), fields)
            /\ ~answer.hasMore => Len(s) = Len(FilterRows(server, query))
<1> DEFINE found == FilterRows(server, query)
           offset == Len(got0)
           last == Min({offset + server.pageSize, Len(found)})
           page == SubSeq(found, offset + 1, last)
           rows == [k \in DOMAIN page |-> Cells(page[k], fields)]
           s == got0 \o answer.rows
<1>1. answer = PageFrom(server, fields, query, offset)
  <2>1. \A status \in {"rateLimited", "column", "tooLarge"} : \A field :
          Refusal(status, field).status # "ok"
    BY Zenon DEF Refusal
  <2>2. \/ \E status \in {"rateLimited", "column", "tooLarge"} : \E field :
             answer = Refusal(status, field)
        \/ answer = PageFrom(server, fields, query, offset)
    BY DEF HandleTable
  <2>3. QED BY <2>1, <2>2
<1>2. /\ answer.rows = rows
      /\ answer.hasMore = (offset + server.pageSize < Len(found))
  <2>1. answer = [status |-> "ok", field |-> Empty, rows |-> rows,
                  hasMore |-> offset + server.pageSize < Len(found)]
    BY <1>1 DEF PageFrom, rows, page, last, found
  <2> HIDE DEF rows, found, offset
  <2> DEFINE more == offset + server.pageSize < Len(found)
  <2>2. answer = [status |-> "ok", field |-> Empty, rows |-> rows, hasMore |-> more]
    BY <2>1
  <2> HIDE DEF more
  <2>3. answer.rows = rows /\ answer.hasMore = more BY <2>2, Zenon
  <2>4. QED BY <2>3 DEF more
<1>3. found \in Seq(ToSet(server.rows)) BY FoundOnce
<1>4. /\ offset \in Nat /\ Len(found) \in Nat /\ offset <= Len(found)
      /\ server.pageSize \in Nat \ {0}
      /\ \A k \in 1 .. offset : got0[k] = Cells(found[k], fields)
  BY <1>3 DEF Read, IsServer
<1> HIDE DEF found
<1>5. /\ last \in Nat /\ offset <= last /\ last <= Len(found)
      /\ ~(offset + server.pageSize < Len(found)) => last = Len(found)
  <2> DEFINE a == offset + server.pageSize
             b == Len(found)
  <2>1. a \in Nat /\ b \in Nat /\ offset <= a /\ offset <= b /\ offset \in Nat BY <1>4
  <2> HIDE DEF a, b, offset
  <2>2. Min({a, b}) \in {a, b} /\ Min({a, b}) <= a /\ Min({a, b}) <= b
    <3>1. a \in Int /\ b \in Int BY <2>1
    <3>2. QED BY <3>1, MinOfTwo
  <2>3. /\ Min({a, b}) \in Nat /\ offset <= Min({a, b}) /\ Min({a, b}) <= b
        /\ ~(a < b) => Min({a, b}) = b
    BY <2>1, <2>2
  <2>4. QED BY <2>3 DEF a, b
<1> HIDE DEF last
<1>6. /\ DOMAIN page = 1 .. last - offset
      /\ \A k \in 1 .. last - offset : offset + k \in 1 .. Len(found)
                                      /\ page[k] = found[offset + k]
  BY <1>3, <1>4, <1>5, PartOf
<1>7. DOMAIN rows = 1 .. last - offset
      /\ \A k \in 1 .. last - offset : rows[k] = Cells(found[offset + k], fields)
  BY <1>6
<1> HIDE DEF page, rows
<1>8. s \in Seq(X) /\ Len(rows) = last - offset
  BY <1>2, <1>4, <1>5, <1>7
<1>9. Len(s) = last
  BY <1>2, <1>4, <1>5, <1>8
<1>10. \A k \in DOMAIN s : s[k] = Cells(found[k], fields)
  <2> SUFFICES ASSUME NEW k \in DOMAIN s PROVE s[k] = Cells(found[k], fields)
    OBVIOUS
  <2>1. k \in 1 .. last /\ k \in Nat BY <1>8, <1>9, <1>5
  <2>2. CASE k <= offset
    <3>1. k \in 1 .. offset BY <1>4, <2>1, <2>2
    <3>2. s[k] = got0[k] BY <1>2, <3>1
    <3>3. QED BY <1>4, <3>1, <3>2
  <2>3. CASE ~(k <= offset)
    <3> DEFINE j == k - offset
    <3>1. j \in 1 .. last - offset /\ offset + j = k BY <1>4, <1>5, <2>1, <2>3
    <3>2. s[k] = rows[j] BY <1>2, <1>4, <1>8, <2>1, <2>3
    <3> HIDE DEF j
    <3>3. QED BY <1>7, <3>1, <3>2
  <2>4. QED BY <2>2, <2>3
<1> HIDE DEF s
<1>11. Read(s, found, fields) BY <1>5, <1>9, <1>10 DEF Read
<1>12. ~answer.hasMore => Len(s) = Len(found) BY <1>2, <1>5, <1>9
<1>13. QED BY <1>8, <1>11, <1>12 DEF s, found

(* The alias that a column is written with is that of its side.            *)
LEMMA SideOfAlias ==
  ASSUME NEW i \in Input, AcceptedIn(i), NEW alias \in Aliases(i.q)
  PROVE  /\ SideOf(i.q, alias) \in 1 .. Len(i.q.from)
         /\ \A k \in 1 .. Len(i.q.from) :
              i.q.from[k].alias = alias <=> SideOf(i.q, alias) = k
<1>1. SidesOf(i.q) = 1 .. Len(i.q.from) BY InputFacts
<1>2. PICK k \in 1 .. Len(i.q.from) : i.q.from[k].alias = alias
  BY <1>1 DEF Aliases
<1>3. \A a, b \in 1 .. Len(i.q.from) :
        i.q.from[a].alias = i.q.from[b].alias => a = b
  BY <1>1 DEF AcceptedIn, Buildable
<1>4. /\ SideOf(i.q, alias) \in 1 .. Len(i.q.from)
      /\ i.q.from[SideOf(i.q, alias)].alias = alias
  BY <1>1, <1>2 DEF SideOf
<1>5. QED BY <1>3, <1>4

(* f asks for what the j-th conjunct asks for.                             *)
AsksFor(i, j, f) ==
  /\ f.origin = "user" /\ f.col = i.q.where[j].col
  /\ HasValue(i, f) /\ WantIn(i, f) = i.q.where[j].lit

MineIn(i, k) == {j \in DOMAIN i.q.where : SideOf(i.q, i.q.where[j].alias) = k}

(* A predicate that is pushed is on a column that the connector enforces.  *)
Enforced(i, k, f) ==
  LET caps == i.cat[TableAt(i.q, k)].caps
  IN f.site = "pushed" => f.col \in DOMAIN caps /\ caps[f.col].enforced

MadeOf(i, k, w) ==
  [col |-> w.col, op |-> w.op, val |-> w.val, origin |-> "user",
   site |-> SiteOf(i.cat, TableAt(i.q, k), w.col, w.op)]

LEMMA MadeFields ==
  ASSUME NEW i, NEW k, NEW w
  PROVE  /\ MadeOf(i, k, w).col = w.col /\ MadeOf(i, k, w).val = w.val
         /\ MadeOf(i, k, w).origin = "user"
         /\ MadeOf(i, k, w).site \in {"pushed", "local"}
         /\ Enforced(i, k, MadeOf(i, k, w))
<1> DEFINE site == SiteOf(i.cat, TableAt(i.q, k), w.col, w.op)
           f == MadeOf(i, k, w)
<1>1. /\ site \in {"pushed", "local"}
      /\ site = "pushed" =>
           /\ w.col \in DOMAIN i.cat[TableAt(i.q, k)].caps
           /\ i.cat[TableAt(i.q, k)].caps[w.col].enforced
  BY DEF SiteOf
<1>2. f = [col |-> w.col, op |-> w.op, val |-> w.val, origin |-> "user", site |-> site]
  BY DEF MadeOf
<1> HIDE DEF site, f
<1>3. f.col = w.col /\ f.val = w.val /\ f.origin = "user" /\ f.site = site
  BY <1>2
<1>4. Enforced(i, k, f) BY <1>1, <1>3 DEF Enforced
<1>5. QED BY <1>1, <1>3, <1>4 DEF f

LEMMA SecuredEnforced ==
  ASSUME NEW i, NEW k, NEW r
  PROVE  Enforced(i, k, Secured(i, k, r))
<1> DEFINE site == SiteOf(i.cat, TableAt(i.q, k), r.col, r.op)
           f == Secured(i, k, r)
<1>1. site = "pushed" =>
        /\ r.col \in DOMAIN i.cat[TableAt(i.q, k)].caps
        /\ i.cat[TableAt(i.q, k)].caps[r.col].enforced
  BY DEF SiteOf
<1>2. f = [col |-> r.col, op |-> r.op, val |-> r.val, origin |-> "security", site |-> site]
  BY DEF Secured
<1> HIDE DEF site, f
<1>3. f.col = r.col /\ f.site = site BY <1>2
<1>4. Enforced(i, k, f) BY <1>1, <1>3 DEF Enforced
<1>5. QED BY <1>4 DEF f

LEMMA ParamValue ==
  ASSUME NEW i, NEW j \in DOMAIN i.q.where, NEW f,
         f.origin = "user", f.col = i.q.where[j].col, f.val = <<"param", j>>
  PROVE  AsksFor(i, j, f)
<1>1. f.val[1] = "param" /\ f.val[2] = j OBVIOUS
<1>2. Params(i.q)[j] = i.q.where[j].lit BY DEF Params
<1>3. WantIn(i, f) = i.q.where[j].lit BY <1>1, <1>2 DEF WantIn
<1>4. HasValue(i, f) BY <1>1 DEF HasValue
<1>5. QED BY <1>3, <1>4 DEF AsksFor

(* The conjuncts of a side become its user filters.                        *)
LEMMA UserFilterFacts ==
  ASSUME NEW i \in Input, AcceptedIn(i), NEW k \in 1 .. Len(i.q.from)
  PROVE  LET us == UserFilters(i.q, i.cat, k)
         IN /\ \A m \in DOMAIN us :
                 /\ us[m].site \in {"pushed", "local"} /\ Enforced(i, k, us[m])
                 /\ us[m].origin = "user"
                 /\ \E j \in MineIn(i, k) : AsksFor(i, j, us[m])
            /\ \A j \in MineIn(i, k) : \E m \in DOMAIN us : AsksFor(i, j, us[m])
<1> DEFINE us == UserFilters(i.q, i.cat, k)
           cs == Conjuncts(i.q)
           alias == i.q.from[k].alias
           mine == IF IsJoin(i.q) THEN OfAlias(cs, alias) ELSE cs
           one(j) == [alias |-> IF IsJoin(i.q) THEN i.q.where[j].alias ELSE "",
                      col |-> i.q.where[j].col, op |-> i.q.where[j].op,
                      val |-> ParamOf(i.q, j)]
<1>1. us = [m \in DOMAIN mine |-> MadeOf(i, k, mine[m])]
  BY DEF UserFilters, MadeOf
<1>2. IsSequence(i.q.where) /\ IsStatement(i.q) /\ SidesOf(i.q) = 1 .. Len(i.q.from)
  BY InputFacts DEF IsInput
<1>3. DOMAIN i.q.where = 1 .. Len(i.q.where) /\ Len(i.q.where) \in Nat
  BY <1>2, Sequences
<1>4. /\ DOMAIN cs = DOMAIN i.q.where
      /\ \A j \in DOMAIN i.q.where :
           /\ cs[j].alias = IF IsJoin(i.q) THEN i.q.where[j].alias ELSE ""
           /\ cs[j].col = i.q.where[j].col /\ cs[j].val = <<"param", j>>
  <2>1. cs = [j \in DOMAIN i.q.where |-> one(j)] BY DEF Conjuncts
  <2>2. \A j : /\ one(j).alias = IF IsJoin(i.q) THEN i.q.where[j].alias ELSE ""
               /\ one(j).col = i.q.where[j].col /\ one(j).val = <<"param", j>>
    BY DEF ParamOf
  <2> HIDE DEF one, cs
  <2>3. QED BY <2>1, <2>2
<1>5. \A j \in DOMAIN i.q.where : i.q.where[j].alias \in Aliases(i.q)
  BY DEF AcceptedIn, Buildable
<1>6. \A j \in DOMAIN i.q.where : j \in MineIn(i, k) <=> i.q.where[j].alias = alias
  <2> SUFFICES ASSUME NEW j \in DOMAIN i.q.where
               PROVE  SideOf(i.q, i.q.where[j].alias) = k <=> i.q.where[j].alias = alias
    BY DEF MineIn
  <2> DEFINE mineAlias == i.q.where[j].alias
  <2>1. mineAlias \in Aliases(i.q) BY <1>5
  <2> HIDE DEF mineAlias
  <2>2. i.q.from[k].alias = mineAlias <=> SideOf(i.q, mineAlias) = k
    BY ONLY <2>1, i \in Input, AcceptedIn(i), k \in 1 .. Len(i.q.from), SideOfAlias
  <2>3. QED BY <2>2 DEF mineAlias
<1>7. cs \in Seq(ToSet(cs))
  <2> HIDE DEF cs
  <2>1. cs = [j \in 1 .. Len(i.q.where) |-> cs[j]]
    <3>1. cs = [j \in DOMAIN cs |-> cs[j]] BY DEF Conjuncts, cs
    <3>2. QED BY <1>3, <1>4, <3>1
  <2>2. DOMAIN cs = 1 .. Len(i.q.where) BY <1>3, <1>4
  <2>3. IsSequence(cs) BY <1>3, <2>1, <2>2, IsSeqFunction
  <2>4. QED BY <2>3, SequenceOf
<1> DEFINE places == {j \in DOMAIN cs : cs[j].alias = alias}
<1> HIDE DEF us, cs, one
<1>8. /\ \A m \in DOMAIN mine : \E j \in MineIn(i, k) : mine[m] = cs[j]
      /\ \A j \in MineIn(i, k) : \E m \in DOMAIN mine : mine[m] = cs[j]
  <2>1. CASE IsJoin(i.q)
    <3>1. mine = Chosen(cs, places) BY <2>1 DEF OfAlias
    <3>2. places \in SUBSET DOMAIN cs OBVIOUS
    <3>3. \A j : j \in places <=> j \in MineIn(i, k)
      BY <1>4, <1>6, <2>1 DEF MineIn
    <3> HIDE DEF mine, places
    <3>4. /\ \A m \in DOMAIN mine : \E j \in places : mine[m] = cs[j]
          /\ \A j \in places : \E m \in DOMAIN mine : mine[m] = cs[j]
      BY <1>7, <3>1, <3>2, ChosenElements
    <3>5. QED BY <3>3, <3>4
  <2>2. CASE ~IsJoin(i.q)
    <3>1. mine = cs BY <2>2
    <3>2. Len(i.q.from) = 1 BY <1>2, <2>2, OneTable
    <3>3. k = 1 BY <3>2
    <3>4. \A j \in DOMAIN i.q.where : i.q.where[j].alias = alias
      BY <1>2, <2>2, <3>3 DEF IsStatement
    <3>5. \A j \in DOMAIN i.q.where : j \in MineIn(i, k) BY <1>6, <3>4
    <3>6. \A j \in MineIn(i, k) : j \in DOMAIN i.q.where BY DEF MineIn
    <3> HIDE DEF mine
    <3>7. QED BY <1>4, <3>1, <3>5, <3>6
  <2>3. QED BY <2>1, <2>2
<1> HIDE DEF mine
<1>9. ASSUME NEW m \in DOMAIN mine, NEW j \in MineIn(i, k), mine[m] = cs[j]
      PROVE  AsksFor(i, j, us[m])
  <2>1. us[m] = MadeOf(i, k, mine[m]) BY <1>1
  <2>2. j \in DOMAIN i.q.where BY DEF MineIn
  <2>3. us[m].col = i.q.where[j].col /\ us[m].val = <<"param", j>>
        /\ us[m].origin = "user"
    <3>1. /\ us[m].col = mine[m].col /\ us[m].val = mine[m].val
          /\ us[m].origin = "user"
      BY <2>1, MadeFields
    <3>2. mine[m].col = i.q.where[j].col /\ mine[m].val = <<"param", j>>
      BY <1>4, <1>9, <2>2
    <3>3. QED BY <3>1, <3>2
  <2>4. QED BY <2>2, <2>3, ParamValue
<1>10. DOMAIN us = DOMAIN mine BY <1>1
<1>11. \A m \in DOMAIN us : \E j \in MineIn(i, k) : AsksFor(i, j, us[m])
  BY <1>8, <1>9, <1>10
<1>12. \A j \in MineIn(i, k) : \E m \in DOMAIN us : AsksFor(i, j, us[m])
  BY <1>8, <1>9, <1>10
<1>13. \A m \in DOMAIN us :
         /\ us[m].site \in {"pushed", "local"} /\ Enforced(i, k, us[m])
         /\ us[m].origin = "user"
  BY <1>1, <1>10, MadeFields
<1>14. QED BY <1>11, <1>12, <1>13 DEF us

(* The filters of a side: the residuals of its table, then its conjuncts.  *)
IsResidual(i, k, f) ==
  \E r \in ToSet(Residuals(DocIn(i), TableAt(i.q, k))) : f.col = r.col /\ f.val = r.val

IsFilter(i, k, f) ==
  /\ f.site \in {"pushed", "local"} /\ Enforced(i, k, f)
  /\ \/ f.origin = "user" /\ \E j \in MineIn(i, k) : AsksFor(i, j, f)
     \/ f.origin = "security" /\ IsResidual(i, k, f)

LEMMA FilterOrigins ==
  ASSUME NEW i \in Input, AcceptedIn(i), NEW k \in 1 .. Len(i.q.from)
  PROVE  LET fs == FiltersIn(i, k)
         IN /\ \A j \in DOMAIN fs : IsFilter(i, k, fs[j])
            /\ \A j \in MineIn(i, k) : \E m \in DOMAIN fs : AsksFor(i, j, fs[m])
            /\ \A j, m \in DOMAIN fs :
                 fs[j].origin = "user" /\ fs[m].origin = "security" => m < j
<1> DEFINE us == UserFilters(i.q, i.cat, k)
           rs == Residuals(DocIn(i), TableAt(i.q, k))
           ss == SecurityFilters(i.q, i.cat, DocIn(i), k)
           fs == FiltersIn(i, k)
<1>1. IsSequence(us) BY UserFiltersAreSequence
<1>2. IsSequence(rs)
  <2>1. IsSequence(DocIn(i).rls) BY AcceptedDoc DEF IsPolicy
  <2>2. rs \in Seq(ToSet(DocIn(i).rls))
    BY <2>1, SequenceOf, ChosenElements DEF Residuals
  <2>3. QED BY <2>2, IsSeq
<1>3. ss = [j \in DOMAIN rs |-> Secured(i, k, rs[j])]
  BY DEF SecurityFilters, Secured
<1>4. DOMAIN rs = 1 .. Len(rs) /\ Len(rs) \in Nat
  <2> HIDE DEF rs
  <2>1. QED BY <1>2, Sequences
<1>5. IsSequence(ss) /\ Len(ss) = Len(rs)
  <2> HIDE DEF ss, rs
  <2>1. QED BY <1>3, <1>4, IsSeqFunction
<1>6. fs = Reverse(us \o ss) BY DEF FiltersIn, FiltersOf
<1>7. \A m \in DOMAIN us : us[m].origin = "user" /\ IsFilter(i, k, us[m])
  BY UserFilterFacts DEF IsFilter
<1>8. \A m \in DOMAIN rs : ss[m].origin = "security" /\ IsFilter(i, k, ss[m])
  <2> HIDE DEF ss, rs
  <2> SUFFICES ASSUME NEW m \in DOMAIN rs
               PROVE  ss[m].origin = "security" /\ IsFilter(i, k, ss[m])
    OBVIOUS
  <2>1. ss[m] = Secured(i, k, rs[m]) BY <1>3
  <2>2. /\ ss[m].col = rs[m].col /\ ss[m].val = rs[m].val
        /\ ss[m].origin = "security" /\ ss[m].site \in {"pushed", "local"}
        /\ Enforced(i, k, ss[m])
    BY <2>1, SecuredFields, SecuredEnforced
  <2>3. rs[m] \in ToSet(rs) BY DEF ToSet
  <2>4. IsResidual(i, k, ss[m]) BY <2>2, <2>3 DEF IsResidual, rs
  <2>5. QED BY <2>2, <2>4 DEF IsFilter
<1>9. \A j \in MineIn(i, k) : \E m \in DOMAIN us : AsksFor(i, j, us[m])
  BY UserFilterFacts
<1> HIDE DEF us, rs, ss, fs
<1> DEFINE X == ToSet(us) \cup ToSet(ss)
<1>10. us \in Seq(X) /\ ss \in Seq(X)
  <2>1. us \in Seq(ToSet(us)) /\ ss \in Seq(ToSet(ss)) BY <1>1, <1>5, SequenceOf
  <2>2. QED BY <2>1
<1> HIDE DEF X
<1> DEFINE all == us \o ss
<1>11. /\ all \in Seq(X) /\ Len(all) = Len(us) + Len(ss)
       /\ \A j \in 1 .. Len(all) :
            all[j] = IF j <= Len(us) THEN us[j] ELSE ss[j - Len(us)]
  BY <1>10
<1>12. Len(us) \in Nat /\ Len(ss) \in Nat /\ Len(all) \in Nat
       /\ DOMAIN us = 1 .. Len(us)
  BY <1>10, <1>11
<1> HIDE DEF all
<1>13. fs = [j \in 1 .. Len(all) |-> all[(Len(all) - j) + 1]]
  BY <1>6 DEF Reverse, all
<1> DEFINE at(j) == (Len(all) - j) + 1
<1>14. \A j \in DOMAIN fs : at(j) \in 1 .. Len(all) /\ fs[j] = all[at(j)]
  BY <1>12, <1>13
<1>15. \A m \in 1 .. Len(all) :
         \/ m <= Len(us) /\ all[m].origin = "user" /\ IsFilter(i, k, all[m])
         \/ ~(m <= Len(us)) /\ all[m].origin = "security" /\ IsFilter(i, k, all[m])
  <2> SUFFICES ASSUME NEW m \in 1 .. Len(all)
               PROVE \/ /\ m <= Len(us) /\ all[m].origin = "user"
                        /\ IsFilter(i, k, all[m])
                     \/ /\ ~(m <= Len(us)) /\ all[m].origin = "security"
                        /\ IsFilter(i, k, all[m])
    OBVIOUS
  <2>1. CASE m <= Len(us)
    <3>1. all[m] = us[m] /\ m \in DOMAIN us BY <1>11, <1>12, <2>1
    <3>2. QED BY <1>7, <2>1, <3>1
  <2>2. CASE ~(m <= Len(us))
    <3>1. all[m] = ss[m - Len(us)] /\ m - Len(us) \in DOMAIN rs
      BY <1>4, <1>5, <1>11, <1>12, <2>2
    <3>2. QED BY <1>8, <2>2, <3>1
  <2>3. QED BY <2>1, <2>2
<1>16. \A j \in DOMAIN fs : IsFilter(i, k, fs[j]) BY <1>14, <1>15
<1>17. \A j \in MineIn(i, k) : \E m \in DOMAIN fs : AsksFor(i, j, fs[m])
  <2> SUFFICES ASSUME NEW j \in MineIn(i, k)
               PROVE  \E m \in DOMAIN fs : AsksFor(i, j, fs[m])
    OBVIOUS
  <2>1. PICK n \in DOMAIN us : AsksFor(i, j, us[n]) BY <1>9
  <2>2. at(n) \in DOMAIN fs /\ at(at(n)) = n /\ n \in 1 .. Len(all) /\ n <= Len(us)
    BY <1>11, <1>12, <1>13
  <2>3. fs[at(n)] = all[n] BY <1>14, <2>2
  <2>4. all[n] = us[n] BY <1>11, <2>2
  <2>5. QED BY <2>1, <2>2, <2>3, <2>4
<1>18. \A j, m \in DOMAIN fs :
         fs[j].origin = "user" /\ fs[m].origin = "security" => m < j
  <2> SUFFICES ASSUME NEW j \in DOMAIN fs, NEW m \in DOMAIN fs,
                      fs[j].origin = "user", fs[m].origin = "security"
               PROVE  m < j
    OBVIOUS
  <2>1. "user" # "security" OBVIOUS
  <2>2. at(j) <= Len(us) BY <1>14, <1>15, <2>1
  <2>3. ~(at(m) <= Len(us)) BY <1>14, <1>15, <2>1
  <2>4. QED BY <1>12, <1>13, <2>2, <2>3
<1>19. QED BY <1>16, <1>17, <1>18 DEF fs

----------------------------------------------------------------------------
(* One fetch.  What a connector that obeys is asked to filter by.          *)
LEMMA CellsShow ==
  ASSUME NEW d, NEW fields, NEW c \in fields
  PROVE  Cells(d, fields).id = d.id /\ Val(Cells(d, fields), c) = Val(d, c)
BY DEF Cells, Val

LEMMA PushedFacts ==
  ASSUME NEW filters, IsSequence(filters), NEW chunk
  PROVE  LET query == PushedFilters(filters, chunk)
             sent == At(filters, "pushed")
         IN /\ \A c \in DOMAIN chunk : c \in DOMAIN query /\ query[c] = chunk[c]
            /\ \A j \in sent : filters[j].col \in DOMAIN query
            /\ \A c \in DOMAIN query \ DOMAIN chunk :
                 \E m \in sent :
                   /\ filters[m].col = c /\ query[c] = {Want(filters[m])}
                   /\ \A j \in sent : filters[j].col = c => j <= m
<1> DEFINE sent == At(filters, "pushed")
           on(c) == {k \in sent : filters[k].col = c}
           query == PushedFilters(filters, chunk)
           cols == {filters[k].col : k \in sent}
           val(c) == IF c \in DOMAIN chunk THEN chunk[c]
                     ELSE {Want(filters[Latest(on(c))])}
<1>1. query = [c \in cols \cup DOMAIN chunk |-> val(c)] BY DEF PushedFilters
<1>2. DOMAIN filters = 1 .. Len(filters) /\ Len(filters) \in Nat BY Sequences
<1>3. sent \in SUBSET (1 .. Len(filters)) BY <1>2 DEF At
<1>4. \A j \in sent : filters[j].col \in cols OBVIOUS
<1>5. \A c \in cols : \E k \in sent : filters[k].col = c OBVIOUS
<1>6. \A c \in cols : Latest(on(c)) \in on(c) /\ \A j \in on(c) : j <= Latest(on(c))
  <2> SUFFICES ASSUME NEW c \in cols
               PROVE Latest(on(c)) \in on(c) /\ \A j \in on(c) : j <= Latest(on(c))
    OBVIOUS
  <2>1. on(c) \in SUBSET (1 .. Len(filters)) BY <1>3
  <2>2. on(c) # {} BY <1>5
  <2> HIDE DEF on
  <2>3. IsLast(on(c), Latest(on(c))) BY <1>2, <2>1, <2>2, HasLast
  <2>4. QED BY <2>3 DEF IsLast
<1> HIDE DEF query, sent, cols
<1>7. DOMAIN query = cols \cup DOMAIN chunk
      /\ \A c \in cols \cup DOMAIN chunk : query[c] = val(c)
  <2> HIDE DEF val
  <2>1. QED BY <1>1
<1>8. \A c \in DOMAIN chunk : c \in DOMAIN query /\ query[c] = chunk[c]
  BY <1>7
<1>9. \A j \in sent : filters[j].col \in DOMAIN query BY <1>4, <1>7
<1>10. ASSUME NEW c \in DOMAIN query \ DOMAIN chunk
       PROVE  \E m \in sent :
                   /\ filters[m].col = c /\ query[c] = {Want(filters[m])}
                   /\ \A j \in sent : filters[j].col = c => j <= m
  <2>1. c \in cols /\ query[c] = {Want(filters[Latest(on(c))])} BY <1>7
  <2> DEFINE m == Latest(on(c))
  <2>2. m \in on(c) /\ \A j \in on(c) : j <= m BY <1>6, <2>1
  <2>3. query[c] = {Want(filters[m])} BY <2>1
  <2> HIDE DEF m
  <2>4. m \in sent /\ filters[m].col = c /\ \A j \in sent : filters[j].col = c => j <= m
    BY <2>2
  <2>5. QED BY <2>3, <2>4
<1>11. QED BY <1>8, <1>9, <1>10 DEF query, sent

(* A connector that obeys applies all it is sent.                          *)
LEMMA AllApplied ==
  ASSUME QInv, fetched # <<>>, Obedient, NEW chunk, IsProbe(in, side, chunk)
  PROVE  LET query == PushedFilters(Filters, chunk)
         IN Applied(in.server[Table], query) = DOMAIN query
<1> DEFINE query == PushedFilters(Filters, chunk)
           server == in.server[Table]
<1>1. /\ in \in Input /\ AcceptedIn(in) /\ side \in 1 .. Len(in.q.from)
  BY DEF QInv, Busy
<1>2. Filters = FiltersIn(in, side) /\ Table = TableAt(in.q, side) BY Here
<1>3. IsSequence(Filters) BY <1>1, <1>2, FilterFacts
<1>4. SidesOf(in.q) = 1 .. Len(in.q.from) BY <1>1, InputFacts
<1>5. Table \in DOMAIN in.server
  <2>1. Table \in ParseTables(in.q) BY <1>1, <1>2, <1>4 DEF ParseTables
  <2>2. QED BY <1>1, <2>1, InputFacts DEF AcceptedIn, IsInput
<1>6. CASE server.kind # "sf" BY <1>6 DEF Applied
<1>7. CASE server.kind = "sf"
  <2> DEFINE caps == in.cat[Table].caps
             probes == {j \in SidesOf(in.q) \ {1} : TableAt(in.q, j) = Table}
  <2>1. /\ {c \in DOMAIN caps : caps[c].enforced} \subseteq server.filtered
        /\ {LinkTo(in.q, in.cat, j).toCol : j \in probes} \subseteq server.filtered
    BY <1>5, <1>7 DEF Obedient
  <2>2. DOMAIN query \subseteq server.filtered
    <3> SUFFICES ASSUME NEW c \in DOMAIN query PROVE c \in server.filtered OBVIOUS
    <3>1. CASE c \in DOMAIN chunk
      <4>1. side # 1 /\ c = LinkIn(in, side).toCol BY <3>1 DEF IsProbe
      <4>2. side \in probes BY <1>1, <1>2, <1>4, <4>1
      <4>3. QED BY <2>1, <4>1, <4>2 DEF LinkIn
    <3>2. CASE c \notin DOMAIN chunk
      <4>1. PICK m \in At(Filters, "pushed") : Filters[m].col = c
        BY <1>3, <3>2, PushedFacts
      <4>2. m \in DOMAIN Filters /\ Filters[m].site = "pushed" BY <4>1 DEF At
      <4>3. IsFilter(in, side, Filters[m]) BY <1>1, <1>2, <4>2, FilterOrigins
      <4>4. c \in DOMAIN caps /\ caps[c].enforced
        BY <1>2, <4>1, <4>2, <4>3 DEF IsFilter, Enforced
      <4>5. QED BY <2>1, <4>4
    <3>3. QED BY <3>1, <3>2
  <2>3. QED BY <1>7, <2>2 DEF Applied
<1>8. QED BY <1>6, <1>7

(* A row that the source finds, that passes the local filters and whose    *)
(* security holds, passes every filter.                                    *)
LEMMA FoundAreGood ==
  ASSUME QInv, fetched # <<>>, Obedient, ConjunctsReachSources,
         NEW chunk, IsProbe(in, side, chunk),
         NEW d \in FoundIn(in.server[Table], PushedFilters(Filters, chunk)),
         \A j \in DOMAIN Filters :
           Filters[j].origin = "security" => Clears(in, Filters[j], d),
         \A j \in At(Filters, "local") : Val(d, Filters[j].col) = Want(Filters[j])
  PROVE  GoodIn(in, side, d) /\ InChunk(chunk, d)
<1> DEFINE query == PushedFilters(Filters, chunk)
           server == in.server[Table]
<1>1. /\ in \in Input /\ AcceptedIn(in) /\ side \in 1 .. Len(in.q.from)
  BY DEF QInv, Busy
<1>2. Filters = FiltersIn(in, side) /\ \A f : Want(f) = WantIn(in, f) BY Here
<1>3. IsSequence(Filters) BY <1>1, <1>2, FilterFacts
<1>4. DOMAIN Filters = 1 .. Len(Filters) /\ Len(Filters) \in Nat BY <1>3, Sequences
<1>5. \A c \in DOMAIN query : Val(d, c) \in query[c]
  BY AllApplied DEF FoundIn
<1>6. InChunk(chunk, d)
  <2>1. \A c \in DOMAIN chunk : c \in DOMAIN query /\ query[c] = chunk[c]
    BY <1>3, PushedFacts
  <2>2. QED BY <1>5, <2>1 DEF InChunk
<1>7. ASSUME NEW j \in DOMAIN Filters PROVE Clears(in, Filters[j], d)
  <2>1. IsFilter(in, side, Filters[j]) BY <1>1, <1>2, FilterOrigins
  <2>2. CASE Filters[j].origin = "security" BY <2>2
  <2>3. CASE Filters[j].origin = "user"
    <3>1. HasValue(in, Filters[j])
      BY <2>1, <2>3 DEF IsFilter, AsksFor
    <3>2. CASE Filters[j].site = "local"
      <4>1. j \in At(Filters, "local") BY <3>2 DEF At
      <4>2. Val(d, Filters[j].col) = Want(Filters[j]) BY <4>1
      <4>3. QED BY <1>2, <3>1, <4>2 DEF Clears
    <3>3. CASE Filters[j].site = "pushed"
      <4> DEFINE c == Filters[j].col
      <4>1. j \in At(Filters, "pushed") BY <3>3 DEF At
      <4>2. c \in DOMAIN query BY <1>3, <4>1, PushedFacts
      <4>3. Filters[j] \in UserPushed(in, side)
        <5>1. Filters[j] \in ToSet(FiltersIn(in, side)) BY <1>2 DEF ToSet
        <5>2. QED BY <2>3, <3>3, <5>1 DEF UserPushed
      <4>4. /\ side > 1 => c # LinkIn(in, side).toCol
            /\ \A g \in UserPushed(in, side) :
                 g.col = c => WantIn(in, g) = WantIn(in, Filters[j])
        BY <1>1, <4>3 DEF ConjunctsReachSources, ReachIn
      <4>5. c \notin DOMAIN chunk
        <5>1. CASE side = 1 BY <5>1 DEF IsProbe
        <5>2. CASE side # 1
          <6>1. side > 1 BY <1>1, <5>2
          <6>2. QED BY <4>4, <5>2, <6>1 DEF IsProbe
        <5>3. QED BY <5>1, <5>2
      <4>6. PICK m \in At(Filters, "pushed") :
                 /\ Filters[m].col = c /\ query[c] = {Want(Filters[m])}
                 /\ \A l \in At(Filters, "pushed") : Filters[l].col = c => l <= m
        BY <1>3, <4>2, <4>5, PushedFacts
      <4>7. m \in DOMAIN Filters /\ Filters[m].site = "pushed" /\ j <= m
        BY <4>1, <4>6 DEF At
      <4>8. Filters[m].origin = "user"
        <5>1. IsFilter(in, side, Filters[m]) BY <1>1, <1>2, <4>7, FilterOrigins
        <5>2. Filters[m].origin = "security" => m < j
          BY <1>1, <1>2, <2>3, <4>7, FilterOrigins
        <5>3. QED BY <1>4, <4>7, <5>1, <5>2 DEF IsFilter
      <4>9. Filters[m] \in UserPushed(in, side)
        <5>1. Filters[m] \in ToSet(FiltersIn(in, side)) BY <1>2, <4>7 DEF ToSet
        <5>2. QED BY <4>7, <4>8, <5>1 DEF UserPushed
      <4>10. WantIn(in, Filters[m]) = WantIn(in, Filters[j]) BY <4>4, <4>6, <4>9
      <4>11. Val(d, c) = Want(Filters[m]) BY <1>5, <4>2, <4>6
      <4>12. Val(d, Filters[j].col) = WantIn(in, Filters[j])
        BY <1>2, <4>10, <4>11
      <4>13. QED BY <3>1, <4>12 DEF Clears
    <3>4. QED BY <2>1, <3>2, <3>3 DEF IsFilter
  <2>4. QED BY <2>1, <2>2, <2>3 DEF IsFilter
<1>8. GoodIn(in, side, d) BY <1>2, <1>7 DEF GoodIn
<1>9. QED BY <1>6, <1>8

(* Conversely, what an IN-list reaches and passes the filters is found.    *)
LEMMA GoodAreFound ==
  ASSUME QInv, fetched # <<>>, NEW chunk,
         NEW d \in DataIn(in, side), GoodIn(in, side, d), InChunk(chunk, d)
  PROVE  d \in FoundIn(in.server[Table], PushedFilters(Filters, chunk))
<1> DEFINE query == PushedFilters(Filters, chunk)
           server == in.server[Table]
<1>1. /\ in \in Input /\ AcceptedIn(in) /\ side \in 1 .. Len(in.q.from)
  BY DEF QInv, Busy
<1>2. /\ Filters = FiltersIn(in, side) /\ Table = TableAt(in.q, side)
      /\ \A f : Want(f) = WantIn(in, f)
  BY Here
<1>3. IsSequence(Filters) BY <1>1, <1>2, FilterFacts
<1>4. d \in ToSet(server.rows) BY <1>2 DEF DataIn, TableOfIn
<1>5. ASSUME NEW c \in DOMAIN query PROVE Val(d, c) \in query[c]
  <2>1. CASE c \in DOMAIN chunk
    <3>1. query[c] = chunk[c] BY <1>3, <2>1, PushedFacts
    <3>2. QED BY <2>1, <3>1 DEF InChunk
  <2>2. CASE c \notin DOMAIN chunk
    <3>1. PICK m \in At(Filters, "pushed") :
                 Filters[m].col = c /\ query[c] = {Want(Filters[m])}
      BY <1>3, <2>2, PushedFacts
    <3>2. m \in DOMAIN Filters BY DEF At
    <3>3. Clears(in, Filters[m], d) BY <1>2, <3>2 DEF GoodIn
    <3>4. QED BY <1>2, <3>1, <3>3 DEF Clears
  <2>3. QED BY <2>1, <2>2
<1>6. Applied(server, query) \subseteq DOMAIN query BY DEF Applied
<1>7. QED BY <1>4, <1>5, <1>6 DEF FoundIn

Fresh(i, k, chunk) == {d \in DataIn(i, k) : GoodIn(i, k, d) /\ InChunk(chunk, d)}

(* What is kept of the pages of a chunk are the rows of the chunk.         *)
LEMMA KeptAreFresh ==
  ASSUME QInv, fetched # <<>>, chunks # <<>>, ~Unsendable,
         Obedient, ConjunctsReachSources,
         NEW rows \in Seq(RowsIn(in, side)),
         Read(rows, FilterRows(in.server[Table], Call.pushed), Columns),
         Len(rows) = Len(FilterRows(in.server[Table], Call.pushed)),
         Verified(rows, Filters), ~Stuck(rows, Filters)
  PROVE  Comes(Kept(rows, Filters), Fresh(in, side, Head(chunks)), Columns)
<1> DEFINE chunk == Head(chunks)
           query == PushedFilters(Filters, chunk)
           server == in.server[Table]
           found == FilterRows(server, query)
           kept == Kept(rows, Filters)
           places == {k \in DOMAIN rows :
                        \A j \in At(Filters, "local") : Passes(rows[k], Filters[j])}
<1>1. /\ in \in Input /\ AcceptedIn(in) /\ side \in 1 .. Len(in.q.from)
      /\ IsSequence(chunks) /\ \A c \in DOMAIN chunks : IsProbe(in, side, chunks[c])
  BY DEF QInv, Busy
<1>2. /\ Filters = FiltersIn(in, side) /\ Table = TableAt(in.q, side)
      /\ Columns = ScanProject(in.q, in.cat, DocIn(in), side)
      /\ \A f : Want(f) = WantIn(in, f)
      /\ IsServer(server)
  BY Here
<1>3. IsProbe(in, side, chunk)
  <2>1. Head(chunks) = chunks[1] /\ 1 \in DOMAIN chunks BY <1>1, Sequences
  <2>2. QED BY <1>1, <2>1
<1>4. Call.pushed = query BY DEF Call
<1>5. \A j \in DOMAIN Filters : Filters[j].col \in Columns
  BY <1>1, <1>2, FilterFacts
<1>6. /\ Unique(found)
      /\ \A j \in DOMAIN found : found[j] \in FoundIn(server, query)
      /\ \A d \in FoundIn(server, query) : \E j \in DOMAIN found : found[j] = d
      /\ DOMAIN found = 1 .. Len(found)
  BY <1>2, FoundOnce
<1>7. /\ DOMAIN rows = DOMAIN found
      /\ \A p \in DOMAIN rows : rows[p] = Cells(found[p], Columns)
  <2>1. DOMAIN rows = 1 .. Len(rows) OBVIOUS
  <2>2. Len(rows) = Len(found) BY <1>4
  <2>3. Read(rows, found, Columns) BY <1>4
  <2> HIDE DEF found
  <2>4. QED BY <1>6, <2>1, <2>2, <2>3 DEF Read
<1>8. kept = Chosen(rows, places) /\ places \in SUBSET DOMAIN rows BY DEF Kept
<1>9. kept \in Seq(ClearedIn(in, side)) BY KeptAreCleared
<1>10. \A p \in DOMAIN rows :
         p \in places <=> \A j \in At(Filters, "local") : Passes(rows[p], Filters[j])
  OBVIOUS
<1>11. \A d \in FoundIn(server, query) : d \in DataIn(in, side)
  BY <1>2 DEF FoundIn, DataIn, TableOfIn
<1> HIDE DEF found, kept, places, query, server, chunk
<1>12. Unique(rows)
  <2>1. \A p \in DOMAIN rows : rows[p].id = found[p].id BY <1>7 DEF Cells
  <2>2. QED BY <1>6, <1>7, <2>1 DEF Unique
<1> DEFINE X == RowsIn(in, side)
<1>13. /\ Unique(kept)
       /\ \A a \in DOMAIN kept : \E p \in places : kept[a] = rows[p]
       /\ \A p \in places : \E a \in DOMAIN kept : kept[a] = rows[p]
  <2>1. rows \in Seq(X) OBVIOUS
  <2> HIDE DEF X
  <2>2. QED BY <1>8, <1>12, <2>1, ChosenOnce
<1>14. ASSUME NEW a \in DOMAIN kept
       PROVE  \E d \in Fresh(in, side, chunk) : kept[a] = Cells(d, Columns)
  <2>1. PICK p \in places : kept[a] = rows[p] BY <1>13
  <2>2. p \in DOMAIN rows BY <1>8
  <2> DEFINE d == found[p]
  <2>3. /\ kept[a] = Cells(d, Columns) /\ rows[p] = Cells(d, Columns)
        /\ d \in FoundIn(server, query)
    BY <1>6, <1>7, <2>1, <2>2
  <2> HIDE DEF d
  <2>4. \A j \in DOMAIN Filters :
          Filters[j].origin = "security" => Clears(in, Filters[j], d)
    <3>1. kept[a] \in ClearedIn(in, side) BY <1>9
    <3>2. \A j \in DOMAIN Filters :
            Filters[j].origin = "security" => Clears(in, Filters[j], kept[a])
      BY <1>2, <3>1 DEF ClearedIn
    <3>3. \A j \in DOMAIN Filters : Val(kept[a], Filters[j].col) = Val(d, Filters[j].col)
      BY <1>5, <2>3, CellsShow
    <3>4. QED BY <3>2, <3>3 DEF Clears
  <2>5. \A j \in At(Filters, "local") : Val(d, Filters[j].col) = Want(Filters[j])
    <3>1. \A j \in At(Filters, "local") : Passes(rows[p], Filters[j])
      BY <1>10, <2>2
    <3>2. \A j \in At(Filters, "local") : j \in DOMAIN Filters BY DEF At
    <3>3. \A j \in DOMAIN Filters : Val(rows[p], Filters[j].col) = Val(d, Filters[j].col)
      BY <1>5, <2>3, CellsShow
    <3>4. QED BY <3>1, <3>2, <3>3 DEF Passes
  <2>6. GoodIn(in, side, d) /\ InChunk(chunk, d)
    BY <1>3, <2>3, <2>4, <2>5, FoundAreGood DEF server, query
  <2>7. d \in Fresh(in, side, chunk) BY <1>11, <2>3, <2>6 DEF Fresh
  <2>8. QED BY <2>3, <2>7
<1>15. ASSUME NEW d \in Fresh(in, side, chunk)
       PROVE  \E a \in DOMAIN kept : kept[a] = Cells(d, Columns)
  <2>1. d \in DataIn(in, side) /\ GoodIn(in, side, d) /\ InChunk(chunk, d)
    BY DEF Fresh
  <2>2. d \in FoundIn(server, query) BY <2>1, GoodAreFound DEF server, query
  <2>3. PICK p \in DOMAIN rows : found[p] = d BY <1>6, <1>7, <2>2
  <2>4. rows[p] = Cells(d, Columns) BY <1>7, <2>3
  <2>5. \A j \in At(Filters, "local") : Passes(rows[p], Filters[j])
    <3> SUFFICES ASSUME NEW j \in At(Filters, "local") PROVE Passes(rows[p], Filters[j])
      OBVIOUS
    <3>1. j \in DOMAIN Filters BY DEF At
    <3>2. Clears(in, Filters[j], d) BY <1>2, <2>1, <3>1 DEF GoodIn
    <3>3. Val(rows[p], Filters[j].col) = Val(d, Filters[j].col)
      BY <1>5, <2>4, <3>1, CellsShow
    <3>4. QED BY <1>2, <3>2, <3>3 DEF Clears, Passes
  <2>6. p \in places BY <1>10, <2>5
  <2>7. QED BY <1>13, <2>4, <2>6
<1>16. Comes(kept, Fresh(in, side, chunk), Columns)
  BY <1>13, <1>14, <1>15 DEF Comes, Unique
<1>17. QED BY <1>16 DEF kept, chunk

----------------------------------------------------------------------------
(* The chunks of a probe: every key is in one of them, and in no other.    *)
LEMMA ListedOnce ==
  ASSUME NEW S, IsFiniteSet(S)
  PROVE  LET s == SetToSeq(S)
         IN ToSet(s) = S /\ \A a, b \in DOMAIN s : s[a] = s[b] => a = b
<1> DEFINE n == Cardinality(S)
           s == SetToSeq(S)
<1>1. n \in Nat /\ ExistsBijection(1 .. n, S) BY FS_CardinalityType
<1>2. PICK g : g \in Bijection(1 .. n, S) BY <1>1 DEF ExistsBijection
<1>3. g \in [1 .. n -> S] /\ IsInjective(g)
  BY <1>2 DEF Bijection, Injection, IsInjective
<1>4. s \in [1 .. n -> S] /\ IsInjective(s) BY <1>3 DEF SetToSeq
<1> HIDE DEF s
<1>5. \A a, b \in DOMAIN s : s[a] = s[b] => a = b BY <1>4 DEF IsInjective
<1>6. DOMAIN s = 1 .. n /\ s \in Injection(1 .. n, S)
  <2> HIDE DEF n
  <2>1. DOMAIN s = 1 .. n BY <1>4
  <2>2. QED BY <1>4, <1>5, <2>1, Fun_IsInj
<1>7. Cardinality(1 .. n) = n
  <2> HIDE DEF n
  <2>1. Cardinality(1 .. n) = IF 1 > n THEN 0 ELSE n - 1 + 1 BY <1>1, FS_Interval
  <2>2. QED BY <1>1, <2>1
<1>8. s \in Surjection(1 .. n, S)
  <2>1. Cardinality(1 .. n) = Cardinality(S) BY <1>7
  <2> HIDE DEF n
  <2>2. QED BY <1>6, <2>1, FS_Injection
<1>9. \A v \in S : \E a \in 1 .. n : s[a] = v
  <2> HIDE DEF n
  <2>1. QED BY <1>8 DEF Surjection
<1>10. ToSet(s) = S
  <2> HIDE DEF n
  <2>1. \A a \in 1 .. n : s[a] \in S BY <1>4
  <2>2. QED BY <1>6, <1>9, <2>1 DEF ToSet
<1>11. QED BY <1>5, <1>10 DEF s

LEMMA Quotient ==
  ASSUME NEW a \in Nat, NEW b \in Nat \ {0}
  PROVE  LET q == a \div b
         IN q \in Nat /\ q * b <= a /\ a < (q + 1) * b
<1>1. /\ a \div b \in Int /\ a = b * (a \div b) + (a % b)
      /\ a % b \in 0 .. b - 1
  OBVIOUS
<1> DEFINE q == a \div b
           r == a % b
<1>2. q \in Int /\ r \in 0 .. b - 1 /\ a = b * q + r BY <1>1
<1> HIDE DEF q, r
<1>3. q * b = b * q /\ (q + 1) * b = b * q + b BY <1>2
<1>4. q * b <= a /\ a < (q + 1) * b
  <2> DEFINE p == b * q
  <2>1. p \in Int BY <1>2
  <2>2. a = p + r /\ q * b = p /\ (q + 1) * b = p + b BY <1>2, <1>3
  <2> HIDE DEF p
  <2>3. QED BY <1>2, <2>1, <2>2
<1>5. q \in Nat
  <2> SUFFICES ASSUME q < 0 PROVE FALSE BY <1>2
  <2>1. (q + 1) * b <= 0 BY <1>2
  <2>2. QED BY <1>2, <1>4, <2>1
<1>6. QED BY <1>4, <1>5 DEF q

LEMMA FewerTimes ==
  ASSUME NEW a \in Nat, NEW b \in Nat, NEW n \in Nat
  PROVE  a * n < b * n => a < b
<1> SUFFICES ASSUME ~(a < b) PROVE ~(a * n < b * n) OBVIOUS
<1> DEFINE d == a - b
<1>1. d \in Nat /\ a = b + d OBVIOUS
<1> HIDE DEF d
<1>2. a * n = b * n + d * n BY <1>1
<1>3. d * n \in Nat /\ b * n \in Nat BY <1>1
<1>4. QED BY <1>2, <1>3

(* The keys of the k-th chunk are those at its places.                     *)
LEMMA ChunkPlaces ==
  ASSUME NEW keys, IsSequence(keys), NEW size \in Nat \ {0},
         NEW k \in DOMAIN ChunkStrings(keys, size)
  PROVE  /\ k \in Nat \ {0}
         /\ \A v : v \in ToSet(ChunkStrings(keys, size)[k]) <=>
              \E p \in DOMAIN keys :
                keys[p] = v /\ (k - 1) * size < p /\ p <= k * size
<1> DEFINE n == (Len(keys) + size - 1) \div size
           before == (k - 1) * size
           last == Min({k * size, Len(keys)})
           c == ChunkStrings(keys, size)[k]
<1>1. Len(keys) \in Nat /\ keys \in Seq(ToSet(keys)) /\ DOMAIN keys = 1 .. Len(keys)
  BY Sequences, SequenceOf
<1>2. n \in Nat
  <2>1. Len(keys) + size - 1 \in Nat BY <1>1
  <2>2. QED BY <2>1
<1>3. k \in 1 .. n /\ c = SubSeq(keys, before + 1, last) BY DEF ChunkStrings
<1>4. k \in Nat /\ k # 0 /\ before \in Nat /\ k * size \in Nat /\ k * size = before + size
  <2>1. k \in Nat /\ k # 0 /\ k - 1 \in Nat BY <1>2, <1>3
  <2>2. QED BY <2>1
<1>5. last \in {k * size, Len(keys)} /\ last \in Int
      /\ last <= k * size /\ last <= Len(keys)
  <2> DEFINE a == k * size
             b == Len(keys)
  <2>1. a \in Int /\ b \in Int BY <1>1, <1>4
  <2> HIDE DEF a, b
  <2>2. Min({a, b}) \in {a, b} /\ Min({a, b}) <= a /\ Min({a, b}) <= b
    BY <2>1, MinOfTwo
  <2>3. Min({a, b}) \in Int BY <2>1, <2>2
  <2>4. QED BY <2>2, <2>3 DEF a, b
<1> DEFINE end == k * size
<1>6. end \in Nat /\ last \in {end, Len(keys)} /\ last <= end BY <1>4, <1>5
<1> HIDE DEF end
<1>11. before \in Nat /\ last \in Int /\ last <= Len(keys) /\ end = before + size
       /\ c = SubSeq(keys, before + 1, last)
  BY <1>3, <1>4, <1>5 DEF end
<1> HIDE DEF n, before, last, c
<1>7. /\ DOMAIN c = 1 .. last - before
      /\ \A m \in 1 .. last - before : before + m \in 1 .. Len(keys)
                                       /\ c[m] = keys[before + m]
  BY ONLY <1>1, <1>11, PartOf
<1>8. ASSUME NEW v, NEW p \in DOMAIN keys, keys[p] = v, before < p, p <= end
      PROVE  v \in ToSet(c)
  <2> DEFINE m == p - before
  <2>4. p \in Nat /\ p <= Len(keys) /\ before < p /\ p <= end /\ Len(keys) \in Nat
    BY <1>1, <1>8
  <2>1. m \in 1 .. last - before /\ before + m = p
    <3>1. p <= last BY <1>6, <2>4
    <3> HIDE DEF m
    <3>2. before \in Nat /\ last \in Int BY <1>11
    <3>4. p - before \in 1 .. last - before /\ before + (p - before) = p
      BY ONLY <2>4, <3>1, <3>2
    <3>3. QED BY <3>4 DEF m
  <2> HIDE DEF m
  <2>2. c[m] = v /\ m \in DOMAIN c BY <1>7, <1>8, <2>1
  <2>3. QED BY <2>2 DEF ToSet
<1>9. ASSUME NEW v, v \in ToSet(c)
      PROVE  \E p \in DOMAIN keys : keys[p] = v /\ before < p /\ p <= end
  <2>1. PICK m \in 1 .. last - before : c[m] = v BY <1>7, <1>9 DEF ToSet
  <2>2. before + m \in DOMAIN keys /\ keys[before + m] = v BY <1>1, <1>7, <2>1
  <2>3. before < before + m /\ before + m <= end BY ONLY <1>11, <1>6, <2>1
  <2>4. QED BY <2>2, <2>3
<1>10. QED BY <1>4, <1>8, <1>9 DEF c, before, end

(* s is cut into these parts.                                              *)
Parts(cs, s) ==
  /\ \A k \in DOMAIN cs : ToSet(cs[k]) \subseteq ToSet(s)
  /\ \A v \in ToSet(s) : \E k \in DOMAIN cs : v \in ToSet(cs[k])
  /\ \A a, b \in DOMAIN cs : ToSet(cs[a]) \cap ToSet(cs[b]) # {} => a = b

LEMMA ChunksArePlaced ==
  ASSUME NEW keys, IsSequence(keys), NEW size \in Nat \ {0}
  PROVE  \A v \in ToSet(keys) : \E k \in DOMAIN ChunkStrings(keys, size) :
           v \in ToSet(ChunkStrings(keys, size)[k])
<1> SUFFICES ASSUME NEW v \in ToSet(keys)
             PROVE  \E k \in DOMAIN ChunkStrings(keys, size) :
                      v \in ToSet(ChunkStrings(keys, size)[k])
  OBVIOUS
<1> DEFINE len == Len(keys)
           n == (len + size - 1) \div size
<1>1. len \in Nat /\ DOMAIN keys = 1 .. len BY Sequences
<1>2. PICK p \in 1 .. len : keys[p] = v BY <1>1 DEF ToSet
<1> DEFINE q == (p - 1) \div size
           k == q + 1
<1> HIDE DEF len
<1>3. p - 1 \in Nat /\ len + size - 1 \in Nat BY <1>1, <1>2
<1>4. q \in Nat /\ q * size <= p - 1 /\ p - 1 < (q + 1) * size
  BY <1>3, Quotient
<1>5. n \in Nat /\ len + size - 1 < (n + 1) * size
  BY <1>3, Quotient
<1> HIDE DEF q, n
<1>6. (q + 1) * size < (n + 1) * size
  <2>1. (q + 1) * size = q * size + size /\ q * size \in Nat /\ (n + 1) * size \in Nat
    BY <1>4, <1>5
  <2> DEFINE x == q * size
             y == (n + 1) * size
  <2>2. x \in Nat /\ y \in Nat /\ x <= p - 1 /\ len + size - 1 < y
    BY <1>4, <1>5, <2>1
  <2> HIDE DEF x, y
  <2>3. x + size < y BY <1>1, <1>2, <2>2
  <2>4. QED BY <2>1, <2>3 DEF x, y
<1>7. q + 1 < n + 1
  <2>1. q + 1 \in Nat /\ n + 1 \in Nat /\ size \in Nat BY <1>4, <1>5
  <2>2. QED BY <1>6, <2>1, FewerTimes
<1>8. k \in DOMAIN ChunkStrings(keys, size)
  <2>1. k \in 1 .. n BY <1>4, <1>5, <1>7
  <2>2. QED BY <2>1 DEF ChunkStrings, n, len
<1>9. (k - 1) * size < p /\ p <= k * size
  <2>1. k - 1 = q /\ q * size \in Nat /\ k * size \in Nat BY <1>4
  <2> DEFINE x == q * size
             y == k * size
  <2>2. x \in Nat /\ y \in Nat /\ x <= p - 1 /\ p - 1 < y BY <1>4, <2>1
  <2> HIDE DEF x, y
  <2>3. x < p /\ p <= y BY <1>1, <1>2, <2>2
  <2>4. QED BY <2>1, <2>3 DEF x, y
<1> HIDE DEF k
<1>10. v \in ToSet(ChunkStrings(keys, size)[k])
  BY <1>1, <1>2, <1>8, <1>9, ChunkPlaces
<1>11. QED BY <1>8, <1>10

LEMMA ChunksApart ==
  ASSUME NEW keys, IsSequence(keys), NEW size \in Nat \ {0},
         \A a, b \in DOMAIN keys : keys[a] = keys[b] => a = b,
         NEW a \in DOMAIN ChunkStrings(keys, size),
         NEW b \in DOMAIN ChunkStrings(keys, size), NEW v,
         v \in ToSet(ChunkStrings(keys, size)[a]),
         v \in ToSet(ChunkStrings(keys, size)[b])
  PROVE  ~(a < b)
<1> SUFFICES ASSUME a < b PROVE FALSE OBVIOUS
<1>1. a \in Nat /\ b \in Nat \ {0} BY ChunkPlaces
<1>2. PICK p \in DOMAIN keys : keys[p] = v /\ p <= a * size BY ChunkPlaces
<1>3. PICK q \in DOMAIN keys : keys[q] = v /\ (b - 1) * size < q BY ChunkPlaces
<1>4. p = q BY <1>2, <1>3
<1>5. DOMAIN keys = 1 .. Len(keys) /\ Len(keys) \in Nat BY Sequences
<1>6. (b - 1) * size < a * size
  <2>1. (b - 1) * size \in Nat /\ a * size \in Nat /\ p \in Nat BY <1>1, <1>5
  <2>2. QED BY <1>2, <1>3, <1>4, <2>1
<1>7. b - 1 < a
  <2>1. b - 1 \in Nat /\ size \in Nat BY <1>1
  <2>2. QED BY <1>1, <1>6, <2>1, FewerTimes
<1>8. QED BY <1>1, <1>7

LEMMA StringsPart ==
  ASSUME NEW keys, IsSequence(keys), NEW size \in Nat \ {0},
         \A a, b \in DOMAIN keys : keys[a] = keys[b] => a = b
  PROVE  Parts(ChunkStrings(keys, size), keys)
<1> DEFINE cs == ChunkStrings(keys, size)
<1>1. \A k \in DOMAIN cs : ToSet(cs[k]) \subseteq ToSet(keys)
  <2> SUFFICES ASSUME NEW k \in DOMAIN cs, NEW v \in ToSet(cs[k])
               PROVE  v \in ToSet(keys)
    OBVIOUS
  <2>1. \E p \in DOMAIN keys : keys[p] = v BY ChunkPlaces
  <2>2. QED BY <2>1 DEF ToSet
<1>2. \A v \in ToSet(keys) : \E k \in DOMAIN cs : v \in ToSet(cs[k])
  BY ChunksArePlaced
<1>3. \A a, b \in DOMAIN cs : ToSet(cs[a]) \cap ToSet(cs[b]) # {} => a = b
  <2> SUFFICES ASSUME NEW a \in DOMAIN cs, NEW b \in DOMAIN cs,
                      NEW v \in ToSet(cs[a]), v \in ToSet(cs[b])
               PROVE  a = b
    OBVIOUS
  <2>1. ~(a < b) /\ ~(b < a) BY ChunksApart
  <2>2. a \in Nat /\ b \in Nat BY ChunkPlaces
  <2>3. QED BY <2>1, <2>2
<1>4. QED BY <1>1, <1>2, <1>3 DEF Parts

LEMMA ChunksPart ==
  ASSUME NEW keys, IsSequence(keys), NEW link, link.maxInList \in Int,
         \A a, b \in DOMAIN keys : keys[a] = keys[b] => a = b
  PROVE  Parts(ChunksFor(keys, link), keys)
<1>1. Len(keys) \in Nat /\ (keys # <<>> => Len(keys) > 0) BY Sequences
<1>2. CASE keys = <<>>
  <2>1. ChunksFor(keys, link) = <<>> BY <1>2 DEF ChunksFor
  <2>2. ToSet(keys) = {} /\ DOMAIN <<>> = {} BY <1>2, NoneIsSeq DEF ToSet
  <2>3. QED BY <2>1, <2>2 DEF Parts
<1>3. CASE keys # <<>> /\ link.maxInList <= 0
  <2>1. ChunksFor(keys, link) = ChunkStrings(keys, Len(keys))
    BY <1>3 DEF ChunksFor
  <2>2. Len(keys) \in Nat \ {0} BY <1>1, <1>3
  <2>3. QED BY <2>1, <2>2, StringsPart
<1>4. CASE keys # <<>> /\ ~(link.maxInList <= 0)
  <2>1. ChunksFor(keys, link) = ChunkStrings(keys, link.maxInList)
    BY <1>4 DEF ChunksFor
  <2>2. link.maxInList \in Nat \ {0} BY <1>4
  <2>3. QED BY <2>1, <2>2, StringsPart
<1>5. QED BY <1>2, <1>3, <1>4

(* The keys of a side, once each.                                          *)
LEMMA KeysListedOnce ==
  ASSUME NEW rows, IsSequence(rows), NEW col
  PROVE  LET keys == DistinctValues(rows, col)
         IN /\ IsSequence(keys) /\ ToSet(keys) = KeysOf(rows, col)
            /\ \A a, b \in DOMAIN keys : keys[a] = keys[b] => a = b
BY FewKeys, Listed, ListedOnce

----------------------------------------------------------------------------
(* The steps of the cascade keep every side exact.                         *)
LEMMA ErrorsAreErrors == NoError \notin Error
BY QueryAssumption DEF NoError, Error

LEMMA NoResultYet ==
  ASSUME stage' # "done" \/ out'.err # NoError
  PROVE  AnswerExact'
BY DEF AnswerExact

LEMMA FailedHolds ==
  ASSUME NEW e \in Error, stage' = "done", out' = [err |-> e, rows |-> <<>>]
  PROVE  XInv'
<1>1. out'.err = e OBVIOUS
<1>2. out'.err # NoError BY <1>1, ErrorsAreErrors
<1>3. AnswerExact' BY <1>2, NoResultYet
<1>4. QED BY <1>3 DEF XInv, SidesExact

LEMMA SentIsAsked ==
  ASSUME QInv, fetched # <<>>, NEW chunk
  PROVE  PushedFilters(Filters, chunk) = SentIn(in, side, chunk)
<1>1. Filters = FiltersIn(in, side) BY Here
<1> DEFINE fs == FiltersIn(in, side)
           sent == {j \in DOMAIN fs : fs[j].site = "pushed"}
           on(c) == {j \in sent : fs[j].col = c}
           cols == {fs[j].col : j \in sent}
           asked(c) == IF c \in DOMAIN chunk THEN chunk[c] ELSE {Want(fs[Latest(on(c))])}
           wants(c) == IF c \in DOMAIN chunk THEN chunk[c] ELSE {WantIn(in, fs[Latest(on(c))])}
<1>2. \A f : Want(f) = WantIn(in, f) BY Here
<1>3. PushedFilters(fs, chunk) = [c \in cols \cup DOMAIN chunk |-> asked(c)]
  BY DEF PushedFilters, At
<1>4. SentIn(in, side, chunk) = [c \in cols \cup DOMAIN chunk |-> wants(c)]
  BY DEF SentIn
<1>5. \A c : asked(c) = wants(c)
  <2> HIDE DEF fs, on
  <2>1. QED BY <1>2
<1> HIDE DEF fs, cols, asked, wants
<1>6. [c \in cols \cup DOMAIN chunk |-> asked(c)] = [c \in cols \cup DOMAIN chunk |-> wants(c)]
  BY <1>5
<1>7. PushedFilters(Filters, chunk) = PushedFilters(fs, chunk) BY <1>1 DEF fs
<1>8. QED BY <1>3, <1>4, <1>6, <1>7

LEMMA AskedOfSame ==
  ASSUME NEW i \in Input, AcceptedIn(i), NEW k \in 1 .. Len(i.q.from),
         NEW rows, NEW more, \A a \in 1 .. k - 1 : more[a] = rows[a]
  PROVE  /\ \A d : Reached(i, more, k, d) <=> Reached(i, rows, k, d)
         /\ Asked(i, more, k) = Asked(i, rows, k)
<1>1. \A d : Reached(i, more, k, d) <=> Reached(i, rows, k, d)
  <2>1. CASE k > 1
    <3>1. k \in 2 .. Len(i.q.from) BY <2>1, InputFacts
    <3>2. LinkIn(i, k).from \in 1 .. k - 1 BY <3>1, LinkFacts
    <3>3. more[LinkIn(i, k).from] = rows[LinkIn(i, k).from] BY <3>2
    <3>4. QED BY <3>3 DEF Reached
  <2>2. CASE ~(k > 1) BY <2>2 DEF Reached
  <2>3. QED BY <2>1, <2>2
<1>2. QED BY <1>1 DEF Asked

(* Rows of a table are told apart by their ghosts.                         *)
LEMMA DataApart ==
  ASSUME NEW i \in Input, AcceptedIn(i), NEW k \in 1 .. Len(i.q.from),
         NEW d \in DataIn(i, k), NEW e \in DataIn(i, k), d.id = e.id
  PROVE  d = e
<1>1. IsServer(TableOfIn(i, k))
  <2>1. SidesOf(i.q) = 1 .. Len(i.q.from) BY InputFacts
  <2>2. TableAt(i.q, k) \in ParseTables(i.q) BY <2>1 DEF ParseTables
  <2>3. TableAt(i.q, k) \in DOMAIN i.server
    BY <2>2, InputFacts DEF AcceptedIn, IsInput
  <2>4. QED BY <2>3, InputFacts DEF IsInput, TableOfIn
<1> DEFINE rows == TableOfIn(i, k).rows
<1>2. PICK a \in DOMAIN rows : rows[a] = d BY DEF DataIn, ToSet
<1>3. PICK b \in DOMAIN rows : rows[b] = e BY DEF DataIn, ToSet
<1>4. a = b BY <1>1, <1>2, <1>3 DEF IsServer
<1>5. QED BY <1>2, <1>3, <1>4

LEMMA ComesTogether ==
  ASSUME NEW X, NEW s \in Seq(X), NEW t \in Seq(X), NEW fields, NEW D, NEW E,
         Comes(s, D, fields), Comes(t, E, fields),
         \A d \in D : \A e \in E : d.id # e.id
  PROVE  Comes(s \o t, D \cup E, fields)
<1> DEFINE u == s \o t
           m == Len(s)
           n == Len(t)
<1>1. /\ m \in Nat /\ n \in Nat /\ DOMAIN s = 1 .. m /\ DOMAIN t = 1 .. n
      /\ DOMAIN u = 1 .. m + n
      /\ \A a \in 1 .. m : u[a] = s[a]
      /\ \A b \in 1 .. n : u[m + b] = t[b]
  OBVIOUS
<1> HIDE DEF u, m, n
<1>2. \A a \in DOMAIN u :
        a \in DOMAIN s \/ \E b \in DOMAIN t : a = m + b
  <2> SUFFICES ASSUME NEW a \in DOMAIN u, a \notin DOMAIN s
               PROVE  \E b \in DOMAIN t : a = m + b
    OBVIOUS
  <2>1. a - m \in DOMAIN t /\ a = m + (a - m) BY <1>1
  <2>2. QED BY <2>1
<1>3. \A d, fs : Cells(d, fs).id = d.id BY DEF Cells
<1>4. \A a \in DOMAIN s : \E d \in D : u[a] = Cells(d, fields)
  BY <1>1 DEF Comes
<1>5. \A b \in DOMAIN t : \E e \in E : u[m + b] = Cells(e, fields)
  <2> SUFFICES ASSUME NEW b \in DOMAIN t
               PROVE  \E e \in E : u[m + b] = Cells(e, fields)
    OBVIOUS
  <2>1. PICK e \in E : t[b] = Cells(e, fields) BY DEF Comes
  <2>2. u[m + b] = t[b] BY <1>1
  <2>3. QED BY <2>1, <2>2
<1>6. \A a \in DOMAIN u : \E d \in D \cup E : u[a] = Cells(d, fields)
  BY <1>2, <1>4, <1>5
<1>7. \A d \in D : \E a \in DOMAIN u : u[a] = Cells(d, fields)
  <2> SUFFICES ASSUME NEW d \in D PROVE \E a \in DOMAIN u : u[a] = Cells(d, fields)
    OBVIOUS
  <2>1. PICK a \in DOMAIN s : s[a] = Cells(d, fields) BY DEF Comes
  <2>2. a \in DOMAIN u /\ u[a] = s[a] BY <1>1
  <2>3. QED BY <2>1, <2>2
<1>8. \A e \in E : \E a \in DOMAIN u : u[a] = Cells(e, fields)
  <2> SUFFICES ASSUME NEW e \in E PROVE \E a \in DOMAIN u : u[a] = Cells(e, fields)
    OBVIOUS
  <2>1. PICK b \in DOMAIN t : t[b] = Cells(e, fields) BY DEF Comes
  <2>2. m + b \in DOMAIN u /\ u[m + b] = t[b] BY <1>1
  <2>3. QED BY <2>1, <2>2
<1>9. \A a \in DOMAIN s, b \in DOMAIN t : u[a].id # u[m + b].id
  <2> SUFFICES ASSUME NEW a \in DOMAIN s, NEW b \in DOMAIN t
               PROVE  u[a].id # u[m + b].id
    OBVIOUS
  <2>1. PICK d \in D : u[a] = Cells(d, fields) BY <1>4
  <2>2. PICK e \in E : u[m + b] = Cells(e, fields) BY <1>5
  <2>3. d.id # e.id OBVIOUS
  <2>4. QED BY <1>3, <2>1, <2>2, <2>3
<1>10. \A a, b \in DOMAIN u : u[a].id = u[b].id => a = b
  <2> SUFFICES ASSUME NEW a \in DOMAIN u, NEW b \in DOMAIN u, u[a].id = u[b].id
               PROVE  a = b
    OBVIOUS
  <2>1. CASE a \in DOMAIN s /\ b \in DOMAIN s
    <3>1. s[a].id = s[b].id BY <1>1, <2>1
    <3>2. QED BY <2>1, <3>1 DEF Comes
  <2>2. CASE \E x, y \in DOMAIN t : a = m + x /\ b = m + y
    <3>1. PICK x \in DOMAIN t, y \in DOMAIN t : a = m + x /\ b = m + y BY <2>2
    <3>2. t[x].id = t[y].id BY <1>1, <3>1
    <3>3. x = y BY <3>2 DEF Comes
    <3>4. QED BY <3>1, <3>3
  <2>3. QED BY <1>2, <1>9, <2>1, <2>2
<1>11. QED BY <1>6, <1>7, <1>8, <1>10 DEF Comes, u

LEMMA NothingComes ==
  ASSUME NEW D, D = {}, NEW fields
  PROVE  Comes(<<>>, D, fields)
BY NoneIsSeq DEF Comes

LEMMA AdmitExact ==
  ASSUME QInv, Admit
  PROVE  XInv'
<1>1. /\ stage = "admit" /\ UNCHANGED <<in, side, got, calls>> BY DEF Admit
<1>2. /\ in \in Input /\ side \in 1 .. Len(in.q.from) /\ fetched = <<>> /\ Idle
      /\ out = [err |-> NoError, rows |-> <<>>]
  BY <1>1 DEF QInv, Busy, Answered
<1>3. side' = 1 /\ got' = <<>> BY <1>1, <1>2 DEF Idle
<1>4. CASE stage' = "fetch" /\ chunks' = <<[c \in {} |-> {}]>> /\ fetched' = <<<<>>>>
  <2> DEFINE nothing == [c \in {} |-> {}]
             all == <<nothing>>
             rows == <<<<>>>>
             left == {d \in Asked(in, rows, 1) : ~Waiting(all, d)}
  <2>1. DOMAIN nothing = {} OBVIOUS
  <2>2. DOMAIN all = {1} /\ all[1] = nothing OBVIOUS
  <2>3. rows[1] = <<>> OBVIOUS
  <2>4. chunks' = all /\ fetched' = rows BY <1>4
  <2> HIDE DEF nothing, all, rows
  <2>5. \A d : Waiting(all, d) BY <2>1, <2>2 DEF Waiting, InChunk
  <2>6. left = {} BY <2>5
  <2> HIDE DEF left
  <2>7. Comes(rows[1], left, FieldsIn(in, 1)) BY <2>3, <2>6, NothingComes
  <2>8. ChunksFitIn(in, rows, 1, all)
    <3>1. \A d : Reached(in, rows, 1, d) BY DEF Reached
    <3>2. QED BY <2>2, <3>1 DEF ChunksFitIn
  <2>9. ExactlyIn(in, rows, 1, all, <<>>)
    <3>1. 1 .. 1 - 1 = {} OBVIOUS
    <3>2. QED BY <2>7, <2>8, <3>1 DEF ExactlyIn, left
  <2>10. ExactlyIn(in', fetched', side', chunks', got')
    BY <1>1, <1>3, <2>4, <2>9
  <2>11. stage' # "done" /\ stage' # "merge" BY <1>4
  <2>12. AnswerExact' BY <2>11, NoResultYet
  <2>13. QED BY <2>10, <2>11, <2>12 DEF XInv, SidesExact
<1>5. CASE /\ stage' = "done"
           /\ out' = [out EXCEPT !.err = IF AssertInvariant(plan')
                                         THEN "connector" ELSE "denied"]
  <2> DEFINE e == IF AssertInvariant(plan') THEN "connector" ELSE "denied"
  <2>1. e \in Error BY DEF Error
  <2>2. out' = [out EXCEPT !.err = e] BY <1>5
  <2> HIDE DEF e
  <2>3. out' = [err |-> e, rows |-> <<>>] BY <1>2, <2>2
  <2>4. QED BY <1>5, <2>1, <2>3, FailedHolds
<1>6. QED BY <1>4, <1>5 DEF Admit

LEMMA PageHasStatus ==
  ASSUME NEW server, NEW call, NEW fields, NEW query, NEW offset,
         NEW answer \in HandleTable(server, call, fields, query, offset),
         answer.hasMore
  PROVE  answer.status = "ok"
<1>1. \A status, field : Refusal(status, field).hasMore = FALSE BY Zenon DEF Refusal
<1>2. \/ \E status, field : answer = Refusal(status, field)
      \/ answer = PageFrom(server, fields, query, offset)
  BY DEF HandleTable
<1>3. answer = PageFrom(server, fields, query, offset) BY <1>1, <1>2
<1>4. PageFrom(server, fields, query, offset).status = "ok" BY Zenon DEF PageFrom
<1>5. QED BY <1>3, <1>4

(* One more page.                                                          *)
LEMMA ReadsOn ==
  ASSUME QInv, fetched # <<>>, chunks # <<>>, Obedient, stage = "fetch", XInv,
         NEW answer \in Responses, answer.status = "ok"
  PROVE  LET rows == got \o answer.rows
             found == FilterRows(in.server[Table], Call.pushed)
         IN /\ rows \in Seq(RowsIn(in, side)) /\ Read(rows, found, Columns)
            /\ ~answer.hasMore => Len(rows) = Len(found)
<1> DEFINE server == in.server[Table]
           query == Call.pushed
           found == FilterRows(server, query)
           X == RowsIn(in, side)
           call == Len(SelectSeq(calls, LAMBDA c : c.table = Table)) + 1
<1>1. Busy /\ got \in Seq(X) BY DEF QInv, Busy
<1>2. IsServer(server) /\ Table = TableAt(in.q, side)
      /\ Columns = ScanProject(in.q, in.cat, DocIn(in), side)
  BY Here
<1>3. answer.rows \in Seq(X) BY ResponsesTyped
<1>4. answer \in HandleTable(server, call, Columns, query, Len(got))
  BY DEF Responses, Offset
<1>5. query = SentIn(in, side, Head(chunks)) BY SentIsAsked DEF Call
<1>6. Read(got, found, Columns)
  <2>1. CASE got # <<>>
    <3>1. ExactlyIn(in, fetched, side, chunks, got) BY DEF XInv, SidesExact
    <3>2. Read(got, FilterRows(TableOfIn(in, side), SentIn(in, side, Head(chunks))),
               FieldsIn(in, side))
      BY <2>1, <3>1 DEF ExactlyIn
    <3>3. TableOfIn(in, side) = server /\ FieldsIn(in, side) = Columns
      BY <1>2 DEF TableOfIn, FieldsIn
    <3>4. QED BY <1>5, <3>2, <3>3
  <2>2. CASE got = <<>>
    <3>1. found \in Seq(ToSet(server.rows)) BY <1>2, FoundOnce
    <3> HIDE DEF found
    <3>2. Len(<<>>) = 0 /\ DOMAIN <<>> = {} /\ Len(found) \in Nat BY <3>1, NoneIsSeq
    <3>3. QED BY <2>2, <3>2 DEF Read
  <2>3. QED BY <2>1, <2>2
<1> DEFINE fields == Columns
<1>7. IsServer(server) /\ got \in Seq(X) /\ answer.status = "ok" BY <1>1, <1>2
<1>8. answer \in HandleTable(server, call, fields, query, Len(got)) BY <1>4
<1>9. Read(got, FilterRows(server, query), fields) BY <1>6
<1> HIDE DEF X, query, server, call, fields
<1>10. LET s == got \o answer.rows
       IN /\ s \in Seq(X) /\ Read(s, FilterRows(server, query), fields)
          /\ ~answer.hasMore => Len(s) = Len(FilterRows(server, query))
  BY ONLY <1>3, <1>7, <1>8, <1>9, PageReads
<1>11. QED BY <1>10 DEF X, query, server, fields

LEMMA MorePagesExact ==
  ASSUME QInv, XInv, MorePages
  PROVE  XInv'
<1>1. PICK answer \in Responses : answer.hasMore /\ got' = got \o answer.rows
  BY DEF MorePages
<1>2. /\ Leaves /\ UNCHANGED <<in, stage, plan, side, chunks, fetched, out>>
  BY DEF MorePages
<1>3. fetched # <<>> /\ stage = "fetch" /\ chunks # <<>> BY <1>2, CallFits
<1>4. answer.status = "ok" BY <1>1, PageHasStatus DEF Responses
<1>5. ASSUME Obedient PROVE ExactlyIn(in', fetched', side', chunks', got')
  <2>1. Read(got', FilterRows(in.server[Table], Call.pushed), Columns)
    BY <1>1, <1>3, <1>4, <1>5, ReadsOn
  <2>2. /\ Call.pushed = SentIn(in, side, Head(chunks))
        /\ in.server[Table] = TableOfIn(in, side) /\ Columns = FieldsIn(in, side)
    BY <1>3, Here, SentIsAsked DEF Call, TableOfIn, FieldsIn
  <2>3. Read(got', FilterRows(TableOfIn(in, side), SentIn(in, side, Head(chunks))),
             FieldsIn(in, side))
    BY <2>1, <2>2
  <2>4. ExactlyIn(in, fetched, side, chunks, got) BY <1>3, <1>5 DEF XInv, SidesExact
  <2>5. ExactlyIn(in, fetched, side, chunks, got')
    BY <2>3, <2>4 DEF ExactlyIn
  <2>6. QED BY <1>2, <2>5
<1>6. Obedient' => Obedient BY <1>2 DEF Obedient
<1>7. stage' # "done" /\ stage' # "merge" BY <1>2, <1>3
<1>8. AnswerExact' BY <1>7, NoResultYet
<1>9. QED BY <1>5, <1>6, <1>7, <1>8 DEF XInv, SidesExact

LEMMA FetchedExact ==
  ASSUME QInv, XInv, Fetched
  PROVE  XInv'
<1>1. /\ stage = "fetch" /\ chunks = <<>> /\ stage' = "merge"
      /\ UNCHANGED <<in, plan, side, chunks, got, fetched, calls, out>>
  BY DEF Fetched
<1>2. Obedient' => Obedient BY <1>1 DEF Obedient
<1>3. Obedient' => ExactlyIn(in', fetched', side', chunks', got')
  BY <1>1, <1>2 DEF XInv, SidesExact
<1>4. AnswerExact' BY <1>1, NoResultYet
<1>5. QED BY <1>1, <1>3, <1>4 DEF XInv, SidesExact

LEMMA RefusedExact ==
  ASSUME NEW e \in Error, Refused(e)
  PROVE  XInv'
BY FailedHolds DEF Refused

LEMMA FailExact ==
  ASSUME NEW e \in Error, Fail(e)
  PROVE  XInv'
BY FailedHolds DEF Fail

(* The last page of a chunk: its rows join those that were kept before.    *)
LEMMA ChunkDone ==
  ASSUME NEW i \in Input, AcceptedIn(i), NEW k \in 1 .. Len(i.q.from),
         NEW rows, NEW cs, IsSequence(cs), cs # <<>>, NEW pages, NEW Y,
         rows[k] \in Seq(Y), NEW kept \in Seq(Y),
         ExactlyIn(i, rows, k, cs, pages),
         Comes(kept, Fresh(i, k, Head(cs)), FieldsIn(i, k)),
         NEW more, \A a \in 1 .. k - 1 : more[a] = rows[a],
         more[k] = rows[k] \o kept
  PROVE  ExactlyIn(i, more, k, Tail(cs), <<>>)
<1> DEFINE before == {d \in Asked(i, rows, k) : ~Waiting(cs, d)}
           fresh == Fresh(i, k, Head(cs))
           after == {d \in Asked(i, more, k) : ~Waiting(Tail(cs), d)}
           fields == FieldsIn(i, k)
<1>1. /\ Head(cs) = cs[1] /\ 1 \in DOMAIN cs /\ DOMAIN cs = 1 .. Len(cs)
      /\ Len(cs) \in Nat
      /\ \A c \in DOMAIN Tail(cs) : c + 1 \in DOMAIN cs /\ Tail(cs)[c] = cs[c + 1]
      /\ DOMAIN Tail(cs) = 1 .. Len(cs) - 1
  <2>1. Len(cs) \in Nat /\ Len(cs) > 0 /\ DOMAIN cs = 1 .. Len(cs) BY Sequences
  <2>2. cs \in Seq(ToSet(cs)) BY SequenceOf
  <2>3. DOMAIN Tail(cs) = 1 .. Len(cs) - 1 BY <2>1, <2>2
  <2>4. QED BY <2>1, <2>3, Sequences
<1>2. /\ \A a \in 1 .. k - 1 : Comes(rows[a], Asked(i, rows, a), FieldsIn(i, a))
      /\ Comes(rows[k], before, fields)
      /\ ChunksFitIn(i, rows, k, cs)
  BY DEF ExactlyIn
<1>3. /\ Asked(i, more, k) = Asked(i, rows, k)
      /\ \A d : Reached(i, more, k, d) <=> Reached(i, rows, k, d)
  BY AskedOfSame
<1>4. \A a \in 1 .. k - 1 : Comes(more[a], Asked(i, more, a), FieldsIn(i, a))
  <2> SUFFICES ASSUME NEW a \in 1 .. k - 1
               PROVE  Comes(more[a], Asked(i, more, a), FieldsIn(i, a))
    OBVIOUS
  <2>1. Len(i.q.from) \in Nat BY InputFacts
  <2>2. a \in 1 .. Len(i.q.from) /\ \A b \in 1 .. a - 1 : more[b] = rows[b]
    BY <2>1
  <2>3. Asked(i, more, a) = Asked(i, rows, a) BY <2>2, AskedOfSame
  <2>4. QED BY <1>2, <2>3
<1>5. \A d : Waiting(cs, d) <=> InChunk(Head(cs), d) \/ Waiting(Tail(cs), d)
  <2> SUFFICES ASSUME NEW d
               PROVE  Waiting(cs, d) <=> InChunk(Head(cs), d) \/ Waiting(Tail(cs), d)
    OBVIOUS
  <2>1. ASSUME Waiting(cs, d) PROVE InChunk(Head(cs), d) \/ Waiting(Tail(cs), d)
    <3>1. PICK c \in DOMAIN cs : InChunk(cs[c], d) BY <2>1 DEF Waiting
    <3>2. CASE c = 1 BY <1>1, <3>1, <3>2
    <3>3. CASE c # 1
      <4>1. c - 1 \in DOMAIN Tail(cs) /\ (c - 1) + 1 = c BY <1>1, <3>3
      <4>2. Tail(cs)[c - 1] = cs[c] BY <1>1, <4>1
      <4>3. QED BY <3>1, <4>1, <4>2 DEF Waiting
    <3>4. QED BY <3>2, <3>3
  <2>2. InChunk(Head(cs), d) => Waiting(cs, d) BY <1>1 DEF Waiting
  <2>3. Waiting(Tail(cs), d) => Waiting(cs, d) BY <1>1 DEF Waiting
  <2>4. QED BY <2>1, <2>2, <2>3
<1>6. \A d \in DataIn(i, k) : InChunk(Head(cs), d) => ~Waiting(Tail(cs), d)
  <2> SUFFICES ASSUME NEW d \in DataIn(i, k), InChunk(Head(cs), d),
                      NEW c \in DOMAIN Tail(cs), InChunk(Tail(cs)[c], d)
               PROVE  FALSE
    BY DEF Waiting
  <2>1. InChunk(cs[1], d) /\ InChunk(cs[c + 1], d) BY <1>1
  <2>2. 1 = c + 1 BY <1>1, <1>2, <2>1 DEF ChunksFitIn
  <2>3. QED BY <1>1, <2>2
<1>7. after = before \cup fresh
  <2>1. \A d \in after : d \in before \cup fresh
    BY <1>3, <1>5 DEF Asked, Fresh
  <2>2. \A d \in before : d \in after BY <1>3, <1>5
  <2>3. ASSUME NEW d \in fresh PROVE d \in after
    <3>1. d \in DataIn(i, k) /\ GoodIn(i, k, d) /\ InChunk(Head(cs), d) BY DEF Fresh
    <3>2. Reached(i, rows, k, d) BY <1>2, <1>5, <3>1 DEF ChunksFitIn
    <3>3. d \in Asked(i, more, k) BY <1>3, <3>1, <3>2 DEF Asked
    <3>4. QED BY <1>6, <3>1, <3>3
  <2> HIDE DEF before, fresh, after
  <2>4. QED BY <2>1, <2>2, <2>3
<1>8. \A d \in before : \A e \in fresh : d.id # e.id
  <2> SUFFICES ASSUME NEW d \in before, NEW e \in fresh, d.id = e.id PROVE FALSE
    OBVIOUS
  <2>1. d \in DataIn(i, k) /\ ~Waiting(cs, d) BY DEF Asked
  <2>2. e \in DataIn(i, k) /\ InChunk(Head(cs), e) BY DEF Fresh
  <2>3. d = e BY <2>1, <2>2, DataApart
  <2>4. QED BY <1>5, <2>1, <2>2, <2>3
<1>9. Comes(kept, fresh, fields) OBVIOUS
<1>10. ChunksFitIn(i, more, k, Tail(cs))
  <2> SUFFICES ASSUME NEW d \in DataIn(i, k)
               PROVE  /\ \A a, b \in DOMAIN Tail(cs) :
                           InChunk(Tail(cs)[a], d) /\ InChunk(Tail(cs)[b], d) => a = b
                      /\ Waiting(Tail(cs), d) => Reached(i, more, k, d)
    BY DEF ChunksFitIn
  <2>1. Waiting(Tail(cs), d) => Reached(i, more, k, d)
    BY <1>2, <1>3, <1>5 DEF ChunksFitIn
  <2>2. ASSUME NEW a \in DOMAIN Tail(cs), NEW b \in DOMAIN Tail(cs),
               InChunk(Tail(cs)[a], d), InChunk(Tail(cs)[b], d)
        PROVE  a = b
    <3>1. /\ a + 1 \in DOMAIN cs /\ InChunk(cs[a + 1], d)
          /\ b + 1 \in DOMAIN cs /\ InChunk(cs[b + 1], d)
      BY <1>1, <2>2
    <3>2. a + 1 = b + 1 BY <1>2, <3>1 DEF ChunksFitIn
    <3>3. QED BY <1>1, <3>2
  <2>3. QED BY <2>1, <2>2
<1> HIDE DEF before, fresh, after, fields
<1> DEFINE s == rows[k]
<1>11. s \in Seq(Y) /\ Comes(s, before, fields) BY <1>2
<1> HIDE DEF s
<1>12. Comes(s \o kept, before \cup fresh, fields)
  BY ONLY <1>8, <1>9, <1>11, kept \in Seq(Y), ComesTogether
<1>13. Comes(more[k], after, fields) BY <1>7, <1>12 DEF s
<1>14. QED BY <1>4, <1>10, <1>13 DEF ExactlyIn, after, fields

LEMMA SourceAnswersExact ==
  ASSUME QInv, XInv, ConjunctsReachSources, SourceAnswers
  PROVE  XInv'
<1>1. PICK answer \in Responses :
        LET rows == got \o answer.rows
        IN /\ answer.status = "ok" /\ ~answer.hasMore
           /\ IF ~Verified(rows, Filters) \/ Stuck(rows, Filters)
              THEN Refused("denied")
              ELSE /\ Leaves
                   /\ fetched' = [fetched EXCEPT ![side] = @ \o Kept(rows, Filters)]
                   /\ got' = <<>>
                   /\ chunks' = Tail(chunks)
                   /\ UNCHANGED <<in, stage, plan, side, out>>
  BY DEF SourceAnswers
<1> DEFINE rows == got \o answer.rows
<1>2. CASE ~Verified(rows, Filters) \/ Stuck(rows, Filters)
  <2>1. "denied" \in Error BY DEF Error
  <2>2. QED BY <1>1, <1>2, <2>1, RefusedExact
<1>3. CASE Verified(rows, Filters) /\ ~Stuck(rows, Filters)
  <2> DEFINE kept == Kept(rows, Filters)
  <2>1. /\ Leaves /\ got' = <<>> /\ chunks' = Tail(chunks)
        /\ fetched' = [fetched EXCEPT ![side] = fetched[side] \o kept]
        /\ UNCHANGED <<in, stage, plan, side, out>>
    BY <1>1, <1>3
  <2>2. fetched # <<>> /\ chunks # <<>> /\ ~Unsendable /\ stage = "fetch"
    BY <2>1, CallFits
  <2>3. /\ Busy /\ in \in Input /\ AcceptedIn(in) /\ side \in 1 .. Len(in.q.from)
        /\ IsSequence(fetched) /\ Len(fetched) = side /\ IsSequence(chunks)
        /\ fetched[side] \in Seq(ClearedIn(in, side))
    <3>1. Busy /\ in \in Input /\ side \in 1 .. Len(in.q.from) BY <2>2 DEF QInv
    <3>2. side \in 1 .. side BY <3>1, InputFacts
    <3>3. QED BY <3>1, <3>2 DEF Busy
  <2>4. ASSUME Obedient PROVE ExactlyIn(in', fetched', side', chunks', got')
    <3>1. /\ rows \in Seq(RowsIn(in, side))
          /\ Read(rows, FilterRows(in.server[Table], Call.pushed), Columns)
          /\ Len(rows) = Len(FilterRows(in.server[Table], Call.pushed))
      BY <1>1, <2>2, <2>4, ReadsOn
    <3> HIDE DEF rows
    <3>2. Comes(kept, Fresh(in, side, Head(chunks)), Columns)
      BY <1>3, <2>2, <2>4, <3>1, KeptAreFresh
    <3>3. kept \in Seq(ClearedIn(in, side)) BY <1>3, <2>2, <3>1, KeptAreCleared
    <3>4. Columns = FieldsIn(in, side) BY <2>2, Here DEF FieldsIn
    <3> HIDE DEF kept
    <3>5. DOMAIN fetched = 1 .. side /\ side \in Nat BY <2>3, Sequences
    <3>6. /\ \A a \in 1 .. side - 1 : fetched'[a] = fetched[a]
          /\ fetched'[side] = fetched[side] \o kept
      BY <2>1, <2>3, <3>5
    <3>7. ExactlyIn(in, fetched, side, chunks, got) BY <2>2, <2>4 DEF XInv, SidesExact
    <3>8. Comes(kept, Fresh(in, side, Head(chunks)), FieldsIn(in, side))
      BY <3>2, <3>4
    <3> DEFINE Y == ClearedIn(in, side)
               more == fetched'
    <3>9. fetched[side] \in Seq(Y) /\ kept \in Seq(Y) BY <2>3, <3>3
    <3>10. /\ \A a \in 1 .. side - 1 : more[a] = fetched[a]
           /\ more[side] = fetched[side] \o kept
      BY <3>6
    <3> HIDE DEF Y, more
    <3>11. ExactlyIn(in, more, side, Tail(chunks), <<>>)
      BY <2>2, <2>3, <3>7, <3>8, <3>9, <3>10, ChunkDone
    <3>12. QED BY <2>1, <3>11 DEF more
  <2>5. Obedient' => Obedient BY <2>1 DEF Obedient
  <2>6. stage' # "done" /\ stage' # "merge" BY <2>1, <2>2
  <2>7. AnswerExact' BY <2>6, NoResultYet
  <2>8. QED BY <2>4, <2>5, <2>6, <2>7 DEF XInv, SidesExact
<1>4. QED BY <1>2, <1>3

(* The keys of the build side are cut into the chunks of the probe.        *)
ChunkOf(col, keys) == [c \in {col} |-> ToSet(keys)]

LEMMA ChunkOfKeys ==
  ASSUME NEW col, NEW keys, NEW d
  PROVE  InChunk(ChunkOf(col, keys), d) <=> Val(d, col) \in ToSet(keys)
BY DEF InChunk, ChunkOf

LEMMA ProbeStarts ==
  ASSUME NEW i \in Input, AcceptedIn(i), NEW k \in 2 .. Len(i.q.from),
         NEW rows, NEW more, \A a \in 1 .. k - 1 : more[a] = rows[a],
         more[k] = <<>>, IsSequence(rows[LinkIn(i, k).from]),
         ExactlyIn(i, rows, k - 1, <<>>, <<>>),
         NEW cs, cs = ChunksFor(DistinctValues(rows[LinkIn(i, k).from],
                                               LinkIn(i, k).fromCol), LinkIn(i, k)),
         NEW probes, probes = [c \in DOMAIN cs |-> ChunkOf(LinkIn(i, k).toCol, cs[c])]
  PROVE  ExactlyIn(i, more, k, probes, <<>>)
<1> DEFINE link == LinkIn(i, k)
           keys == DistinctValues(rows[link.from], link.fromCol)
           col == link.toCol
<1>1. Len(i.q.from) \in Nat /\ k \in 1 .. Len(i.q.from) /\ k > 1
      /\ k - 1 \in 1 .. Len(i.q.from)
  BY InputFacts
<1>2. link.from \in 1 .. k - 1 /\ link.maxInList \in Int BY LinkFacts
<1>3. /\ IsSequence(keys) /\ ToSet(keys) = KeysOf(rows[link.from], link.fromCol)
      /\ \A a, b \in DOMAIN keys : keys[a] = keys[b] => a = b
  BY KeysListedOnce
<1>4. Parts(cs, keys)
  <2> DEFINE l == link
  <2>1. l.maxInList \in Int /\ cs = ChunksFor(keys, l) BY <1>2
  <2> HIDE DEF keys, l, link
  <2>2. QED BY <1>3, <2>1, ChunksPart
<1>5. \A d : Reached(i, rows, k, d) <=> Val(d, col) \in ToSet(keys)
  BY <1>1, <1>3 DEF Reached
<1>6. /\ Asked(i, more, k) = Asked(i, rows, k)
      /\ \A d : Reached(i, more, k, d) <=> Reached(i, rows, k, d)
  BY <1>1, AskedOfSame
<1> HIDE DEF link, keys
<1>7. DOMAIN probes = DOMAIN cs
      /\ \A c \in DOMAIN cs : probes[c] = ChunkOf(col, cs[c])
  BY DEF link
<1> HIDE DEF col
<1>8. \A d : \A c \in DOMAIN probes :
        InChunk(probes[c], d) <=> Val(d, col) \in ToSet(cs[c])
  BY <1>7, ChunkOfKeys
<1>9. \A d : Waiting(probes, d) <=> Reached(i, more, k, d)
  <2> SUFFICES ASSUME NEW d PROVE Waiting(probes, d) <=> Val(d, col) \in ToSet(keys)
    BY <1>5, <1>6
  <2>1. Waiting(probes, d) <=> \E c \in DOMAIN cs : Val(d, col) \in ToSet(cs[c])
    BY <1>7, <1>8 DEF Waiting
  <2>2. QED BY <1>4, <2>1 DEF Parts
<1>10. ChunksFitIn(i, more, k, probes)
  <2>1. \A d : \A a, b \in DOMAIN probes :
          InChunk(probes[a], d) /\ InChunk(probes[b], d) => a = b
    <3> SUFFICES ASSUME NEW d, NEW a \in DOMAIN probes, NEW b \in DOMAIN probes,
                        InChunk(probes[a], d), InChunk(probes[b], d)
                 PROVE  a = b
      OBVIOUS
    <3>1. Val(d, col) \in ToSet(cs[a]) \cap ToSet(cs[b]) BY <1>8
    <3>2. QED BY <1>4, <1>7, <3>1 DEF Parts
  <2>2. QED BY <1>9, <2>1 DEF ChunksFitIn
<1>11. Comes(more[k], {d \in Asked(i, more, k) : ~Waiting(probes, d)}, FieldsIn(i, k))
  <2> DEFINE left == {d \in Asked(i, more, k) : ~Waiting(probes, d)}
  <2>1. left = {} BY <1>9 DEF Asked
  <2> HIDE DEF left
  <2>2. Comes(<<>>, left, FieldsIn(i, k)) BY <2>1, NothingComes
  <2>3. QED BY <2>2 DEF left
<1>12. \A a \in 1 .. k - 1 : Comes(more[a], Asked(i, more, a), FieldsIn(i, a))
  <2> SUFFICES ASSUME NEW a \in 1 .. k - 1
               PROVE  Comes(more[a], Asked(i, more, a), FieldsIn(i, a))
    OBVIOUS
  <2>1. a \in 1 .. Len(i.q.from) /\ \A b \in 1 .. a - 1 : more[b] = rows[b]
    BY <1>1
  <2>2. Asked(i, more, a) = Asked(i, rows, a) BY <2>1, AskedOfSame
  <2>3. more[a] = rows[a] OBVIOUS
  <2>4. Comes(rows[a], Asked(i, rows, a), FieldsIn(i, a))
    <3>1. CASE a = k - 1
      <4> DEFINE left == {d \in Asked(i, rows, a) : ~Waiting(<<>>, d)}
      <4>1. \A d : ~Waiting(<<>>, d) BY NoneIsSeq DEF Waiting
      <4>2. left = Asked(i, rows, a) BY <4>1
      <4>3. Comes(rows[a], left, FieldsIn(i, a)) BY <3>1 DEF ExactlyIn
      <4> HIDE DEF left
      <4>4. QED BY <4>2, <4>3
    <3>2. CASE a # k - 1
      <4>1. a \in 1 .. (k - 1) - 1 BY <1>1, <3>2
      <4>2. QED BY <4>1 DEF ExactlyIn
    <3>3. QED BY <3>1, <3>2
  <2>5. QED BY <2>2, <2>3, <2>4
<1>13. QED BY <1>10, <1>11, <1>12 DEF ExactlyIn

LEMMA NextSideExact ==
  ASSUME QInv, XInv, NextSide
  PROVE  XInv'
<1>1. /\ stage = "fetch" /\ chunks = <<>> /\ side < Len(plan.sides)
      /\ side' = side + 1 /\ fetched' = Append(fetched, <<>>)
      /\ UNCHANGED <<in, stage, plan, got, calls, out>>
  BY DEF NextSide
<1>2. fetched # <<>> BY <1>1 DEF QInv, Idle
<1>3. /\ Busy /\ in \in Input /\ side \in 1 .. Len(in.q.from)
      /\ AcceptedIn(in) /\ plan = PlanIn(in) /\ Len(in.q.from) \in Nat
      /\ IsSequence(fetched) /\ Len(fetched) = side
      /\ \A k \in 1 .. side : fetched[k] \in Seq(ClearedIn(in, k))
      /\ got = <<>>
  BY <1>1, <1>2, InputFacts DEF QInv, Busy
<1>4. side' \in 2 .. Len(in.q.from) /\ side \in 1 .. Len(in.q.from) - 1
      /\ side' - 1 = side
  BY <1>1, <1>2, <1>3, Here
<1> DEFINE k == side'
           link == LinkIn(in, k)
           cs == ChunksFor(DistinctValues(fetched[link.from], link.fromCol), link)
           more == fetched'
           probes == chunks'
<1>5. plan.links[side] = link
  BY <1>1, <1>3, <1>4, PlanFacts DEF LinkIn
<1>6. probes = [c \in DOMAIN cs |-> ChunkOf(link.toCol, cs[c])]
  BY <1>5 DEF NextSide, ChunkOf
<1>7. link.from \in 1 .. side BY <1>3, <1>4, LinkFacts
<1>8. IsSequence(fetched[link.from])
  <2> DEFINE a == link.from
  <2>1. a \in 1 .. side BY <1>7
  <2> HIDE DEF a
  <2>2. fetched[a] \in Seq(ClearedIn(in, a)) BY <1>3, <2>1
  <2>3. IsSequence(fetched[a]) BY <2>2, IsSeq
  <2>4. QED BY <2>3 DEF a
<1>9. /\ more[k] = <<>> /\ \A a \in 1 .. k - 1 : more[a] = fetched[a]
  <2>1. fetched \in Seq(ToSet(fetched)) BY <1>3, SequenceOf
  <2>2. /\ Append(fetched, <<>>)[side + 1] = <<>>
        /\ \A a \in 1 .. side : Append(fetched, <<>>)[a] = fetched[a]
    BY <1>3, <2>1
  <2>3. QED BY <1>1, <1>4, <2>2
<1>10. ASSUME Obedient PROVE ExactlyIn(in', fetched', side', chunks', got')
  <2>1. ExactlyIn(in, fetched, side, chunks, got) BY <1>1, <1>10 DEF XInv, SidesExact
  <2>2. ExactlyIn(in, fetched, k - 1, <<>>, <<>>) BY <1>1, <1>3, <1>4, <2>1
  <2>3. k \in 2 .. Len(in.q.from) BY <1>4
  <2>4. cs = ChunksFor(DistinctValues(fetched[LinkIn(in, k).from],
                                      LinkIn(in, k).fromCol), LinkIn(in, k))
        /\ probes = [c \in DOMAIN cs |-> ChunkOf(LinkIn(in, k).toCol, cs[c])]
    BY <1>6
  <2>5. IsSequence(fetched[LinkIn(in, k).from]) BY <1>8
  <2> HIDE DEF k, more, probes, cs, link
  <2>6. ExactlyIn(in, more, k, probes, <<>>)
    BY <1>3, <1>9, <2>2, <2>3, <2>4, <2>5, ProbeStarts
  <2>7. got' = <<>> /\ in' = in BY <1>1, <1>3
  <2>8. ExactlyIn(in', more, k, probes, got') BY <2>6, <2>7
  <2>9. QED BY <2>8 DEF more, k, probes
<1>11. Obedient' => Obedient BY <1>1 DEF Obedient
<1>12. stage' # "done" /\ stage' # "merge" BY <1>1
<1>13. AnswerExact' BY <1>12, NoResultYet
<1>14. QED BY <1>10, <1>11, <1>12, <1>13 DEF XInv, SidesExact

----------------------------------------------------------------------------
(* What the joined rows mean: the picks that the links join are the tuples *)
(* of Meant, each one once.                                                *)
LEMMA ProjectedKeys ==
  ASSUME NEW i \in Input, AcceptedIn(i), NEW k \in 2 .. Len(i.q.from)
  PROVE  /\ LinkIn(i, k).toCol \in FieldsIn(i, k)
         /\ LinkIn(i, k).fromCol \in FieldsIn(i, LinkIn(i, k).from)
<1> DEFINE a == SideOf(i.q, BuildEnd(i.q, k).alias)
<1>1. /\ Len(i.q.from) \in Nat /\ SidesOf(i.q) = 1 .. Len(i.q.from) BY InputFacts
<1>2. k \in SidesOf(i.q) \ {1} /\ k > 1 BY <1>1
<1>3. /\ LinkIn(i, k).from = a /\ LinkIn(i, k).fromCol = BuildEnd(i.q, k).col
      /\ LinkIn(i, k).toCol = ProbeEnd(i.q, k).col
  BY DEF LinkIn, LinkTo
<1>4. BuildEnd(i.q, k).col \in JoinKeys(i.q, a) BY <1>2 DEF JoinKeys
<1>5. ProbeEnd(i.q, k).col \in JoinKeys(i.q, k) BY <1>2 DEF JoinKeys
<1> HIDE DEF a
<1>6. \A s : JoinKeys(i.q, s) \subseteq FieldsIn(i, s) BY DEF FieldsIn, ScanProject
<1>7. QED BY <1>3, <1>4, <1>5, <1>6

(* The two ends of an ON condition are the build and the probe end.        *)
LEMMA EndsOfLink ==
  ASSUME NEW i \in Input, AcceptedIn(i), NEW k \in 2 .. Len(i.q.from)
  PROVE  LET a == i.q.on[k - 1].a
             b == i.q.on[k - 1].b
             is(end, side0, col) == SideOf(i.q, end.alias) = side0 /\ end.col = col
         IN \/ /\ is(a, LinkIn(i, k).from, LinkIn(i, k).fromCol)
               /\ is(b, k, LinkIn(i, k).toCol)
            \/ /\ is(b, LinkIn(i, k).from, LinkIn(i, k).fromCol)
               /\ is(a, k, LinkIn(i, k).toCol)
<1>1. /\ Len(i.q.from) \in Nat /\ SidesOf(i.q) = 1 .. Len(i.q.from) BY InputFacts
<1>2. k \in SidesOf(i.q) \ {1} BY <1>1
<1>3. LinkSupported(i.q, i.cat, k) BY <1>2 DEF AcceptedIn, Buildable
<1>4. SideOf(i.q, ProbeEnd(i.q, k).alias) = k BY <1>3 DEF LinkSupported
<1>5. /\ LinkIn(i, k).from = SideOf(i.q, BuildEnd(i.q, k).alias)
      /\ LinkIn(i, k).fromCol = BuildEnd(i.q, k).col
      /\ LinkIn(i, k).toCol = ProbeEnd(i.q, k).col
  BY DEF LinkIn, LinkTo
<1>6. \/ ProbeEnd(i.q, k) = i.q.on[k - 1].b /\ BuildEnd(i.q, k) = i.q.on[k - 1].a
      \/ ProbeEnd(i.q, k) = i.q.on[k - 1].a /\ BuildEnd(i.q, k) = i.q.on[k - 1].b
  BY DEF ProbeEnd, BuildEnd
<1>7. QED BY <1>4, <1>5, <1>6

CellOf(t, end) ==
  LET s == SideOf(in.q, end.alias) IN Val(RowOf(s, t[s]), end.col)

IsMeant(t) ==
  /\ DOMAIN t = 1 .. Len(in.q.from)
  /\ \A k \in 1 .. Len(in.q.from) : \E d \in Data(k) : t[k] = d.id
  /\ \A k \in DOMAIN in.q.on :
       CellOf(t, in.q.on[k].a) = CellOf(t, in.q.on[k].b)
       /\ CellOf(t, in.q.on[k].a) # Empty
  /\ \A j \in DOMAIN in.q.where :
       Sat(in.q.where[j].op, CellOf(t, in.q.where[j]), in.q.where[j].lit)
  /\ \A k \in 1 .. Len(in.q.from) : \A f \in Rls(k) : Entitled(RowOf(k, t[k]), f)

LEMMA MeantTuples ==
  ASSUME NEW t, t = [k \in 1 .. Len(in.q.from) |-> t[k]]
  PROVE  t \in Meant <=> IsMeant(t)
<1> DEFINE n == Len(in.q.from)
           ids == [k \in 1 .. n |-> {r.id : r \in Data(k)}]
           all == UNION {ids[k] : k \in 1 .. n}
           good(u) ==
             /\ \A k \in 1 .. n : u[k] \in ids[k]
             /\ \A k \in DOMAIN in.q.on :
                  /\ CellOf(u, in.q.on[k].a) = CellOf(u, in.q.on[k].b)
                  /\ CellOf(u, in.q.on[k].a) # Empty
             /\ \A j \in DOMAIN in.q.where :
                  Sat(in.q.where[j].op, CellOf(u, in.q.where[j]), in.q.where[j].lit)
             /\ \A k \in 1 .. n : \A f \in Rls(k) : Entitled(RowOf(k, u[k]), f)
<1>1. Meant = {u \in [1 .. n -> all] : good(u)} BY DEF Meant, CellOf
<1>2. \A k \in 1 .. n : t[k] \in ids[k] <=> \E d \in Data(k) : t[k] = d.id
  OBVIOUS
<1>3. \A k \in 1 .. n : ids[k] \subseteq all OBVIOUS
<1> HIDE DEF ids, all
<1>4. good(t) <=> IsMeant(t)
  <2>1. DOMAIN t = 1 .. n OBVIOUS
  <2> HIDE DEF n
  <2>2. QED BY <1>2, <2>1 DEF IsMeant, n
<1>5. good(t) => t \in [1 .. n -> all]
  <2>1. good(t) => \A k \in 1 .. n : t[k] \in ids[k] OBVIOUS
  <2> HIDE DEF good, n
  <2>2. t = [k \in 1 .. n |-> t[k]] BY DEF n
  <2>3. QED BY <1>3, <2>1, <2>2
<1> HIDE DEF good, n
<1>6. t \in Meant <=> t \in [1 .. n -> all] /\ good(t) BY <1>1
<1>7. QED BY <1>4, <1>5, <1>6

(* The row that a place of an exact side holds.                            *)
LEMMA RowAtPlace ==
  ASSUME in \in Input, AcceptedIn(in), NEW rows, ExactSides(in, rows),
         NEW k \in 1 .. Len(in.q.from), NEW j \in DOMAIN rows[k]
  PROVE  LET d == RowOf(k, rows[k][j].id)
         IN /\ d \in Asked(in, rows, k) /\ rows[k][j] = Cells(d, FieldsIn(in, k))
            /\ d \in Data(k) /\ d.id = rows[k][j].id
            /\ \A c \in FieldsIn(in, k) : Val(rows[k][j], c) = Val(d, c)
<1>1. Comes(rows[k], Asked(in, rows, k), FieldsIn(in, k)) BY DEF ExactSides
<1>2. PICK d \in Asked(in, rows, k) : rows[k][j] = Cells(d, FieldsIn(in, k))
  BY <1>1 DEF Comes
<1>3. rows[k][j].id = d.id BY <1>2 DEF Cells
<1>4. Data(k) = DataIn(in, k) BY DEF Data, DataIn, TableOfIn
<1>5. d \in DataIn(in, k) BY DEF Asked
<1>6. RowOf(k, rows[k][j].id) = d
  <2>1. RowOf(k, d.id) \in Data(k) /\ RowOf(k, d.id).id = d.id
    BY <1>4, <1>5 DEF RowOf
  <2>2. RowOf(k, d.id) = d BY <1>4, <1>5, <2>1, DataApart
  <2>3. QED BY <1>3, <2>2
<1>7. \A c \in FieldsIn(in, k) : Val(rows[k][j], c) = Val(d, c)
  BY <1>2, CellsShow
<1>8. QED BY <1>2, <1>3, <1>4, <1>5, <1>6, <1>7

LEMMA GoodSatisfy ==
  ASSUME in \in Input, AcceptedIn(in), ConjunctsReachSources,
         NEW k \in 1 .. Len(in.q.from), NEW d, GoodIn(in, k, d),
         NEW j \in MineIn(in, k)
  PROVE  Sat(in.q.where[j].op, Val(d, in.q.where[j].col), in.q.where[j].lit)
<1>1. PICK m \in DOMAIN FiltersIn(in, k) : AsksFor(in, j, FiltersIn(in, k)[m])
  BY FilterOrigins
<1>2. Clears(in, FiltersIn(in, k)[m], d) BY DEF GoodIn
<1>3. Val(d, in.q.where[j].col) = in.q.where[j].lit
  BY <1>1, <1>2 DEF Clears, AsksFor
<1>4. in.q.where[j].op = "=" BY DEF ConjunctsReachSources, ReachIn, MineIn
<1>5. QED BY <1>3, <1>4 DEF Sat

LEMMA HitIsMeant ==
  ASSUME in \in Input, AcceptedIn(in), EqualityResiduals, ConjunctsReachSources,
         NEW rows, ExactSides(in, rows), NEW p \in HitsIn(in, rows)
  PROVE  IdsAt(in, rows, p) \in Meant
<1> DEFINE n == Len(in.q.from)
           t == IdsAt(in, rows, p)
           d(k) == RowOf(k, t[k])
<1>1. n \in Nat /\ SidesOf(in.q) = 1 .. n BY InputFacts
<1>2. \A k \in 1 .. n : p[k] \in DOMAIN rows[k] BY DEF HitsIn
<1>3. t = [k \in 1 .. n |-> t[k]] /\ DOMAIN t = 1 .. n
      /\ \A k \in 1 .. n : t[k] = rows[k][p[k]].id
  BY DEF IdsAt
<1> HIDE DEF n, t
<1>4. \A k \in 1 .. n :
        /\ d(k) \in Asked(in, rows, k) /\ d(k) \in Data(k) /\ d(k).id = t[k]
        /\ \A c \in FieldsIn(in, k) : Val(rows[k][p[k]], c) = Val(d(k), c)
  <2> SUFFICES ASSUME NEW k \in 1 .. n
               PROVE  /\ d(k) \in Asked(in, rows, k) /\ d(k) \in Data(k)
                      /\ d(k).id = t[k]
                      /\ \A c \in FieldsIn(in, k) :
                           Val(rows[k][p[k]], c) = Val(d(k), c)
    OBVIOUS
  <2>1. p[k] \in DOMAIN rows[k] /\ k \in 1 .. Len(in.q.from) BY <1>2 DEF n
  <2> DEFINE e == RowOf(k, rows[k][p[k]].id)
  <2>2. /\ e \in Asked(in, rows, k) /\ e \in Data(k) /\ e.id = rows[k][p[k]].id
        /\ \A c \in FieldsIn(in, k) : Val(rows[k][p[k]], c) = Val(e, c)
    BY <2>1, RowAtPlace
  <2>3. e = d(k) BY <1>3
  <2> HIDE DEF e, d
  <2>4. QED BY <1>3, <2>2, <2>3
<1>5. \A end : CellOf(t, end) = Val(d(SideOf(in.q, end.alias)), end.col)
  BY DEF CellOf
<1> HIDE DEF d
<1>6. ASSUME NEW k \in 2 .. n
      PROVE  LET link == LinkIn(in, k)
             IN /\ Val(d(link.from), link.fromCol) = Val(d(k), link.toCol)
                /\ Val(d(k), link.toCol) # Empty
  <2> DEFINE a == LinkIn(in, k).from
             fromCol == LinkIn(in, k).fromCol
             toCol == LinkIn(in, k).toCol
  <2>1. a \in 1 .. k - 1 /\ toCol \in FieldsIn(in, k) /\ fromCol \in FieldsIn(in, a)
    BY LinkFacts, ProjectedKeys DEF n
  <2>2. Val(rows[a][p[a]], fromCol) = Val(rows[k][p[k]], toCol) BY DEF HitsIn, n
  <2>3. Reached(in, rows, k, d(k)) /\ k > 1 /\ k \in 1 .. n
    BY <1>1, <1>4 DEF Asked
  <2>4. Val(d(k), toCol) # Empty BY <2>3 DEF Reached, KeysOf
  <2> HIDE DEF a, fromCol, toCol
  <2>5. a \in 1 .. n BY <1>1, <2>1
  <2>6. Val(d(a), fromCol) = Val(d(k), toCol)
    BY <1>4, <2>1, <2>2, <2>3, <2>5
  <2>7. QED BY <2>4, <2>6 DEF a, fromCol, toCol
<1>7. \A k \in DOMAIN in.q.on :
        CellOf(t, in.q.on[k].a) = CellOf(t, in.q.on[k].b)
        /\ CellOf(t, in.q.on[k].a) # Empty
  <2> SUFFICES ASSUME NEW m \in DOMAIN in.q.on
               PROVE  CellOf(t, in.q.on[m].a) = CellOf(t, in.q.on[m].b)
                      /\ CellOf(t, in.q.on[m].a) # Empty
    OBVIOUS
  <2> DEFINE k == m + 1
             link == LinkIn(in, k)
             x == in.q.on[m].a
             y == in.q.on[m].b
  <2>1. DOMAIN in.q.on = 1 .. n - 1 BY InputFacts DEF IsInput, n
  <2>2. k \in 2 .. n /\ k - 1 = m BY <1>1, <2>1
  <2> HIDE DEF k
  <2>3. \/ /\ SideOf(in.q, x.alias) = link.from /\ x.col = link.fromCol
           /\ SideOf(in.q, y.alias) = k /\ y.col = link.toCol
        \/ /\ SideOf(in.q, y.alias) = link.from /\ y.col = link.fromCol
           /\ SideOf(in.q, x.alias) = k /\ x.col = link.toCol
    BY <2>2, EndsOfLink DEF n
  <2>4. /\ Val(d(link.from), link.fromCol) = Val(d(k), link.toCol)
        /\ Val(d(k), link.toCol) # Empty
    BY <1>6, <2>2
  <2> HIDE DEF link, x, y
  <2>5. CellOf(t, x) = Val(d(SideOf(in.q, x.alias)), x.col)
        /\ CellOf(t, y) = Val(d(SideOf(in.q, y.alias)), y.col)
    BY <1>5
  <2>6. CellOf(t, x) = CellOf(t, y) /\ CellOf(t, x) # Empty
    BY <2>3, <2>4, <2>5
  <2>7. QED BY <2>6 DEF x, y
<1>8. \A j \in DOMAIN in.q.where :
        Sat(in.q.where[j].op, CellOf(t, in.q.where[j]), in.q.where[j].lit)
  <2> SUFFICES ASSUME NEW j \in DOMAIN in.q.where
               PROVE  Sat(in.q.where[j].op, CellOf(t, in.q.where[j]), in.q.where[j].lit)
    OBVIOUS
  <2> DEFINE k == SideOf(in.q, in.q.where[j].alias)
  <2>1. in.q.where[j].alias \in Aliases(in.q) BY DEF AcceptedIn, Buildable
  <2>2. k \in 1 .. n BY <2>1, SideOfAlias DEF n
  <2>3. j \in MineIn(in, k) BY DEF MineIn
  <2>4. CellOf(t, in.q.where[j]) = Val(d(k), in.q.where[j].col) BY <1>5
  <2> HIDE DEF k
  <2>5. GoodIn(in, k, d(k)) BY <1>4, <2>2 DEF Asked
  <2>6. Sat(in.q.where[j].op, Val(d(k), in.q.where[j].col), in.q.where[j].lit)
    BY <2>2, <2>3, <2>5, GoodSatisfy DEF n
  <2>7. QED BY <2>4, <2>6
<1>9. \A k \in 1 .. n : \A f \in Rls(k) : Entitled(RowOf(k, t[k]), f)
  <2> SUFFICES ASSUME NEW k \in 1 .. n, NEW f \in Rls(k)
               PROVE  Entitled(RowOf(k, t[k]), f)
    OBVIOUS
  <2>1. rows[k] \in Seq(ClearedIn(in, k)) BY DEF ExactSides, n
  <2>2. rows[k][p[k]] \in ClearedIn(in, k) BY <1>2, <2>1
  <2> DEFINE r == rows[k][p[k]]
  <2>3. r \in ClearedIn(in, k) /\ k \in 1 .. Len(in.q.from) BY <2>2 DEF n
  <2> HIDE DEF r
  <2>4. Entitled(RowOf(k, r.id), f) BY <2>3, ClearedAreEntitled
  <2>5. QED BY <1>3, <2>4 DEF r
<1>10. \A k \in 1 .. n : \E e \in Data(k) : t[k] = e.id BY <1>4
<1>11. IsMeant(t) BY <1>3, <1>7, <1>8, <1>9, <1>10 DEF IsMeant, n
<1>12. t \in Meant BY <1>3, <1>11, MeantTuples DEF n
<1>13. QED BY <1>12 DEF t

LEMMA PicksApart ==
  ASSUME in \in Input, NEW rows, ExactSides(in, rows),
         NEW p \in HitsIn(in, rows), NEW q \in HitsIn(in, rows),
         IdsAt(in, rows, p) = IdsAt(in, rows, q)
  PROVE  p = q
<1> DEFINE n == Len(in.q.from)
<1>1. n \in Nat BY InputFacts
<1>2. /\ p \in Seq(Nat) /\ q \in Seq(Nat) /\ Len(p) = n /\ Len(q) = n
      /\ \A k \in 1 .. n : p[k] \in DOMAIN rows[k] /\ q[k] \in DOMAIN rows[k]
  BY DEF HitsIn
<1>3. \A k \in 1 .. n : rows[k][p[k]].id = rows[k][q[k]].id
  <2>1. \A k \in 1 .. n : /\ IdsAt(in, rows, p)[k] = rows[k][p[k]].id
                          /\ IdsAt(in, rows, q)[k] = rows[k][q[k]].id
    BY DEF IdsAt
  <2> HIDE DEF n
  <2>2. QED BY <2>1
<1>4. \A k \in 1 .. n : \A j, m \in DOMAIN rows[k] :
        rows[k][j].id = rows[k][m].id => j = m
  BY DEF ExactSides, Comes
<1> HIDE DEF n
<1>5. \A k \in 1 .. n : p[k] = q[k] BY <1>2, <1>3, <1>4
<1>6. QED BY <1>1, <1>2, <1>5

LEMMA AttrIsSet ==
  ASSUME in \in Input, AcceptedIn(in), NEW name, SetBy(name) # {}
  PROVE  name \in DOMAIN PrincipalIn(in).attrs
<1>1. PrincipalIn(in).attrs = AttrsOf(Registered, Groups)
  BY RoleIsOwed DEF PrincipalIn, ResolveFromHeader, Registered, Groups
<1>2. PICK k \in DOMAIN Groups : /\ Groups[k] \in DOMAIN Registered.attrs
                                 /\ name \in DOMAIN Registered.attrs[Groups[k]]
  BY DEF SetBy
<1> DEFINE known == {j \in DOMAIN Groups : Groups[j] \in DOMAIN Registered.attrs}
<1>3. DOMAIN AttrsOf(Registered, Groups)
        = UNION {DOMAIN Registered.attrs[Groups[j]] : j \in known}
  BY DEF AttrsOf
<1>4. QED BY <1>1, <1>2, <1>3

(* A row that a query means passes the filters of its side.                *)
LEMMA MeantAreGood ==
  ASSUME in \in Input, AcceptedIn(in), EqualityResiduals, ConjunctsReachSources,
         NEW k \in 1 .. Len(in.q.from), NEW d,
         \A f \in Rls(k) : Entitled(d, f),
         \A j \in MineIn(in, k) :
           Sat(in.q.where[j].op, Val(d, in.q.where[j].col), in.q.where[j].lit)
  PROVE  GoodIn(in, k, d)
<1> SUFFICES ASSUME NEW m \in DOMAIN FiltersIn(in, k)
             PROVE  Clears(in, FiltersIn(in, k)[m], d)
  BY DEF GoodIn
<1> DEFINE f == FiltersIn(in, k)[m]
<1>1. IsFilter(in, k, f) BY FilterOrigins
<1> HIDE DEF f
<1>2. CASE f.origin = "user" /\ \E j \in MineIn(in, k) : AsksFor(in, j, f)
  <2>1. PICK j \in MineIn(in, k) : AsksFor(in, j, f) BY <1>2
  <2>2. in.q.where[j].op = "=" BY DEF ConjunctsReachSources, ReachIn, MineIn
  <2>3. Sat(in.q.where[j].op, Val(d, in.q.where[j].col), in.q.where[j].lit)
    OBVIOUS
  <2>4. Val(d, in.q.where[j].col) = in.q.where[j].lit BY <2>2, <2>3 DEF Sat
  <2>5. Clears(in, f, d) BY <2>1, <2>4 DEF Clears, AsksFor
  <2>6. QED BY <2>5 DEF f
<1>3. CASE IsResidual(in, k, f)
  <2>1. PICK r \in ToSet(Residuals(DocIn(in), TableAt(in.q, k))) :
          f.col = r.col /\ f.val = r.val
    BY <1>3 DEF IsResidual
  <2>2. r \in Rls(k) BY RoleIsOwed DEF Rls
  <2>3. r.op = "=" /\ r.val[1] \in {"attr", "lit"} BY <2>2, ResidualFacts
  <2>4. Entitled(d, r) BY <2>2
  <2>5. CASE r.val[1] = "attr"
    <3>1. /\ SetBy(r.val[2]) # {}
          /\ Sat(r.op, Val(d, r.col), AttrOwed(r.val[2]))
      BY <2>4, <2>5 DEF Entitled
    <3>2. r.val[2] \in DOMAIN PrincipalIn(in).attrs BY <3>1, AttrIsSet
    <3>3. PrincipalIn(in).attrs[r.val[2]] = AttrOwed(r.val[2])
      BY <3>2, AttrIsOwed
    <3>4. Val(d, r.col) = AttrOwed(r.val[2]) BY <2>3, <3>1 DEF Sat
    <3>5. WantIn(in, f) = AttrOwed(r.val[2]) /\ HasValue(in, f)
      <4>1. f.val[1] = "attr" /\ f.val[2] = r.val[2] BY <2>1, <2>5
      <4>2. WantIn(in, f) = PrincipalIn(in).attrs[f.val[2]] BY <4>1 DEF WantIn
      <4>3. HasValue(in, f) BY <3>2, <4>1 DEF HasValue
      <4>4. QED BY <3>3, <4>1, <4>2, <4>3
    <3>6. Clears(in, f, d) BY <2>1, <3>4, <3>5 DEF Clears
    <3>7. QED BY <3>6 DEF f
  <2>6. CASE r.val[1] = "lit"
    <3>1. Sat(r.op, Val(d, r.col), r.val[2]) BY <2>4, <2>6 DEF Entitled
    <3>2. Val(d, r.col) = r.val[2] BY <2>3, <3>1 DEF Sat
    <3>3. f.val[1] = "lit" /\ f.val[2] = r.val[2] BY <2>1, <2>6
    <3>4. WantIn(in, f) = r.val[2] /\ HasValue(in, f)
      BY <3>3 DEF WantIn, HasValue
    <3>5. Clears(in, f, d) BY <2>1, <3>2, <3>4 DEF Clears
    <3>6. QED BY <3>5 DEF f
  <2>7. QED BY <2>3, <2>5, <2>6
<1>4. QED BY <1>1, <1>2, <1>3 DEF IsFilter

(* The rows of a tuple that a query means, side by side.                   *)
LEMMA MeantRows ==
  ASSUME in \in Input, AcceptedIn(in), EqualityResiduals, ConjunctsReachSources,
         NEW t, IsMeant(t)
  PROVE  /\ \A k \in 1 .. Len(in.q.from) :
              /\ RowOf(k, t[k]) \in DataIn(in, k) /\ RowOf(k, t[k]).id = t[k]
              /\ GoodIn(in, k, RowOf(k, t[k]))
         /\ \A k \in 2 .. Len(in.q.from) :
              LET link == LinkIn(in, k)
                  key == Val(RowOf(k, t[k]), link.toCol)
              IN /\ Val(RowOf(link.from, t[link.from]), link.fromCol) = key
                 /\ key # Empty
<1> DEFINE n == Len(in.q.from)
           d(k) == RowOf(k, t[k])
<1>1. n \in Nat BY InputFacts
<1>2. ASSUME NEW k \in 1 .. n
      PROVE  d(k) \in DataIn(in, k) /\ d(k).id = t[k]
  <2>1. PICK e \in Data(k) : t[k] = e.id BY DEF IsMeant
  <2>2. d(k) \in Data(k) /\ d(k).id = t[k] BY <2>1 DEF RowOf
  <2>3. QED BY <2>2 DEF Data, DataIn, TableOfIn
<1>3. \A end : CellOf(t, end) = Val(d(SideOf(in.q, end.alias)), end.col)
  BY DEF CellOf
<1>4. ASSUME NEW k \in 1 .. n PROVE GoodIn(in, k, d(k))
  <2> DEFINE r == d(k)
  <2>1. \A f \in Rls(k) : Entitled(r, f) BY DEF IsMeant
  <2>2. ASSUME NEW j \in MineIn(in, k)
        PROVE  Sat(in.q.where[j].op, Val(r, in.q.where[j].col), in.q.where[j].lit)
    <3>1. j \in DOMAIN in.q.where /\ SideOf(in.q, in.q.where[j].alias) = k
      BY DEF MineIn
    <3>2. Sat(in.q.where[j].op, CellOf(t, in.q.where[j]), in.q.where[j].lit)
      BY <3>1 DEF IsMeant
    <3>3. CellOf(t, in.q.where[j]) = Val(r, in.q.where[j].col) BY <1>3, <3>1
    <3>4. QED BY <3>2, <3>3
  <2> HIDE DEF r
  <2>3. GoodIn(in, k, r) BY <2>1, <2>2, MeantAreGood
  <2>4. QED BY <2>3 DEF r
<1> HIDE DEF d
<1>5. ASSUME NEW k \in 2 .. n
      PROVE  LET link == LinkIn(in, k)
             IN /\ Val(d(link.from), link.fromCol) = Val(d(k), link.toCol)
                /\ Val(d(k), link.toCol) # Empty
  <2> DEFINE link == LinkIn(in, k)
             x == in.q.on[k - 1].a
             y == in.q.on[k - 1].b
  <2>1. k - 1 \in DOMAIN in.q.on
    <3>1. DOMAIN in.q.on = 1 .. n - 1 BY InputFacts DEF IsInput
    <3>2. QED BY <1>1, <3>1
  <2>2. CellOf(t, x) = CellOf(t, y) /\ CellOf(t, x) # Empty
    BY <2>1 DEF IsMeant
  <2>3. \/ /\ SideOf(in.q, x.alias) = link.from /\ x.col = link.fromCol
           /\ SideOf(in.q, y.alias) = k /\ y.col = link.toCol
        \/ /\ SideOf(in.q, y.alias) = link.from /\ y.col = link.fromCol
           /\ SideOf(in.q, x.alias) = k /\ x.col = link.toCol
    BY EndsOfLink
  <2> HIDE DEF link, x, y
  <2>4. CellOf(t, x) = Val(d(SideOf(in.q, x.alias)), x.col)
        /\ CellOf(t, y) = Val(d(SideOf(in.q, y.alias)), y.col)
    BY <1>3
  <2>5. /\ Val(d(link.from), link.fromCol) = Val(d(k), link.toCol)
        /\ Val(d(k), link.toCol) # Empty
    BY <2>2, <2>3, <2>4
  <2>6. QED BY <2>5 DEF link
<1>6. QED BY <1>2, <1>4, <1>5 DEF d, n

LEMMA MeantAreAsked ==
  ASSUME in \in Input, AcceptedIn(in), EqualityResiduals, ConjunctsReachSources,
         NEW rows, ExactSides(in, rows), NEW t, IsMeant(t)
  PROVE  \A k \in 1 .. Len(in.q.from) : RowOf(k, t[k]) \in Asked(in, rows, k)
<1> DEFINE n == Len(in.q.from)
           d(k) == RowOf(k, t[k])
           bad == {k \in 1 .. n : d(k) \notin Asked(in, rows, k)}
<1>1. n \in Nat BY InputFacts
<1>2. \A k \in 1 .. n : d(k) \in DataIn(in, k) /\ GoodIn(in, k, d(k)) BY MeantRows
<1>3. SUFFICES ASSUME bad # {} PROVE FALSE OBVIOUS
<1>4. PICK k \in Nat : IsFirst(bad, k)
  <2>1. bad \in SUBSET Nat BY <1>1
  <2> HIDE DEF bad
  <2>2. QED BY <1>3, <2>1, HasFirst
<1>5. k \in 1 .. n /\ d(k) \notin Asked(in, rows, k) /\ \A j \in bad : ~(j < k)
  BY <1>4 DEF IsFirst
<1>6. ~Reached(in, rows, k, d(k)) BY <1>2, <1>5 DEF Asked
<1>7. k \in 2 .. n BY <1>1, <1>5, <1>6 DEF Reached
<1> DEFINE a == LinkIn(in, k).from
           fromCol == LinkIn(in, k).fromCol
           key == Val(d(k), LinkIn(in, k).toCol)
<1>8. a \in 1 .. k - 1 /\ fromCol \in FieldsIn(in, a) BY <1>7, LinkFacts, ProjectedKeys
<1>9. Val(d(a), fromCol) = key /\ key # Empty BY <1>7, MeantRows
<1>10. key \notin KeysOf(rows[a], fromCol) BY <1>6 DEF Reached
<1> HIDE DEF key, fromCol, a
<1>11. a \in 1 .. n /\ a < k BY <1>1, <1>5, <1>8
<1>12. d(a) \in Asked(in, rows, a) BY <1>5, <1>11
<1> HIDE DEF d, bad, n
<1>13. Comes(rows[a], Asked(in, rows, a), FieldsIn(in, a))
  BY <1>11 DEF ExactSides, n
<1>14. PICK j \in DOMAIN rows[a] : rows[a][j] = Cells(d(a), FieldsIn(in, a))
  BY <1>12, <1>13 DEF Comes
<1>15. Val(rows[a][j], fromCol) = key BY <1>8, <1>9, <1>14, CellsShow
<1>16. QED BY <1>9, <1>10, <1>15 DEF KeysOf

LEMMA MeantIsHit ==
  ASSUME in \in Input, AcceptedIn(in), EqualityResiduals, ConjunctsReachSources,
         NEW rows, ExactSides(in, rows), NEW t \in Meant
  PROVE  \E p \in HitsIn(in, rows) : IdsAt(in, rows, p) = t
<1> DEFINE n == Len(in.q.from)
           d(k) == RowOf(k, t[k])
           at(k) == CHOOSE j \in DOMAIN rows[k] :
                      rows[k][j] = Cells(d(k), FieldsIn(in, k))
           p == [k \in 1 .. n |-> at(k)]
<1>1. n \in Nat BY InputFacts
<1>2. t = [k \in 1 .. n |-> t[k]]
  <2>1. \E S : t \in [1 .. n -> S] BY DEF Meant
  <2>2. QED BY <2>1
<1>3. IsMeant(t) BY <1>2, MeantTuples
<1>4. \A k \in 1 .. n : d(k).id = t[k] BY <1>3, MeantRows
<1>5. \A k \in 1 .. n : d(k) \in Asked(in, rows, k) BY <1>3, MeantAreAsked
<1> HIDE DEF d
<1>6. ASSUME NEW k \in 1 .. n
      PROVE  at(k) \in DOMAIN rows[k] /\ rows[k][at(k)] = Cells(d(k), FieldsIn(in, k))
  <2>1. Comes(rows[k], Asked(in, rows, k), FieldsIn(in, k)) BY DEF ExactSides
  <2>2. \E j \in DOMAIN rows[k] : rows[k][j] = Cells(d(k), FieldsIn(in, k))
    BY <1>5, <2>1 DEF Comes
  <2>3. QED BY <2>2
<1>7. \A k \in 1 .. n : DOMAIN rows[k] \subseteq Nat
  <2>1. \A k \in 1 .. n : rows[k] \in Seq(ClearedIn(in, k)) BY DEF ExactSides
  <2>2. QED BY <2>1
<1> HIDE DEF at
<1>8. \A k \in 1 .. n : p[k] = at(k) OBVIOUS
<1>9. p \in Seq(Nat) /\ Len(p) = n
  <2>1. \A k \in 1 .. n : at(k) \in Nat BY <1>6, <1>7
  <2> HIDE DEF n
  <2>2. QED BY <1>1, <2>1
<1> HIDE DEF p
<1>10. \A k \in 1 .. n : \A c \in FieldsIn(in, k) :
         Val(rows[k][p[k]], c) = Val(d(k), c)
  <2>1. \A k \in 1 .. n : rows[k][p[k]] = Cells(d(k), FieldsIn(in, k))
    BY <1>6, <1>8
  <2>2. QED BY <2>1, CellsShow
<1>11. ASSUME NEW k \in 2 .. n
       PROVE  LET link == LinkIn(in, k)
              IN Val(rows[link.from][p[link.from]], link.fromCol) =
                   Val(rows[k][p[k]], link.toCol)
  <2> DEFINE a == LinkIn(in, k).from
             fromCol == LinkIn(in, k).fromCol
             toCol == LinkIn(in, k).toCol
  <2>1. a \in 1 .. k - 1 /\ toCol \in FieldsIn(in, k) /\ fromCol \in FieldsIn(in, a)
    BY LinkFacts, ProjectedKeys
  <2>2. Val(d(a), fromCol) = Val(d(k), toCol) BY <1>3, MeantRows DEF d
  <2> HIDE DEF a, fromCol, toCol, n
  <2>3. a \in 1 .. n /\ k \in 1 .. n BY <1>1, <2>1
  <2>4. Val(rows[a][p[a]], fromCol) = Val(rows[k][p[k]], toCol)
    BY <1>10, <2>1, <2>2, <2>3
  <2>5. QED BY <2>4 DEF a, fromCol, toCol
<1>12. p \in HitsIn(in, rows) BY <1>6, <1>8, <1>9, <1>11 DEF HitsIn
<1>13. \A k \in 1 .. n : rows[k][p[k]].id = t[k]
  <2>1. \A e, fields : Cells(e, fields).id = e.id BY DEF Cells
  <2>2. \A k \in 1 .. n : rows[k][p[k]] = Cells(d(k), FieldsIn(in, k))
    BY <1>6, <1>8
  <2> HIDE DEF n
  <2>3. QED BY <1>4, <2>1, <2>2
<1>14. IdsAt(in, rows, p) = t BY <1>2, <1>13 DEF IdsAt
<1>15. QED BY <1>12, <1>14

(* The rows of an exact answer are those that the query means.             *)
LEMMA HitsAreMeant ==
  ASSUME in \in Input, AcceptedIn(in), EqualityResiduals, ConjunctsReachSources,
         NEW rows, ExactSides(in, rows)
  PROVE  [p \in HitsIn(in, rows) |-> IdsAt(in, rows, p)]
           \in Bijection(HitsIn(in, rows), Meant)
<1> DEFINE H == HitsIn(in, rows)
           ids(p) == IdsAt(in, rows, p)
           g == [p \in H |-> ids(p)]
<1>1. \A p \in H : ids(p) \in Meant BY HitIsMeant
<1>2. \A p, q \in H : ids(p) = ids(q) => p = q BY PicksApart
<1>3. \A t \in Meant : \E p \in H : ids(p) = t BY MeantIsHit
<1> HIDE DEF H, ids
<1>4. /\ g \in [H -> Meant]
      /\ \A p, q \in H : g[p] = g[q] => p = q
      /\ \A t \in Meant : \E p \in H : g[p] = t
  BY <1>1, <1>2, <1>3
<1> HIDE DEF g
<1>5. g \in Bijection(H, Meant) BY <1>4, Fun_IsBij
<1>6. QED BY <1>5 DEF g, H, ids

LEMMA ShownIsMeant ==
  ASSUME in \in Input, AcceptedIn(in), NEW rows, ExactSides(in, rows),
         NEW p \in HitsIn(in, rows), NEW o, ShowsPick(in, rows, p, o),
         NEW k \in DOMAIN in.q.select
  PROVE  LET s == SideOf(in.q, in.q.select[k].alias)
         IN o.vals[k].of = Val(RowOf(s, o.ids[s]), in.q.select[k].col)
<1> DEFINE s == SideOf(in.q, in.q.select[k].alias)
           col == in.q.select[k].col
           r == rows[s][p[s]]
<1>1. in.q.select[k].alias \in Aliases(in.q) BY DEF AcceptedIn, Buildable
<1>2. s \in 1 .. Len(in.q.from) /\ in.q.from[s].alias = in.q.select[k].alias
  BY <1>1, SideOfAlias
<1>3. o.vals[k].of = Val(r, col) BY DEF ShowsPick
<1>4. o.ids[s] = r.id BY <1>2 DEF ShowsPick, IdsAt
<1>5. col \in FieldsIn(in, s)
  <2>1. col \in Selected(in.q, s) BY <1>2 DEF Selected
  <2>2. QED BY <2>1 DEF FieldsIn, ScanProject
<1>6. p[s] \in DOMAIN rows[s] BY <1>2 DEF HitsIn
<1> HIDE DEF s, col
<1>7. \A c \in FieldsIn(in, s) : Val(r, c) = Val(RowOf(s, r.id), c)
  BY <1>2, <1>6, RowAtPlace
<1>8. o.vals[k].of = Val(RowOf(s, o.ids[s]), col) BY <1>3, <1>4, <1>5, <1>7
<1>9. QED BY <1>8 DEF s, col

LEMMA ExactAnswer ==
  ASSUME EqualityResiduals, ConjunctsReachSources, QInv, AnswerExact
  PROVE  ExactResult
<1> SUFFICES ASSUME stage = "done", out.err = NoError, Obedient
    PROVE  /\ {out.rows[k].ids : k \in DOMAIN out.rows} = Meant
           /\ Len(out.rows) = Cardinality(Meant)
           /\ \A row \in ToSet(out.rows) : \A k \in DOMAIN in.q.select :
                LET i == SideOf(in.q, in.q.select[k].alias)
                IN row.vals[k].of = Val(RowOf(i, row.ids[i]), in.q.select[k].col)
  BY DEF ExactResult
<1> DEFINE os == out.rows
           H == HitsIn(in, fetched)
           g == [p \in H |-> IdsAt(in, fetched, p)]
<1>1. /\ in \in Input /\ AcceptedIn(in) /\ ExactSides(in, fetched)
      /\ ShowsHits(in, fetched, os)
  BY DEF AnswerExact, QInv
<1>2. PICK b \in Bijection(DOMAIN os, H) :
        \A m \in DOMAIN os : ShowsPick(in, fetched, b[m], os[m])
  BY <1>1 DEF ShowsHits
<1>3. IsSequence(os) BY <1>1 DEF ShowsHits
<1>4. g \in Bijection(H, Meant) BY <1>1, HitsAreMeant
<1>5. \A m \in DOMAIN os : b[m] \in H BY <1>2, Fun_BijectionProperties
<1>6. \A m \in DOMAIN os : os[m].ids = g[b[m]] BY <1>2, <1>5 DEF ShowsPick
<1> DEFINE c == [m \in DOMAIN os |-> g[b[m]]]
<1>7. \A row \in ToSet(os) : \A k \in DOMAIN in.q.select :
        LET i == SideOf(in.q, in.q.select[k].alias)
        IN row.vals[k].of = Val(RowOf(i, row.ids[i]), in.q.select[k].col)
  <2> SUFFICES ASSUME NEW m \in DOMAIN os, NEW k \in DOMAIN in.q.select
               PROVE  LET i == SideOf(in.q, in.q.select[k].alias)
                      IN os[m].vals[k].of =
                           Val(RowOf(i, os[m].ids[i]), in.q.select[k].col)
    BY DEF ToSet
  <2>1. b[m] \in HitsIn(in, fetched) /\ ShowsPick(in, fetched, b[m], os[m])
    BY <1>2, <1>5
  <2>2. QED BY <1>1, <2>1, ShownIsMeant
<1> HIDE DEF os, H, g
<1>8. c \in Bijection(DOMAIN os, Meant) BY <1>2, <1>4, Fun_BijTransitive
<1> HIDE DEF c
<1>9. \A m \in DOMAIN os : os[m].ids = c[m] BY <1>6 DEF c
<1>10. /\ c \in [DOMAIN os -> Meant]
       /\ \A t \in Meant : \E m \in DOMAIN os : c[m] = t
  BY <1>8, Fun_BijectionProperties
<1>11. {os[k].ids : k \in DOMAIN os} = Meant BY <1>9, <1>10
<1>12. Len(os) = Cardinality(Meant)
  <2>1. Len(os) \in Nat /\ DOMAIN os = 1 .. Len(os) BY <1>3, Sequences
  <2>2. IsFiniteSet(DOMAIN os) /\ Cardinality(DOMAIN os) = Len(os)
    <3> DEFINE m == Len(os)
    <3>1. m \in Nat /\ DOMAIN os = 1 .. m BY <2>1
    <3> HIDE DEF m
    <3>2. 1 \in Int /\ m \in Int BY <3>1
    <3>3. /\ IsFiniteSet(1 .. m)
          /\ Cardinality(1 .. m) = IF 1 > m THEN 0 ELSE (m - 1) + 1
      BY ONLY <3>2, FS_Interval
    <3>4. Cardinality(1 .. m) = m BY ONLY <3>1, <3>3
    <3>5. QED BY <3>1, <3>3, <3>4 DEF m
  <2>3. ExistsBijection(DOMAIN os, Meant) BY <1>8 DEF ExistsBijection
  <2>4. Cardinality(DOMAIN os) = Cardinality(Meant) BY <2>2, <2>3, FS_Bijection
  <2>5. QED BY <2>2, <2>4
<1>13. QED BY <1>7, <1>11, <1>12 DEF os

(* When the rows are merged, the hits of the joins are those of the links. *)
LEMMA HitsAtMerge ==
  ASSUME QInv, stage = "merge"
  PROVE  Hits(Len(in.q.from)) = HitsIn(in, fetched)
<1> DEFINE n == Len(in.q.from)
           joins(p, k) ==
             LET link == LinkIn(in, k)
             IN Val(fetched[link.from][p[link.from]], link.fromCol) =
                  Val(fetched[k][p[k]], link.toCol)
<1>1. /\ n \in Nat \ {0}
      /\ \A k \in 1 .. n - 1 :
           plan.links[k] = LinkIn(in, k + 1) /\ plan.links[k].to = k + 1
  BY MergeFacts
<1>2. \A p : \A k \in 1 .. n - 1 : Holds(p, plan.links[k]) <=> joins(p, k + 1)
  BY <1>1 DEF Holds
<1> HIDE DEF joins
<1>3. \A p : (\A k \in 1 .. n - 1 : Holds(p, plan.links[k]))
               <=> \A k \in 2 .. n : joins(p, k)
  <2> SUFFICES ASSUME NEW p
               PROVE  (\A k \in 1 .. n - 1 : Holds(p, plan.links[k]))
                        <=> \A k \in 2 .. n : joins(p, k)
    OBVIOUS
  <2> HIDE DEF n
  <2>1. \A k \in 1 .. n - 1 : k + 1 \in 2 .. n BY <1>1
  <2>2. \A k \in 2 .. n : k - 1 \in 1 .. n - 1 /\ (k - 1) + 1 = k BY <1>1
  <2>3. ASSUME \A k \in 2 .. n : joins(p, k)
        PROVE  \A k \in 1 .. n - 1 : Holds(p, plan.links[k])
    BY <1>2, <2>1, <2>3
  <2>4. ASSUME \A k \in 1 .. n - 1 : Holds(p, plan.links[k]), NEW k \in 2 .. n
        PROVE  joins(p, k)
    <3>1. Holds(p, plan.links[k - 1]) BY <2>2, <2>4
    <3>2. joins(p, (k - 1) + 1) BY <1>2, <2>2, <3>1
    <3>3. QED BY <2>2, <3>2
  <2>5. QED BY <2>3, <2>4
<1>4. \A p : p \in Hits(n) <=>
               /\ p \in Seq(Nat) /\ Len(p) = n
               /\ \A k \in 1 .. n : p[k] \in DOMAIN fetched[k]
               /\ \A k \in 1 .. n - 1 : Holds(p, plan.links[k])
  BY DEF Hits, Picks
<1>5. \A p : p \in HitsIn(in, fetched) <=>
               /\ p \in Seq(Nat) /\ Len(p) = n
               /\ \A k \in 1 .. n : p[k] \in DOMAIN fetched[k]
               /\ \A k \in 2 .. n : joins(p, k)
  BY DEF HitsIn, joins
<1> HIDE DEF n
<1>6. \A p : p \in Hits(n) <=> p \in HitsIn(in, fetched) BY <1>3, <1>4, <1>5
<1>7. QED BY <1>6 DEF n

(* A joined row comes out as its pick shows.                               *)
LEMMA OutputShows ==
  ASSUME QInv, stage = "merge", NEW p \in Hits(Len(in.q.from))
  PROVE  ShowsPick(in, fetched, p, Output(RowsAt(p)))
<1> DEFINE n == Len(in.q.from)
           row == RowsAt(p)
           ids == [j \in DOMAIN row |-> row[j].id]
           vals == [k \in DOMAIN plan.cols |-> Shown(plan.cols[k], row)]
<1>1. /\ in \in Input /\ AcceptedIn(in) /\ plan = PlanIn(in) /\ n \in Nat
  BY AllFetched
<1>2. DOMAIN p = 1 .. n BY <1>1 DEF Hits, Picks
<1>3. DOMAIN row = 1 .. n /\ \A k \in 1 .. n : row[k] = fetched[k][p[k]]
  BY <1>2 DEF RowsAt
<1> HIDE DEF row
<1>4. Output(row).ids = ids /\ Output(row).vals = vals
  <2>1. Output(row) = [ids |-> ids, vals |-> vals] BY DEF Output
  <2> HIDE DEF ids, vals
  <2>2. QED BY <2>1
<1>5. ids = IdsAt(in, fetched, p) BY <1>3 DEF IdsAt
<1>6. ASSUME NEW k \in DOMAIN in.q.select
      PROVE  LET s == SideOf(in.q, in.q.select[k].alias)
             IN vals[k].of = Val(fetched[s][p[s]], in.q.select[k].col)
  <2> DEFINE s == SideOf(in.q, in.q.select[k].alias)
             col == in.q.select[k].col
  <2>1. in.q.select[k].alias \in Aliases(in.q) BY <1>1 DEF AcceptedIn, Buildable
  <2>2. s \in 1 .. n BY <1>1, <2>1, SideOfAlias
  <2>3. DOMAIN plan.cols = DOMAIN in.q.select /\ plan.cols[k] = ColumnIn(in, k)
    BY <1>1, PlanFacts
  <2>4. vals[k] = Shown(ColumnIn(in, k), row) BY <2>3
  <2>5. ColumnIn(in, k).side = s /\ ColumnIn(in, k).col = col BY Fields
  <2> HIDE DEF s, col, vals
  <2>6. Shown(ColumnIn(in, k), row).of = Val(row[s], col) BY <2>5 DEF Shown
  <2>7. vals[k].of = Val(fetched[s][p[s]], col) BY <1>3, <2>2, <2>4, <2>6
  <2>8. QED BY <2>7 DEF s, col
<1> HIDE DEF ids, vals
<1>7. ShowsPick(in, fetched, p, Output(row)) BY <1>4, <1>5, <1>6 DEF ShowsPick
<1>8. QED BY <1>7 DEF row

LEMMA MergedShows ==
  ASSUME QInv, stage = "merge", NEW X, NEW rows \in Seq(X), NEW b,
         Lists(b, rows, Hits(Len(in.q.from)))
  PROVE  ShowsHits(in, fetched, [k \in DOMAIN rows |-> Output(rows[k])])
<1> DEFINE H == Hits(Len(in.q.from))
           os == [k \in DOMAIN rows |-> Output(rows[k])]
<1>1. b \in Bijection(DOMAIN rows, H) /\ \A m \in DOMAIN rows : rows[m] = RowsAt(b[m])
  BY DEF Lists
<1>2. \A m \in DOMAIN rows : b[m] \in H BY <1>1, Fun_BijectionProperties
<1>3. DOMAIN os = DOMAIN rows /\ \A m \in DOMAIN rows : os[m] = Output(rows[m])
  OBVIOUS
<1>4. IsSequence(os)
  <2>1. DOMAIN rows = 1 .. Len(rows) /\ Len(rows) \in Nat OBVIOUS
  <2>2. os = [k \in 1 .. Len(rows) |-> os[k]] /\ DOMAIN os = 1 .. Len(rows)
    BY <2>1
  <2> HIDE DEF os
  <2>3. QED BY <2>1, <2>2, IsSeqFunction
<1> HIDE DEF os
<1>5. \A m \in DOMAIN os : ShowsPick(in, fetched, b[m], os[m])
  <2> SUFFICES ASSUME NEW m \in DOMAIN os PROVE ShowsPick(in, fetched, b[m], os[m])
    OBVIOUS
  <2>1. os[m] = Output(RowsAt(b[m])) BY <1>1, <1>3
  <2>2. b[m] \in H BY <1>2, <1>3
  <2>3. QED BY <2>1, <2>2, OutputShows
<1>6. b \in Bijection(DOMAIN os, HitsIn(in, fetched))
  BY <1>1, <1>3, HitsAtMerge
<1>7. ShowsHits(in, fetched, os) BY <1>4, <1>5, <1>6 DEF ShowsHits
<1>8. QED BY <1>7 DEF os

LEMMA SidesAtMerge ==
  ASSUME QInv, XInv, stage = "merge", Obedient
  PROVE  ExactSides(in, fetched)
<1> DEFINE n == Len(in.q.from)
<1>1. /\ n \in Nat \ {0} /\ fetched # <<>>
      /\ \A k \in 1 .. n : fetched[k] \in Seq(ClearedIn(in, k))
  <2>1. n \in Nat \ {0} /\ Len(fetched) = n BY AllFetched
  <2>2. fetched # <<>> BY <2>1
  <2>3. QED BY <2>1, <2>2, AllFetched
<1>2. side = n /\ chunks = <<>> BY <1>1 DEF QInv, Busy, XInv
<1>3. ExactlyIn(in, fetched, n, <<>>, got) BY <1>2 DEF XInv, SidesExact
<1>4. \A a \in 1 .. n - 1 : Comes(fetched[a], Asked(in, fetched, a), FieldsIn(in, a))
  BY <1>3 DEF ExactlyIn
<1>5. Comes(fetched[n], Asked(in, fetched, n), FieldsIn(in, n))
  <2>1. \A d : ~Waiting(<<>>, d) BY NoneIsSeq DEF Waiting
  <2>2. {d \in Asked(in, fetched, n) : ~Waiting(<<>>, d)} = Asked(in, fetched, n)
    BY <2>1
  <2>3. Comes(fetched[n], {d \in Asked(in, fetched, n) : ~Waiting(<<>>, d)},
              FieldsIn(in, n))
    BY <1>3 DEF ExactlyIn
  <2>4. QED BY <2>2, <2>3
<1>6. ASSUME NEW k \in 1 .. n
      PROVE  Comes(fetched[k], Asked(in, fetched, k), FieldsIn(in, k))
  <2> HIDE DEF n
  <2>1. CASE k = n BY <1>5, <2>1
  <2>2. CASE k # n
    <3>1. k \in 1 .. n - 1 BY <1>1, <2>2
    <3>2. QED BY <1>4, <3>1
  <2>3. QED BY <2>1, <2>2
<1>7. QED BY <1>1, <1>6 DEF ExactSides

LEMMA MergeExact ==
  ASSUME QInv, XInv, Merge
  PROVE  XInv'
<1> DEFINE X == Partial(in, Len(in.q.from))
           H == Hits(Len(in.q.from))
<1>1. /\ stage = "merge" /\ stage' = "done"
      /\ UNCHANGED <<in, plan, side, chunks, got, fetched, calls>>
  BY DEF Merge
<1>2. PICK merged \in {GoJoin, DuckJoin} :
        out' = IF merged.err # NoError
               THEN [err |-> merged.err, rows |-> <<>>]
               ELSE IF merged.rows # <<>> /\ MaskUnsupported
               THEN [err |-> "mask", rows |-> <<>>]
               ELSE [err |-> NoError,
                     rows |-> [k \in DOMAIN merged.rows |-> Output(merged.rows[k])]]
  BY DEF Merge
<1>3. /\ merged.err = NoError /\ merged.rows \in Seq(X)
      /\ \E b : Lists(b, merged.rows, H)
  BY <1>1, GoJoinTyped, GoJoinLists, DuckJoinTyped, DuckJoinLists
<1>4. CASE merged.rows # <<>> /\ MaskUnsupported
  <2>1. out' = [err |-> "mask", rows |-> <<>>] BY <1>2, <1>3, <1>4
  <2>2. "mask" \in Error BY DEF Error
  <2>3. QED BY <1>1, <2>1, <2>2, FailedHolds
<1>5. CASE ~(merged.rows # <<>> /\ MaskUnsupported)
  <2> DEFINE os == [k \in DOMAIN merged.rows |-> Output(merged.rows[k])]
  <2>1. PICK b : Lists(b, merged.rows, H) BY <1>3
  <2>2. ShowsHits(in, fetched, os) BY <1>1, <1>3, <2>1, MergedShows
  <2>3. out' = [err |-> NoError, rows |-> os] BY <1>2, <1>3, <1>5
  <2> HIDE DEF os
  <2>4. out'.rows = os BY <2>3, Zenon
  <2>5. AcceptedIn(in) BY <1>1, AllFetched
  <2>6. Obedient' => ExactSides(in, fetched)
    <3>1. Obedient' => Obedient BY <1>1 DEF Obedient
    <3>2. QED BY <1>1, <3>1, SidesAtMerge
  <2>7. Obedient' => AcceptedIn(in') /\ ExactSides(in', fetched')
                     /\ ShowsHits(in', fetched', out'.rows)
    BY <1>1, <2>2, <2>4, <2>5, <2>6
  <2>8. AnswerExact' BY <2>7 DEF AnswerExact
  <2>9. QED BY <1>1, <2>8 DEF XInv, SidesExact
<1>6. QED BY <1>4, <1>5

LEMMA SourceRefusesExact ==
  ASSUME QInv, SourceRefuses
  PROVE  XInv'
<1>1. PICK answer \in Responses :
        /\ answer.status # "ok"
        /\ Refused(IF /\ answer.status = "column"
                      /\ SecurityNeeds(Filters, answer.field)
                   THEN "denied" ELSE answer.status)
  BY DEF SourceRefuses
<1>2. fetched # <<>> BY DEF QInv, Idle, SourceRefuses, Pending
<1>3. answer.status \in {"rateLimited", "column", "tooLarge"}
  BY <1>1, <1>2, ResponsesTyped
<1>4. "denied" \in Error /\ answer.status \in Error BY <1>3 DEF Error
<1>5. CASE answer.status = "column" /\ SecurityNeeds(Filters, answer.field)
  BY <1>1, <1>4, <1>5, RefusedExact
<1>6. CASE ~(answer.status = "column" /\ SecurityNeeds(Filters, answer.field))
  BY <1>1, <1>4, <1>6, RefusedExact
<1>7. QED BY <1>5, <1>6

LEMMA SameExact ==
  ASSUME XInv, UNCHANGED vars
  PROVE  XInv'
<1>1. UNCHANGED <<in, stage, side, chunks, got, fetched, out>> BY DEF vars
<1>2. Obedient' <=> Obedient BY <1>1 DEF Obedient
<1>3. AnswerExact' BY <1>1, <1>2 DEF XInv, AnswerExact
<1>4. /\ Obedient' /\ stage' \in {"fetch", "merge"} =>
           ExactlyIn(in', fetched', side', chunks', got')
      /\ stage' = "merge" => chunks' = <<>>
  BY <1>1, <1>2 DEF XInv, SidesExact
<1>5. QED BY <1>3, <1>4 DEF XInv, SidesExact

LEMMA XInvHolds ==
  ASSUME ConjunctsReachSources
  PROVE  Spec => []XInv
<1>1. Init => XInv BY DEF Init, XInv, SidesExact, AnswerExact
<1>2. QInv /\ XInv /\ [Next]_vars => XInv'
  <2> SUFFICES ASSUME QInv, XInv, [Next]_vars PROVE XInv' OBVIOUS
  <2>1. CASE TurnedAway
    <3>1. "denied" \in Error /\ "unauthenticated" \in Error BY DEF Error
    <3>2. QED BY <2>1, <3>1, FailExact DEF TurnedAway
  <2>2. CASE Refuse
    <3>1. "denied" \in Error /\ "plan" \in Error BY DEF Error
    <3>2. QED BY <2>2, <3>1, FailExact DEF Refuse
  <2>3. CASE CannotResolve
    <3>1. "denied" \in Error BY DEF Error
    <3>2. QED BY <2>3, <3>1, FailExact DEF CannotResolve
  <2>4. CASE SourceFails
    <3>1. \A e \in SourceErrors : e \in Error BY DEF Error
    <3>2. QED BY <2>4, <3>1, RefusedExact DEF SourceFails
  <2>5. CASE SourceRefuses BY <2>5, SourceRefusesExact
  <2>6. QED
    BY <2>1, <2>2, <2>3, <2>4, <2>5, AdmitExact, MorePagesExact,
       SourceAnswersExact, NextSideExact, FetchedExact, MergeExact, SameExact
    DEF Next, Done
<1>3. QED BY <1>1, <1>2, QInvHolds, PTL DEF Spec

(* When every conjunct reaches its source as it is (see the hypothesis),   *)
(* what a query has fetched is exact at every step (SidesExact), whatever  *)
(* the operators of the residuals: a residual that is compared as an       *)
(* equality is one for both the fetch and what this asks of it.            *)
THEOREM SidesAreExact ==
  ASSUME ConjunctsReachSources
  PROVE  Spec => []SidesExact
<1>1. XInv => SidesExact BY DEF XInv
<1>2. QED BY <1>1, XInvHolds, PTL

(* When every residual compares for equality and every conjunct reaches    *)
(* its source as it is (see the hypotheses), a query that succeeds over    *)
(* connectors that obey what they declare returns what it means: every     *)
(* tuple of rows once, whatever the pages, the chunks, the sites of the    *)
(* filters and the engine, with every cell from the side it was selected   *)
(* from.                                                                   *)
THEOREM AnswersAreExact ==
  ASSUME EqualityResiduals, ConjunctsReachSources
  PROVE  Spec => []ExactResult
<1>1. QInv /\ XInv => ExactResult BY ExactAnswer DEF XInv
<1>2. QED BY <1>1, QInvHolds, XInvHolds, PTL
==============================================================================
