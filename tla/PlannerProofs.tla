---------------------------- MODULE PlannerProofs ----------------------------
(***************************************************************************)
(* What Selection, Identity and Planner compute, for all their arguments:  *)
(* the elements that a selection keeps, the role that decides, and that    *)
(* the plan of a query depends on its shape alone.                         *)
(***************************************************************************)
EXTENDS Planner, Identity, FiniteSetTheorems, WellFoundedInduction, TLAPS

----------------------------------------------------------------------------
(* Least and greatest places, and the n-th of some places.                 *)

IsFirst(places, k) == k \in places /\ \A j \in places : ~(j < k)
IsLast(places, k) == k \in places /\ \A j \in places : j <= k

LEMMA HasFirst ==
  ASSUME NEW places \in SUBSET Nat, places # {}
  PROVE  \E k \in Nat : IsFirst(places, k)
<1>1. PICK k \in places : \A j \in places : <<j, k>> \notin OpToRel(<, Nat)
  BY NatLessThanWellFounded, WFMin
<1>2. \A j \in places : ~(j < k) BY <1>1 DEF OpToRel
<1>3. QED BY <1>2 DEF IsFirst

(* The greatest is n less the least of the distances to n. *)
LEMMA HasLast ==
  ASSUME NEW n \in Nat, NEW places \in SUBSET (1 .. n), places # {}
  PROVE  /\ \E k \in Nat : IsLast(places, k)
         /\ IsLast(places, Latest(places))
<1> DEFINE far == {n - k : k \in places}
<1>1. far \in SUBSET Nat /\ far # {}
  <2>1. \A k \in places : n - k \in Nat OBVIOUS
  <2>2. far \in SUBSET Nat BY <2>1
  <2>3. PICK k \in places : TRUE OBVIOUS
  <2>4. n - k \in far OBVIOUS
  <2>5. QED BY <2>2, <2>4
<1>2. PICK d \in Nat : IsFirst(far, d)
  <2> HIDE DEF far
  <2>1. QED BY <1>1, HasFirst
<1>3. PICK k \in places : d = n - k BY <1>2 DEF IsFirst
<1>4. \A j \in places : j <= k
  <2> SUFFICES ASSUME NEW j \in places PROVE j <= k OBVIOUS
  <2>1. n - j \in far OBVIOUS
  <2>2. ~(n - j < d) BY <1>2, <2>1 DEF IsFirst
  <2>3. QED BY <1>3, <2>2
<1>5. IsLast(places, k) BY <1>4 DEF IsLast
<1>6. IsLast(places, Latest(places)) BY <1>4 DEF Latest, IsLast
<1>7. QED BY <1>5, <1>6

UpTo(places, k) == {j \in places : j <= k}

LEMMA InUpTo ==
  ASSUME NEW places, NEW k, NEW i
  PROVE  i \in UpTo(places, k) <=> i \in places /\ i <= k
BY DEF UpTo

LEMMA Bounded ==
  ASSUME NEW m \in Nat, NEW places \in SUBSET (1 .. m)
  PROVE  /\ places \in SUBSET Nat /\ IsFiniteSet(places)
         /\ Cardinality(places) \in Nat
<1>1. IsFiniteSet(1 .. m) BY FS_Interval
<1>2. IsFiniteSet(places) BY <1>1, FS_Subset
<1>3. \A k \in places : k \in Nat OBVIOUS
<1>4. QED BY <1>2, <1>3, FS_CardinalityType

LEMMA UpToGrows ==
  ASSUME NEW places \in SUBSET Nat, IsFiniteSet(places)
  PROVE  /\ Cardinality(places) \in Nat
         /\ \A k \in places :
              /\ IsFiniteSet(UpTo(places, k))
              /\ Cardinality(UpTo(places, k)) \in 1 .. Cardinality(places)
         /\ \A j, k \in places :
              j < k => Cardinality(UpTo(places, j)) < Cardinality(UpTo(places, k))
<1>1. Cardinality(places) \in Nat BY FS_CardinalityType
<1>2. ASSUME NEW k \in places
      PROVE  /\ IsFiniteSet(UpTo(places, k))
             /\ Cardinality(UpTo(places, k)) \in 1 .. Cardinality(places)
  <2>1. UpTo(places, k) \in SUBSET places /\ k \in UpTo(places, k) BY DEF UpTo
  <2>2. /\ IsFiniteSet(UpTo(places, k))
        /\ Cardinality(UpTo(places, k)) <= Cardinality(places)
    BY <2>1, FS_Subset
  <2>3. /\ Cardinality(UpTo(places, k)) \in Nat
        /\ Cardinality(UpTo(places, k)) # 0
    BY <2>1, <2>2, FS_CardinalityType, FS_EmptySet
  <2>4. QED BY <1>1, <2>2, <2>3
<1>3. ASSUME NEW j \in places, NEW k \in places, j < k
      PROVE  Cardinality(UpTo(places, j)) < Cardinality(UpTo(places, k))
  <2>1. /\ UpTo(places, j) \in SUBSET UpTo(places, k)
        /\ k \in UpTo(places, k) /\ k \notin UpTo(places, j)
    <3>1. j \in Nat /\ k \in Nat OBVIOUS
    <3>2. \A i \in places : i <= j => i <= k BY <1>3, <3>1
    <3>3. \A i \in UpTo(places, j) : i \in UpTo(places, k) BY <3>2, InUpTo
    <3>4. k <= k /\ ~(k <= j) BY <1>3, <3>1
    <3>5. k \in UpTo(places, k) /\ k \notin UpTo(places, j) BY <3>4, InUpTo
    <3>6. QED BY <3>3, <3>5
  <2>2. UpTo(places, j) # UpTo(places, k) BY <2>1
  <2>3. /\ Cardinality(UpTo(places, j)) <= Cardinality(UpTo(places, k))
        /\ Cardinality(UpTo(places, j)) # Cardinality(UpTo(places, k))
    BY <1>2, <2>1, <2>2, FS_Subset
  <2>4. Cardinality(UpTo(places, j)) \in Int /\ Cardinality(UpTo(places, k)) \in Int
    BY <1>1, <1>2
  <2>5. QED BY <2>3, <2>4
<1>4. QED BY <1>1, <1>2, <1>3

(* Every place has its number: of those with at least n up to them the     *)
(* least has exactly n, or the one before it would have as many.           *)
LEMMA NthExists ==
  ASSUME NEW m \in Nat, NEW places \in SUBSET (1 .. m),
         NEW n \in 1 .. Cardinality(places)
  PROVE  /\ Nth(places, n) \in places
         /\ Cardinality(UpTo(places, Nth(places, n))) = n
<1> DEFINE enough == {k \in places : n <= Cardinality(UpTo(places, k))}
<1>1. places \in SUBSET Nat /\ IsFiniteSet(places) BY Bounded
<1>2. /\ Cardinality(places) \in Nat
      /\ \A k \in places :
           /\ IsFiniteSet(UpTo(places, k))
           /\ Cardinality(UpTo(places, k)) \in 1 .. Cardinality(places)
  BY <1>1, UpToGrows
<1>3. enough # {}
  <2>1. places # {} BY <1>2, FS_EmptySet
  <2>2. PICK k \in Nat : IsLast(places, k) BY <2>1, HasLast
  <2>3. UpTo(places, k) = places BY <2>2 DEF IsLast, UpTo
  <2>4. k \in enough BY <1>2, <2>2, <2>3 DEF IsLast
  <2>5. QED BY <2>4
<1>4. PICK k \in Nat : IsFirst(enough, k)
  <2>1. enough \in SUBSET Nat BY <1>1
  <2> HIDE DEF enough
  <2>2. QED BY <1>3, <2>1, HasFirst
<1>5. k \in places /\ n <= Cardinality(UpTo(places, k)) BY <1>4 DEF IsFirst
<1>6. Cardinality(UpTo(places, k)) = n
  <2> DEFINE before == UpTo(places, k) \ {k}
  <2>1. k \in UpTo(places, k) /\ before \in SUBSET (1 .. m)
        /\ \A i : i \in before <=> i \in places /\ i <= k /\ i # k
    <3>1. \A i : i \in before <=> i \in places /\ i <= k /\ i # k BY InUpTo
    <3>2. k \in UpTo(places, k) BY <1>5, InUpTo
    <3> HIDE DEF before
    <3>3. QED BY <3>1, <3>2
  <2> HIDE DEF before
  <2>2. Cardinality(before) = Cardinality(UpTo(places, k)) - 1
        /\ IsFiniteSet(before)
    BY <1>2, <1>5, <2>1, FS_RemoveElement DEF before
  <2>3. CASE before = {}
    <3>1. Cardinality(before) = 0 BY <2>3, FS_EmptySet
    <3>2. QED BY <1>2, <1>5, <2>2, <3>1
  <2>4. CASE before # {}
    <3>1. PICK j \in Nat : IsLast(before, j) BY <2>1, <2>4, HasLast
    <3>2. j \in places /\ j < k BY <1>1, <1>5, <2>1, <3>1 DEF IsLast
    <3>3. UpTo(places, j) = before
      <4>1. ASSUME NEW i \in places PROVE i <= j <=> i <= k /\ i # k
        <5>1. i \in Nat BY <1>1
        <5>2. i <= k /\ i # k => i <= j BY <2>1, <3>1 DEF IsLast
        <5>3. QED BY <3>2, <5>1, <5>2
      <4>2. QED BY <2>1, <4>1 DEF UpTo
    <3>4. ~(n <= Cardinality(before))
      <4>1. j \notin enough BY <1>4, <3>2 DEF IsFirst
      <4>2. QED BY <3>2, <3>3, <4>1
    <3>5. QED BY <1>2, <1>5, <2>2, <3>4
  <2>5. QED BY <2>3, <2>4
<1>7. QED BY <1>5, <1>6 DEF Nth, UpTo

LEMMA NthInverse ==
  ASSUME NEW m \in Nat, NEW places \in SUBSET (1 .. m), NEW k \in places
  PROVE  LET n == Cardinality(UpTo(places, k))
         IN n \in 1 .. Cardinality(places) /\ Nth(places, n) = k
<1> DEFINE n == Cardinality(UpTo(places, k))
<1>1. places \in SUBSET Nat /\ IsFiniteSet(places) BY Bounded
<1>2. n \in 1 .. Cardinality(places) BY <1>1, UpToGrows
<1>3. Nth(places, n) \in places /\ Cardinality(UpTo(places, Nth(places, n))) = n
  <2> HIDE DEF n
  <2>1. QED BY <1>2, NthExists
<1>4. ~(Nth(places, n) < k) /\ ~(k < Nth(places, n))
  <2> HIDE DEF n
  <2>1. n \in Int BY <1>2
  <2>2. Cardinality(UpTo(places, k)) = n BY DEF n
  <2>3. \A i, j \in places :
          i < j => Cardinality(UpTo(places, i)) < Cardinality(UpTo(places, j))
    BY <1>1, UpToGrows
  <2>4. ~(n < n) BY <2>1
  <2>5. QED BY <1>3, <2>2, <2>3, <2>4
<1>5. Nth(places, n) = k
  <2> HIDE DEF n
  <2>1. Nth(places, n) \in Nat /\ k \in Nat
    <3>1. \A i \in places : i \in Nat BY <1>1
    <3>2. QED BY <1>3, <3>1
  <2>2. QED BY <1>4, <2>1
<1>6. QED BY <1>2, <1>5

(* A selection has the elements at its places, and no others. *)
LEMMA ChosenElements ==
  ASSUME NEW X, NEW s \in Seq(X), NEW places \in SUBSET DOMAIN s
  PROVE  /\ Chosen(s, places) \in Seq(X)
         /\ \A n \in DOMAIN Chosen(s, places) :
              \E k \in places : Chosen(s, places)[n] = s[k]
         /\ \A k \in places : \E n \in DOMAIN Chosen(s, places) :
              Chosen(s, places)[n] = s[k]
<1>1. Len(s) \in Nat /\ places \in SUBSET (1 .. Len(s)) OBVIOUS
<1>2. Cardinality(places) \in Nat BY <1>1, Bounded
<1>3. \A n \in 1 .. Cardinality(places) : Nth(places, n) \in places
  BY <1>1, NthExists
<1>4. \A k \in places : \E n \in 1 .. Cardinality(places) : Nth(places, n) = k
  BY <1>1, NthInverse
<1>5. \A k \in places : s[k] \in X BY <1>1
<1>6. QED BY <1>2, <1>3, <1>4, <1>5 DEF Chosen

----------------------------------------------------------------------------
(* The first role.                                                         *)

(* The first of the roles is that of the first group that is known. *)
LEMMA FirstRole ==
  ASSUME NEW registration, NEW groups, groups \in Seq(STRING),
         RolesOf(registration, groups) # <<>>
  PROVE  \E k \in DOMAIN groups :
           /\ groups[k] \in DOMAIN registration.roles
           /\ RolesOf(registration, groups)[1] = registration.roles[groups[k]]
           /\ \A j \in 1 .. k - 1 : groups[j] \notin DOMAIN registration.roles
<1> DEFINE role(k) == registration.roles[groups[k]]
           known == {k \in DOMAIN groups : groups[k] \in DOMAIN registration.roles}
           first == {k \in known : \A j \in known : j < k => role(j) # role(k)}
<1>1. DOMAIN groups = 1 .. Len(groups) /\ Len(groups) \in Nat OBVIOUS
<1>2. known \in SUBSET (1 .. Len(groups)) /\ known \in SUBSET Nat BY <1>1
<1>3. first \subseteq known
  <2> HIDE DEF known, role
  <2>1. QED OBVIOUS
<1>4. RolesOf(registration, groups) =
        [n \in 1 .. Cardinality(first) |-> role(Nth(first, n))]
  BY Zenon DEF RolesOf
<1> HIDE DEF first
<1>5. first # {}
  <2> SUFFICES ASSUME first = {} PROVE FALSE OBVIOUS
  <2> HIDE DEF role
  <2>1. Cardinality(first) = 0 BY FS_EmptySet
  <2>2. 1 .. Cardinality(first) = {} BY <2>1
  <2>3. QED BY <1>4, <2>2
<1>6. PICK m \in Nat : IsFirst(known, m)
  <2>1. known # {} BY <1>3, <1>5
  <2> HIDE DEF known
  <2>2. QED BY <1>2, <2>1, HasFirst
<1>7. m \in first
  <2> HIDE DEF known
  <2>1. QED BY <1>6 DEF IsFirst, first
<1>8. Nth(first, 1) = m
  <2>1. \A j \in first : ~(j < m)
    <3> HIDE DEF known
    <3>1. QED BY <1>3, <1>6 DEF IsFirst
  <2>2. first \in SUBSET (1 .. Len(groups))
    <3> HIDE DEF known
    <3>1. QED BY <1>2, <1>3
  <2>3. UpTo(first, m) = {m}
    <3>1. \A j \in first : j <= m <=> j = m BY <2>1, <2>2
    <3>2. QED BY <1>7, <3>1 DEF UpTo
  <2>4. Cardinality(UpTo(first, m)) = 1 BY <2>3, FS_Singleton
  <2>5. QED BY <1>1, <1>7, <2>2, <2>4, NthInverse
<1>9. RolesOf(registration, groups)[1] = role(m)
  <2>1. IsFiniteSet(first)
    <3> HIDE DEF known
    <3>1. first \in SUBSET (1 .. Len(groups)) BY <1>2, <1>3
    <3>2. QED BY <1>1, <3>1, Bounded
  <2>2. Cardinality(first) \in Nat /\ Cardinality(first) # 0
    BY <1>5, <2>1, FS_CardinalityType, FS_EmptySet
  <2> HIDE DEF role
  <2>3. QED BY <1>4, <1>8, <2>2
<1>10. ASSUME NEW j \in 1 .. m - 1
       PROVE  groups[j] \notin DOMAIN registration.roles
  <2>1. m \in 1 .. Len(groups) BY <1>1, <1>6 DEF IsFirst
  <2>2. j \in DOMAIN groups /\ j < m BY <1>1, <2>1
  <2>3. j \notin known BY <1>6, <2>2 DEF IsFirst
  <2>4. QED BY <2>2, <2>3
<1>11. QED BY <1>6, <1>9, <1>10 DEF IsFirst

----------------------------------------------------------------------------
(* Queries of one shape.                                                   *)

(* What two queries of one shape share. *)
Alike(p, q) ==
  /\ IsStatement(p) /\ IsStatement(q)
  /\ Shape(p) = Shape(q)

LEMMA JoinShape ==
  ASSUME NEW q, IsJoin(q)
  PROVE  /\ Shape(q).from = q.from /\ Shape(q).on = q.on
         /\ Shape(q).select = q.select /\ Shape(q).where = Unliteral(q)
BY DEF Shape

LEMMA TableShape ==
  ASSUME NEW q, ~IsJoin(q)
  PROVE  /\ Shape(q).from = <<TableAt(q, 1)>>
         /\ Shape(q).select = [k \in DOMAIN q.select |-> q.select[k].col]
         /\ Shape(q).where = Unliteral(q)
BY DEF Shape

LEMMA OneTable ==
  ASSUME NEW q, IsStatement(q), ~IsJoin(q)
  PROVE  Len(q.from) = 1 /\ SidesOf(q) = {1}
<1>1. Len(q.from) \in Nat /\ Len(q.from) # 0 /\ SidesOf(q) = 1 .. Len(q.from)
  BY DEF IsStatement
<1>2. ~(Len(q.from) > 1) BY DEF IsJoin
<1> DEFINE n == Len(q.from)
<1>3. n = 1
  <2>1. n \in Nat /\ n # 0 /\ ~(n > 1) BY <1>1, <1>2
  <2> HIDE DEF n
  <2>2. QED BY <2>1
<1>4. QED BY <1>1, <1>3

LEMMA JoinUnlikeTable ==
  ASSUME NEW p, NEW q, IsJoin(p), ~IsJoin(q)
  PROVE  Shape(p) # Shape(q)
<1> SUFFICES ASSUME Shape(p) = Shape(q) PROVE FALSE OBVIOUS
<1>1. p.from = <<TableAt(q, 1)>> BY JoinShape, TableShape
<1>2. Len(p.from) = 1 BY <1>1
<1>3. QED BY <1>2 DEF IsJoin

LEMMA AlikeSides ==
  ASSUME NEW p, NEW q, Alike(p, q)
  PROVE  /\ IsJoin(p) <=> IsJoin(q)
         /\ Len(p.from) = Len(q.from) /\ SidesOf(p) = SidesOf(q)
         /\ 1 \in SidesOf(p) /\ SidesOf(p) = 1 .. Len(p.from)
         /\ \A i \in SidesOf(p) : TableAt(p, i) = TableAt(q, i)
         /\ ParseTables(p) = ParseTables(q)
         /\ IsJoin(p) => p.from = q.from /\ p.on = q.on /\ p.select = q.select
         /\ ~IsJoin(p) => /\ Len(p.from) = 1 /\ SidesOf(p) = {1}
                          /\ DOMAIN p.select = DOMAIN q.select
                          /\ \A k \in DOMAIN p.select :
                               p.select[k].col = q.select[k].col
<1>1. /\ Len(p.from) \in Nat \ {0} /\ SidesOf(p) = 1 .. Len(p.from)
      /\ Len(q.from) \in Nat \ {0} /\ SidesOf(q) = 1 .. Len(q.from)
  BY DEF Alike, IsStatement
<1>2. IsJoin(p) <=> IsJoin(q) BY JoinUnlikeTable DEF Alike
<1>3. CASE IsJoin(p)
  <2>1. p.from = q.from /\ p.on = q.on /\ p.select = q.select
    BY <1>2, <1>3, JoinShape DEF Alike
  <2>2. QED BY <1>1, <1>2, <1>3, <2>1 DEF TableAt, ParseTables, SidesOf
<1>4. CASE ~IsJoin(p)
  <2>1. /\ <<TableAt(p, 1)>> = <<TableAt(q, 1)>>
        /\ [k \in DOMAIN p.select |-> p.select[k].col] =
           [k \in DOMAIN q.select |-> q.select[k].col]
    <3>1. Shape(p) = Shape(q) /\ ~IsJoin(q) BY <1>2, <1>4 DEF Alike
    <3>2. /\ Shape(p).from = <<TableAt(p, 1)>>
          /\ Shape(p).select = [k \in DOMAIN p.select |-> p.select[k].col]
      BY <1>4, TableShape
    <3>3. /\ Shape(q).from = <<TableAt(q, 1)>>
          /\ Shape(q).select = [k \in DOMAIN q.select |-> q.select[k].col]
      BY <3>1, TableShape
    <3>4. QED BY <3>1, <3>2, <3>3
  <2>2. TableAt(p, 1) = TableAt(q, 1) BY <2>1
  <2>3. DOMAIN p.select = DOMAIN q.select
        /\ \A k \in DOMAIN p.select : p.select[k].col = q.select[k].col
    BY <2>1
  <2>4. /\ Len(p.from) = 1 /\ Len(q.from) = 1
        /\ SidesOf(p) = {1} /\ SidesOf(q) = {1}
    BY <1>2, <1>4, OneTable DEF Alike
  <2>5. QED BY <1>2, <1>4, <2>2, <2>3, <2>4 DEF ParseTables
<1>5. QED BY <1>3, <1>4

(* The conjuncts of the two are the same, but for their literals. *)
LEMMA AlikeConjuncts ==
  ASSUME NEW p, NEW q, Alike(p, q)
  PROVE  Conjuncts(p) = Conjuncts(q)
<1>1. IsJoin(p) <=> IsJoin(q) BY AlikeSides
<1>2. Unliteral(p) = Unliteral(q) BY <1>1, JoinShape, TableShape DEF Alike
<1>3. DOMAIN p.where = DOMAIN q.where BY <1>2 DEF Unliteral
<1>4. ASSUME NEW j \in DOMAIN p.where
      PROVE  /\ (IF IsJoin(p) THEN p.where[j].alias ELSE "") =
                (IF IsJoin(q) THEN q.where[j].alias ELSE "")
             /\ p.where[j].col = q.where[j].col
             /\ p.where[j].op = q.where[j].op
  <2>1. Unliteral(p)[j] = Unliteral(q)[j] BY <1>2
  <2>2. QED BY <1>3, <2>1 DEF Unliteral
<1>5. \A j : ParamOf(p, j) = ParamOf(q, j) BY DEF ParamOf
<1>6. QED BY <1>3, <1>4, <1>5 DEF Conjuncts

(* Aliases name the same sides. *)
LEMMA AlikeAliases ==
  ASSUME NEW p, NEW q, Alike(p, q)
  PROVE  /\ \A k \in DOMAIN p.select :
              /\ SideOf(p, p.select[k].alias) = SideOf(q, q.select[k].alias)
              /\ p.select[k].alias \in Aliases(p) <=>
                   q.select[k].alias \in Aliases(q)
         /\ \A i \in SidesOf(p) : Selected(p, i) = Selected(q, i)
         /\ (\A j \in DOMAIN p.where : p.where[j].alias \in Aliases(p)) <=>
              (\A j \in DOMAIN q.where : q.where[j].alias \in Aliases(q))
<1>1. CASE IsJoin(p)
  <2>1. p.from = q.from /\ p.select = q.select /\ IsJoin(q)
    BY <1>1, AlikeSides
  <2>2. Aliases(p) = Aliases(q) /\ \A x : SideOf(p, x) = SideOf(q, x)
    BY <2>1 DEF Aliases, SideOf, SidesOf
  <2>3. DOMAIN p.where = DOMAIN q.where
        /\ \A j \in DOMAIN p.where : p.where[j].alias = q.where[j].alias
    <3>1. Unliteral(p) = Unliteral(q) BY <1>1, <2>1, JoinShape DEF Alike
    <3>2. DOMAIN p.where = DOMAIN q.where BY <3>1 DEF Unliteral
    <3>3. ASSUME NEW j \in DOMAIN p.where
          PROVE  p.where[j].alias = q.where[j].alias
      <4>1. Unliteral(p)[j] = Unliteral(q)[j] BY <3>1
      <4>2. QED BY <1>1, <2>1, <3>2, <4>1 DEF Unliteral
    <3>4. QED BY <3>2, <3>3
  <2>4. QED BY <2>1, <2>2, <2>3 DEF Selected
<1>2. CASE ~IsJoin(p)
  <2>1. /\ ~IsJoin(q) /\ SidesOf(p) = {1} /\ SidesOf(q) = {1}
        /\ DOMAIN p.select = DOMAIN q.select
        /\ \A k \in DOMAIN p.select : p.select[k].col = q.select[k].col
    BY <1>2, AlikeSides
  <2>2. ASSUME NEW x, SidesOf(x) = {1}, ~IsJoin(x), IsStatement(x)
        PROVE  /\ Aliases(x) = {x.from[1].alias}
               /\ SideOf(x, x.from[1].alias) = 1
               /\ \A k \in DOMAIN x.select : x.select[k].alias = x.from[1].alias
               /\ \A j \in DOMAIN x.where : x.where[j].alias = x.from[1].alias
    <3>1. Aliases(x) = {x.from[1].alias} BY <2>2 DEF Aliases
    <3>2. SideOf(x, x.from[1].alias) = 1 BY <2>2 DEF SideOf
    <3>3. QED BY <2>2, <3>1, <3>2 DEF IsStatement
  <2>3. Selected(p, 1) = Selected(q, 1)
    BY <1>2, <2>1, <2>2 DEF Selected, Alike
  <2>4. IsStatement(p) /\ IsStatement(q) BY DEF Alike
  <2>5. QED BY <1>2, <2>1, <2>2, <2>3, <2>4
<1>3. QED BY <1>1, <1>2

(* Catalogs that agree on the tables of the query. *)
AgreeOn(c, d, tables) ==
  \A t \in tables :
    /\ t \in DOMAIN c /\ t \in DOMAIN d
    /\ c[t].caps = d[t].caps /\ c[t].masking = d[t].masking
    /\ c[t].inList = d[t].inList /\ c[t].maxInList = d[t].maxInList

LEMMA AlikeFilters ==
  ASSUME NEW p, NEW q, NEW c, NEW d, NEW doc, Alike(p, q),
         AgreeOn(c, d, ParseTables(p)), NEW i \in SidesOf(p)
  PROVE  /\ SecurityFilters(p, c, doc, i) = SecurityFilters(q, d, doc, i)
         /\ FiltersOf(p, c, doc, i) = FiltersOf(q, d, doc, i)
         /\ MaskedIn(p, doc, i) = MaskedIn(q, doc, i)
         /\ MaskingSupported(p, c, doc, i) <=> MaskingSupported(q, d, doc, i)
<1>1. TableAt(p, i) = TableAt(q, i) /\ TableAt(p, i) \in ParseTables(p)
  BY AlikeSides DEF ParseTables
<1>2. \A col, op : SiteOf(c, TableAt(p, i), col, op) =
                   SiteOf(d, TableAt(q, i), col, op)
  BY <1>1 DEF AgreeOn, SiteOf
<1>3. SecurityFilters(p, c, doc, i) = SecurityFilters(q, d, doc, i)
  BY <1>1, <1>2 DEF SecurityFilters
<1>4. UserFilters(p, c, i) = UserFilters(q, d, i)
  <2>1. Conjuncts(p) = Conjuncts(q) BY AlikeConjuncts
  <2>2. IsJoin(p) <=> IsJoin(q) BY AlikeSides
  <2>3. IsJoin(p) => p.from = q.from BY AlikeSides
  <2>4. (IF IsJoin(p) THEN OfAlias(Conjuncts(p), p.from[i].alias) ELSE Conjuncts(p))
        = (IF IsJoin(q) THEN OfAlias(Conjuncts(q), q.from[i].alias) ELSE Conjuncts(q))
    BY <2>1, <2>2, <2>3
  <2>5. QED BY <1>2, <2>4 DEF UserFilters
<1>5. FiltersOf(p, c, doc, i) = FiltersOf(q, d, doc, i)
  BY <1>3, <1>4 DEF FiltersOf
<1>6. MaskedIn(p, doc, i) = MaskedIn(q, doc, i)
  <2>1. Selected(p, i) = Selected(q, i) BY AlikeAliases
  <2>2. IsJoin(p) <=> IsJoin(q) BY AlikeSides
  <2>3. QED BY <1>1, <2>1, <2>2 DEF MaskedIn
<1>7. MaskingSupported(p, c, doc, i) <=> MaskingSupported(q, d, doc, i)
  BY <1>1, <1>6 DEF MaskingSupported, AgreeOn
<1>8. QED BY <1>3, <1>5, <1>6, <1>7

LEMMA AlikeLinks ==
  ASSUME NEW p, NEW q, NEW c, NEW d, Alike(p, q), AgreeOn(c, d, ParseTables(p))
  PROVE  /\ \A to \in SidesOf(p) \ {1} :
              /\ LinkTo(p, c, to) = LinkTo(q, d, to)
              /\ LinkSupported(p, c, to) <=> LinkSupported(q, d, to)
         /\ \A i \in SidesOf(p) : JoinKeys(p, i) = JoinKeys(q, i)
<1>1. CASE IsJoin(p)
  <2>1. p.from = q.from /\ p.on = q.on BY <1>1, AlikeSides
  <2>2. /\ \A x : SideOf(p, x) = SideOf(q, x)
        /\ Aliases(p) = Aliases(q) /\ SidesOf(p) = SidesOf(q)
        /\ \A i : TableAt(p, i) = TableAt(q, i)
    BY <2>1 DEF SideOf, SidesOf, Aliases, TableAt
  <2>3. \A to : ProbeEnd(p, to) = ProbeEnd(q, to) /\ BuildEnd(p, to) = BuildEnd(q, to)
    BY <2>1, <2>2 DEF ProbeEnd, BuildEnd
  <2>4. ASSUME NEW to \in SidesOf(p) \ {1}
        PROVE  /\ LinkTo(p, c, to) = LinkTo(q, d, to)
               /\ LinkSupported(p, c, to) <=> LinkSupported(q, d, to)
    <3>1. TableAt(p, to) \in ParseTables(p) BY DEF ParseTables
    <3>2. LinkTo(p, c, to) = LinkTo(q, d, to)
      BY <2>2, <2>3, <3>1 DEF LinkTo, AgreeOn
    <3>3. LinkSupported(p, c, to) <=> LinkSupported(q, d, to)
      BY <2>1, <2>2, <2>3, <3>1 DEF LinkSupported, AgreeOn
    <3>4. QED BY <3>2, <3>3
  <2>5. \A i \in SidesOf(p) : JoinKeys(p, i) = JoinKeys(q, i)
    BY <2>2, <2>3 DEF JoinKeys
  <2>6. QED BY <2>4, <2>5
<1>2. CASE ~IsJoin(p)
  <2>1. SidesOf(p) = {1} /\ SidesOf(q) = {1} BY <1>2, AlikeSides
  <2>2. JoinKeys(p, 1) = {} /\ JoinKeys(q, 1) = {} BY <2>1 DEF JoinKeys
  <2>3. QED BY <2>1, <2>2
<1>3. QED BY <1>1, <1>2

(* The plan of a shape is the same whatever the literals, and so is        *)
(* whether there is one.                                                   *)
LEMMA AlikePlans ==
  ASSUME NEW p, NEW q, NEW c, NEW d, NEW doc,
         Alike(p, q), AgreeOn(c, d, ParseTables(p))
  PROVE  /\ Build(p, c, doc) = Build(q, d, doc)
         /\ Buildable(p, c, doc) <=> Buildable(q, d, doc)
<1>1. /\ SidesOf(p) = SidesOf(q) /\ Len(p.from) = Len(q.from)
      /\ SidesOf(p) = 1 .. Len(p.from) /\ Len(p.from) \in Nat
      /\ \A i \in SidesOf(p) : TableAt(p, i) = TableAt(q, i)
  BY AlikeSides DEF Alike, IsStatement
<1>2. DOMAIN p.select = DOMAIN q.select
      /\ \A k \in DOMAIN p.select : p.select[k].col = q.select[k].col
  BY AlikeSides
<1>3. \A i \in SidesOf(p) :
        /\ SecurityFilters(p, c, doc, i) = SecurityFilters(q, d, doc, i)
        /\ FiltersOf(p, c, doc, i) = FiltersOf(q, d, doc, i)
        /\ MaskedIn(p, doc, i) = MaskedIn(q, doc, i)
        /\ MaskingSupported(p, c, doc, i) <=> MaskingSupported(q, d, doc, i)
        /\ Selected(p, i) = Selected(q, i)
        /\ JoinKeys(p, i) = JoinKeys(q, i)
  BY AlikeFilters, AlikeAliases, AlikeLinks
<1>4. \A i \in SidesOf(p) : ScanProject(p, c, doc, i) = ScanProject(q, d, doc, i)
  BY <1>3 DEF ScanProject
<1> DEFINE sides(x, cat) ==
             [i \in SidesOf(x) |->
                [table |-> TableAt(x, i), filters |-> FiltersOf(x, cat, doc, i),
                 project |-> ScanProject(x, cat, doc, i)]]
           links(x, cat) == [k \in 1 .. Len(x.from) - 1 |-> LinkTo(x, cat, k + 1)]
           col(x, k) ==
             [side |-> SideOf(x, x.select[k].alias), col |-> x.select[k].col,
              mask |-> MaskFor(doc, TableAt(x, SideOf(x, x.select[k].alias)),
                               x.select[k].col)]
           cols(x) == [k \in DOMAIN x.select |-> col(x, k)]
           security(x, cat) == [i \in SidesOf(x) |-> SecurityFilters(x, cat, doc, i)]
<1>5. sides(p, c) = sides(q, d) BY <1>1, <1>3, <1>4
<1>6. links(p, c) = links(q, d)
  <2>1. \A k \in 1 .. Len(p.from) - 1 : k + 1 \in SidesOf(p) \ {1} BY <1>1
  <2>2. QED BY <1>1, <2>1, AlikeLinks
<1>7. Buildable(p, c, doc) <=> Buildable(q, d, doc)
  <2>1. (\A i, j \in SidesOf(p) : p.from[i].alias = p.from[j].alias => i = j)
        <=> (\A i, j \in SidesOf(q) : q.from[i].alias = q.from[j].alias => i = j)
    <3>1. CASE IsJoin(p) BY <1>1, <3>1, AlikeSides
    <3>2. CASE ~IsJoin(p) BY <1>1, <3>2, AlikeSides
    <3>3. QED BY <3>1, <3>2
  <2>2. \A to \in SidesOf(p) \ {1} :
          LinkSupported(p, c, to) <=> LinkSupported(q, d, to)
    BY AlikeLinks
  <2>3. QED BY <1>1, <1>2, <1>3, <2>1, <2>2, AlikeAliases DEF Buildable
<1>8. cols(p) = cols(q)
  <2>1. ASSUME NEW k \in DOMAIN p.select PROVE col(p, k) = col(q, k)
    <3>1. /\ SideOf(p, p.select[k].alias) = SideOf(q, q.select[k].alias)
          /\ p.select[k].col = q.select[k].col
      BY <1>2, AlikeAliases
    <3>2. CASE IsJoin(p)
      <4>1. p.from = q.from BY <3>2, AlikeSides
      <4>2. QED BY <3>1, <4>1 DEF TableAt
    <3>3. CASE ~IsJoin(p)
      <4>1. IsStatement(p) /\ SidesOf(p) = {1} BY <3>3, AlikeSides DEF Alike
      <4>2. p.select[k].alias = p.from[1].alias BY <3>3, <4>1 DEF IsStatement
      <4>3. SideOf(p, p.select[k].alias) = 1 BY <4>1, <4>2 DEF SideOf
      <4>4. QED BY <1>1, <3>1, <4>1, <4>3
    <3>4. QED BY <3>2, <3>3
  <2>2. QED BY <1>2, <2>1
<1>9. security(p, c) = security(q, d) BY <1>1, <1>3
<1>10. \A x, cat :
         Build(x, cat, doc) =
           [sides |-> sides(x, cat), links |-> links(x, cat), cols |-> cols(x),
            security |-> FlattenSeq(security(x, cat))]
  BY DEF Build
<1>11. Build(p, c, doc) = Build(q, d, doc)
  <2> HIDE DEF sides, links, cols, security
  <2>1. QED BY <1>5, <1>6, <1>8, <1>9, <1>10
<1>12. QED BY <1>7, <1>11
==============================================================================
