---------------------------- MODULE QueryMeaning ----------------------------
(***************************************************************************)
(* What Query must have fetched at every step for its answer to be what    *)
(* the query means, and of which inputs that is claimed.  Operators of an  *)
(* input i and of rows, not of the state.                                  *)
(***************************************************************************)
EXTENDS Query

(* What the input of a query determines.                                   *)
PrincipalIn(i) == ResolveFromHeader(i.token, Registry)
DocIn(i) == Policy[PrincipalIn(i).roles[1]]

AcceptedIn(i) ==
  /\ PrincipalIn(i).ok /\ PrincipalIn(i).roles # <<>>
  /\ \A t \in ParseTables(i.q) : ~ObjectDenied(Policy, PrincipalIn(i).roles[1], t)
  /\ ParseTables(i.q) \subseteq DOMAIN i.cat
  /\ Buildable(i.q, i.cat, DocIn(i))
  /\ ParseTables(i.q) \subseteq i.connected

TableOfIn(i, k) == i.server[TableAt(i.q, k)]
DataIn(i, k) == ToSet(TableOfIn(i, k).rows)
FieldsIn(i, k) == ScanProject(i.q, i.cat, DocIn(i), k)
FiltersIn(i, k) == FiltersOf(i.q, i.cat, DocIn(i), k)
LinkIn(i, k) == LinkTo(i.q, i.cat, k)

HasValue(i, f) == f.val[1] = "attr" => f.val[2] \in DOMAIN PrincipalIn(i).attrs
WantIn(i, f) ==
  IF f.val[1] = "param" THEN Params(i.q)[f.val[2]]
  ELSE IF f.val[1] = "attr" THEN PrincipalIn(i).attrs[f.val[2]]
  ELSE f.val[2]

(* The rows that may be kept of side k: a row security predicate without a *)
(* value clears none.                                                      *)
Clears(i, f, row) == HasValue(i, f) /\ Val(row, f.col) = WantIn(i, f)

----------------------------------------------------------------------------
(* Of which inputs it is claimed.                                          *)

(* Every residual of a role that a query runs for compares for equality.   *)
(* The gateway compares so whatever the operator of a residual is, so that *)
(* nothing like this holds of policies with another.                       *)
EqualityIn(i) == \A k \in DOMAIN DocIn(i).rls : DocIn(i).rls[k].op = "="

EqualityResiduals == \A i \in Input : AcceptedIn(i) => EqualityIn(i)

(* Every conjunct compares for equality, and a pushed one reaches the      *)
(* connector as it is: no other conjunct of its side that is pushed on the *)
(* same column asks for another value, and its column is not the one that  *)
(* the IN-lists of its side are on.                                        *)
UserPushed(i, k) ==
  {f \in ToSet(FiltersIn(i, k)) : f.origin = "user" /\ f.site = "pushed"}

ReachIn(i) ==
  /\ \A j \in DOMAIN i.q.where : i.q.where[j].op = "="
  /\ \A k \in 1 .. Len(i.q.from) : \A f \in UserPushed(i, k) :
       /\ k > 1 => f.col # LinkIn(i, k).toCol
       /\ \A g \in UserPushed(i, k) : g.col = f.col => WantIn(i, g) = WantIn(i, f)

ConjunctsReachSources == \A i \in Input : AcceptedIn(i) => ReachIn(i)

----------------------------------------------------------------------------
(* Each side is fetched exactly: of the rows of its table those that pass  *)
(* all its filters and, for a probe, whose key the side before it has,     *)
(* each one once.                                                          *)

GoodIn(i, k, d) ==
  \A j \in DOMAIN FiltersIn(i, k) : Clears(i, FiltersIn(i, k)[j], d)

KeysOf(rows, col) == {Val(rows[k], col) : k \in DOMAIN rows} \ {Empty}

(* The rows of side k that belong to the answer of a fetch after which the *)
(* sides before it have these rows.                                        *)
Reached(i, rows, k, d) ==
  k > 1 => Val(d, LinkIn(i, k).toCol)
             \in KeysOf(rows[LinkIn(i, k).from], LinkIn(i, k).fromCol)

Asked(i, rows, k) ==
  {d \in DataIn(i, k) : GoodIn(i, k, d) /\ Reached(i, rows, k, d)}

InChunk(chunk, d) == \A c \in DOMAIN chunk : Val(d, c) \in chunk[c]
Waiting(cs, d) == \E c \in DOMAIN cs : InChunk(cs[c], d)

(* s has each of these rows once, with these columns.                      *)
Comes(s, rows, fields) ==
  /\ \A j \in DOMAIN s : \E d \in rows : s[j] = Cells(d, fields)
  /\ \A d \in rows : \E j \in DOMAIN s : s[j] = Cells(d, fields)
  /\ \A j, m \in DOMAIN s : s[j].id = s[m].id => j = m

(* The pages so far are the first of the rows that the server finds.       *)
Read(s, found, fields) ==
  /\ Len(s) <= Len(found)
  /\ \A k \in DOMAIN s : s[k] = Cells(found[k], fields)

ChunksFitIn(i, rows, k, cs) ==
  \A d \in DataIn(i, k) :
    /\ \A a, b \in DOMAIN cs : InChunk(cs[a], d) /\ InChunk(cs[b], d) => a = b
    /\ Waiting(cs, d) => Reached(i, rows, k, d)

(* What a fetch asks the source to filter by.                              *)
SentIn(i, k, chunk) ==
  LET fs == FiltersIn(i, k)
      sent == {j \in DOMAIN fs : fs[j].site = "pushed"}
      on(c) == {j \in sent : fs[j].col = c}
  IN [c \in {fs[j].col : j \in sent} \cup DOMAIN chunk |->
        IF c \in DOMAIN chunk THEN chunk[c] ELSE {WantIn(i, fs[Latest(on(c))])}]

(* The rows of the sides up to k, with the chunks cs of k still to fetch   *)
(* and these pages of the first of them in hand.                           *)
ExactlyIn(i, rows, k, cs, pages) ==
  /\ \A a \in 1 .. k - 1 : Comes(rows[a], Asked(i, rows, a), FieldsIn(i, a))
  /\ Comes(rows[k], {d \in Asked(i, rows, k) : ~Waiting(cs, d)}, FieldsIn(i, k))
  /\ ChunksFitIn(i, rows, k, cs)
  /\ pages # <<>> =>
       Read(pages, FilterRows(TableOfIn(i, k), SentIn(i, k, Head(cs))), FieldsIn(i, k))

(* While a query runs over connectors that obey, what it has fetched is    *)
(* exact: pages in order and none twice (fetchScanRows), each key of the   *)
(* side before in one chunk (chunkStrings, distinctValues), every filter   *)
(* applied at its site, and the chunks still waiting are of keys that are  *)
(* needed.                                                                 *)
SidesExact ==
  Obedient /\ stage \in {"fetch", "merge"} =>
    ExactlyIn(in, fetched, side, chunks, got)
=============================================================================
