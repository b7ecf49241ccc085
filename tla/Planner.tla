------------------------------ MODULE Planner -------------------------------
(***************************************************************************)
(* internal/plan with internal/catalog and internal/policy: what a query   *)
(* is compiled to.  Pure operators over data; nothing here has state.      *)
(*                                                                         *)
(* A query is what the SQL parser (external) hands to Build:               *)
(*   from    sequence of [table, alias], one per side                      *)
(*   on      the ON condition attaching side i + 1: [a, b], each           *)
(*           [alias, col]                                                  *)
(*   select  sequence of [alias, col]                                      *)
(*   where   the conjuncts, in order: [alias, col, op, lit]                *)
(* The columns of a single-table query are unqualified: they all carry the *)
(* alias of its only side.  ORDER BY, LIMIT and OFFSET parse, but Build    *)
(* ignores them: there is nothing of them in a query here.                 *)
(*                                                                         *)
(* A catalog maps a table to [caps, masking, inList, maxInList], caps a    *)
(* column to [ops, enforced].  The document of a role is [rls, cls, deny,  *)
(* version], rls a sequence of [table, col, op, val] and cls a sequence of *)
(* [table, col, fn].  A value to compare with is <<"param", i>>,           *)
(* <<"attr", name>> or <<"lit", value>>.                                   *)
(***************************************************************************)
EXTENDS Selection, SequencesExt

SidesOf(q) == DOMAIN q.from
IsJoin(q) == Len(q.from) > 1
Aliases(q) == {q.from[i].alias : i \in SidesOf(q)}
SideOf(q, alias) == CHOOSE i \in SidesOf(q) : q.from[i].alias = alias
TableAt(q, i) == q.from[i].table

(* What the parser makes of a query: it has a table, and the columns of a  *)
(* query of one table are that table's.                                    *)
IsStatement(q) ==
  /\ Len(q.from) \in Nat \ {0} /\ SidesOf(q) = 1 .. Len(q.from)
  /\ ~IsJoin(q) =>
       /\ \A k \in DOMAIN q.select : q.select[k].alias = q.from[1].alias
       /\ \A j \in DOMAIN q.where : q.where[j].alias = q.from[1].alias

(* Variant: the outermost two tables of a join. *)
ParseFirstTables(q) == {TableAt(q, i) : i \in SidesOf(q) \cap {1, 2}}

(* ParseTables: every table the query reads, for admission. *)
ParseTables(q) == {TableAt(q, i) : i \in SidesOf(q)}

(* A role that the policy does not know is denied everything. *)
ObjectDenied(pol, role, table) ==
  role \in DOMAIN pol => table \in pol[role].deny

----------------------------------------------------------------------------

(* classify: is the predicate pushed to the connector or kept local? *)
SiteOf(cat, table, col, op) ==
  IF /\ table \in DOMAIN cat
     /\ col \in DOMAIN cat[table].caps
     /\ op \in cat[table].caps[col].ops
     /\ cat[table].caps[col].enforced
  THEN "pushed" ELSE "local"

(* Variant: the literal of the query that is built stays in the plan. *)
BakedLiteral(q, j) == <<"lit", q.where[j].lit>>

(* Variant: by place among the conjuncts of its own side. *)
PlaceInSide(q, j) ==
  <<"param", Cardinality({m \in 1 .. j : q.where[m].alias = q.where[j].alias})>>

(* paramPlaceholder: by place among the conjuncts of the whole query. *)
ParamOf(q, j) == <<"param", j>>

(* ExtractParams *)
Params(q) == [j \in DOMAIN q.where |-> q.where[j].lit]

(* whereCond: the conjuncts without their literals; no alias tells those   *)
(* of a single table apart.                                                *)
Conjuncts(q) ==
  [j \in DOMAIN q.where |->
     [alias |-> IF IsJoin(q) THEN q.where[j].alias ELSE "",
      col |-> q.where[j].col, op |-> q.where[j].op, val |-> ParamOf(q, j)]]

OfAlias(ws, alias) == Chosen(ws, {j \in DOMAIN ws : ws[j].alias = alias})

UserFilters(q, cat, i) ==
  LET mine == IF IsJoin(q) THEN OfAlias(Conjuncts(q), q.from[i].alias)
              ELSE Conjuncts(q)
  IN [k \in DOMAIN mine |->
        [col |-> mine[k].col, op |-> mine[k].op, val |-> mine[k].val,
         origin |-> "user",
         site |-> SiteOf(cat, TableAt(q, i), mine[k].col, mine[k].op)]]

(* ResidualsFor *)
Residuals(doc, table) ==
  Chosen(doc.rls, {k \in DOMAIN doc.rls : doc.rls[k].table = table})

SecurityFilters(q, cat, doc, i) ==
  LET rs == Residuals(doc, TableAt(q, i))
  IN [k \in DOMAIN rs |->
        [col |-> rs[k].col, op |-> rs[k].op, val |-> rs[k].val,
         origin |-> "security",
         site |-> SiteOf(cat, TableAt(q, i), rs[k].col, rs[k].op)]]

(* The stack of Filter nodes over a Scan, top first: the order FiltersIn   *)
(* walks it in.                                                            *)
FiltersOf(q, cat, doc, i) ==
  Reverse(UserFilters(q, cat, i) \o SecurityFilters(q, cat, doc, i))

(* The columns MasksFor masks in a table, and the last rule for a column. *)
MaskCols(doc, table) ==
  {doc.cls[k].col : k \in {m \in DOMAIN doc.cls : doc.cls[m].table = table}}

MaskFor(doc, table, col) ==
  LET rules == {k \in DOMAIN doc.cls : doc.cls[k].table = table
                                        /\ doc.cls[k].col = col}
  IN IF rules = {} THEN "none" ELSE doc.cls[Latest(rules)].fn

Selected(q, i) ==
  {q.select[k].col :
     k \in {m \in DOMAIN q.select : q.select[m].alias = q.from[i].alias}}

(* A single-table plan only minds the masks of its output columns. *)
MaskedIn(q, doc, i) ==
  IF IsJoin(q)
  THEN MaskCols(doc, TableAt(q, i))
  ELSE MaskCols(doc, TableAt(q, i)) \cap Selected(q, i)

(* checkMaskingSupported *)
MaskingSupported(q, cat, doc, i) ==
  MaskedIn(q, doc, i) # {} =>
    TableAt(q, i) \in DOMAIN cat /\ cat[TableAt(q, i)].masking = "unsupported"

----------------------------------------------------------------------------

(* The end of the ON condition of side `to` that is side `to`, and the     *)
(* other: the condition may be written either way round.                   *)
ProbeEnd(q, to) ==
  LET c == q.on[to - 1]
  IN IF SideOf(q, c.b.alias) = to THEN c.b ELSE c.a
BuildEnd(q, to) ==
  LET c == q.on[to - 1]
  IN IF SideOf(q, c.b.alias) = to THEN c.a ELSE c.b

LinkTo(q, cat, to) ==
  [from |-> SideOf(q, BuildEnd(q, to).alias), fromCol |-> BuildEnd(q, to).col,
   to |-> to, toCol |-> ProbeEnd(q, to).col,
   maxInList |-> cat[TableAt(q, to)].maxInList]

(* Every link reaches backwards, to a probe that takes an IN-list. *)
LinkSupported(q, cat, to) ==
  /\ {q.on[to - 1].a.alias, q.on[to - 1].b.alias} \subseteq Aliases(q)
  /\ SideOf(q, ProbeEnd(q, to).alias) = to
  /\ SideOf(q, BuildEnd(q, to).alias) < to
  /\ TableAt(q, to) \in DOMAIN cat
  /\ cat[TableAt(q, to)].inList

(* Build returns no error. *)
Buildable(q, cat, doc) ==
  /\ \A i, j \in SidesOf(q) : q.from[i].alias = q.from[j].alias => i = j
  /\ \A to \in SidesOf(q) \ {1} : LinkSupported(q, cat, to)
  /\ \A k \in DOMAIN q.select : q.select[k].alias \in Aliases(q)
  /\ \A j \in DOMAIN q.where : q.where[j].alias \in Aliases(q)
  /\ \A i \in SidesOf(q) : MaskingSupported(q, cat, doc, i)

JoinKeys(q, i) ==
  {BuildEnd(q, to).col : to \in {t \in SidesOf(q) \ {1} :
                                 SideOf(q, BuildEnd(q, t).alias) = i}}
    \cup IF i > 1 THEN {ProbeEnd(q, i).col} ELSE {}

(* Over-projection: whatever the gateway reads later is asked for. *)
ScanProject(q, cat, doc, i) ==
  LET fs == FiltersOf(q, cat, doc, i)
  IN Selected(q, i) \cup MaskedIn(q, doc, i) \cup JoinKeys(q, i)
       \cup {fs[k].col : k \in DOMAIN fs}

Build(q, cat, doc) ==
  [sides |-> [i \in SidesOf(q) |->
     [table |-> TableAt(q, i), filters |-> FiltersOf(q, cat, doc, i),
      project |-> ScanProject(q, cat, doc, i)]],
   links |-> [k \in 1 .. Len(q.from) - 1 |-> LinkTo(q, cat, k + 1)],
   cols |-> [k \in DOMAIN q.select |->
     LET i == SideOf(q, q.select[k].alias)
     IN [side |-> i, col |-> q.select[k].col,
         mask |-> MaskFor(doc, TableAt(q, i), q.select[k].col)]],
   security |-> FlattenSeq([i \in SidesOf(q) |->
                              SecurityFilters(q, cat, doc, i)])]

SamePredicate(f, g) == f.col = g.col /\ f.op = g.op /\ f.val = g.val

(* AssertInvariant: of the security filters with a predicate's text, the   *)
(* last one that the walk of the tree visits must be at its site.          *)
AssertInvariant(p) ==
  LET all == FlattenSeq([i \in DOMAIN p.sides |-> p.sides[i].filters])
  IN \A k \in DOMAIN p.security :
       LET present == SelectSeq(all, LAMBDA f :
                        f.origin = "security" /\ SamePredicate(f, p.security[k]))
       IN present # <<>> /\ Last(present).site = p.security[k].site

----------------------------------------------------------------------------

(* Shape, joinShape: the query without its literals (and, for a single     *)
(* table, without its alias).                                              *)
Unliteral(q) ==
  [j \in DOMAIN q.where |->
     [alias |-> IF IsJoin(q) THEN q.where[j].alias ELSE "",
      col |-> q.where[j].col, op |-> q.where[j].op]]

Shape(q) ==
  IF IsJoin(q)
  THEN [from |-> q.from, on |-> q.on, select |-> q.select,
        where |-> Unliteral(q)]
  ELSE [from |-> <<TableAt(q, 1)>>, on |-> <<>>,
        select |-> [k \in DOMAIN q.select |-> q.select[k].col],
        where |-> Unliteral(q)]

(* policy.ShapeHash: the whole document of the role. *)
PolicyShape(doc) == [rls |-> doc.rls, cls |-> doc.cls, deny |-> doc.deny]

(* catalog.ShapeHash: the predicates and the masking of the table. *)
CapShape(cat, table) ==
  [caps |-> cat[table].caps, masking |-> cat[table].masking]
=============================================================================
