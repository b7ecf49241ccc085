------------------------------- MODULE Query --------------------------------
(***************************************************************************)
(* One query from its token to its rows: Server.handleQuery and            *)
(* buildAndRoute, then exec.Run and its semi-join cascade (internal/exec)  *)
(* over the page loop of internal/connector.  The plan is Planner's, the   *)
(* principal Identity's, and the sources are servers of Mocks, which may   *)
(* fail, hide a column, run out of calls, or ignore a filter that the      *)
(* catalog says they enforce.                                              *)
(*                                                                         *)
(* The sides of a join are fetched in FROM order: side 1 in full, each     *)
(* later side in chunks of the keys already in hand, one page per step.  A *)
(* column that a row does not have reads as the empty string, as it does   *)
(* from a Go map.                                                          *)
(***************************************************************************)
EXTENDS Planner, Mocks, Identity

CONSTANTS
  Registry,      \* the issuers that are trusted
  Policy,        \* role -> its document
  Input,         \* what may run: a query q with a token, under a catalog cat;
                 \* server maps a table to the server behind it, and the
                 \* tables connected have a connector in Deps.Sources
  SourceErrors   \* how a source may fail: subset of {"status", "timeout"}

(* What policies say: a residual compares with an attribute or a literal,  *)
(* never with a parameter of the query, and a mask has a function.         *)
IsPolicy(doc) ==
  /\ IsSequence(doc.rls) /\ IsSequence(doc.cls)
  /\ \A k \in DOMAIN doc.rls : doc.rls[k].val[1] \in {"attr", "lit"}
  /\ \A k \in DOMAIN doc.cls : doc.cls[k].fn # "none"

IsInput(i) ==
  /\ IsStatement(i.q)
  /\ IsSequence(i.q.from) /\ IsSequence(i.q.select) /\ IsSequence(i.q.where)
  /\ DOMAIN i.q.on = 1 .. Len(i.q.from) - 1
  /\ i.token.groups \in Seq(STRING)
  /\ i.connected \subseteq DOMAIN i.server
  /\ \A t \in DOMAIN i.server : IsServer(i.server[t])
  /\ \A t \in DOMAIN i.cat : i.cat[t].maxInList \in Int

ASSUME QueryAssumption ==
  /\ SourceErrors \subseteq {"status", "timeout"}
  /\ \A role \in DOMAIN Policy : IsPolicy(Policy[role])
  /\ \A i \in Input : IsInput(i)

VARIABLES
  in,        \* the input of this query: constant
  stage,     \* "admit", "fetch", "merge" or "done"
  plan,      \* what Build returned
  side,      \* the side being fetched
  chunks,    \* the IN-lists still to be fetched for it
  got,       \* the rows of the pages of the fetch in progress
  fetched,   \* the rows of each side
  calls,     \* history: the FetchRequests that left
  out        \* [err, rows]: what exec.Run returned

vars == <<in, stage, plan, side, chunks, got, fetched, calls, out>>

NoPlan == [sides |-> <<>>, links |-> <<>>, cols |-> <<>>, security |-> <<>>]
NoError == "none"
Error == {"unauthenticated", "denied", "plan", "connector", "column", "tooLarge",
          "rateLimited", "join", "mask"} \cup SourceErrors

Init ==
  /\ in \in Input
  /\ stage = "admit"
  /\ plan = NoPlan
  /\ side = 1
  /\ chunks = <<>>
  /\ got = <<>>
  /\ fetched = <<>>
  /\ calls = <<>>
  /\ out = [err |-> NoError, rows |-> <<>>]

Fail(e) ==
  /\ stage' = "done"
  /\ out' = [err |-> e, rows |-> <<>>]
  /\ UNCHANGED <<in, plan, side, chunks, got, fetched, calls>>

----------------------------------------------------------------------------
(* The principal, values, rows and filters. *)

Caller == ResolveFromHeader(in.token, Registry)

(* One role decides, although a principal may have several. *)
Role == Caller.roles[1]
Doc == Policy[Role]

(* resolveValue: a missing attribute is an error, not an empty string. *)
Unresolved(f) == f.val[1] = "attr" /\ f.val[2] \notin DOMAIN Caller.attrs

Want(f) ==
  IF f.val[1] = "param" THEN Params(in.q)[f.val[2]]
  ELSE IF f.val[1] = "attr" THEN Caller.attrs[f.val[2]]
  ELSE f.val[2]

(* Every comparison is for equality, whatever the operator. *)
Passes(row, f) == Val(row, f.col) = Want(f)

At(filters, site) == {k \in DOMAIN filters : filters[k].site = site}

(* The filters of a FetchRequest, column by column: of the pushed          *)
(* predicates on a column the last one visited wins, and an IN-list wins   *)
(* over all of them.                                                       *)
PushedFilters(filters, extra) ==
  LET sent == At(filters, "pushed")
      on(c) == {k \in sent : filters[k].col = c}
  IN [c \in {filters[k].col : k \in sent} \cup DOMAIN extra |->
        IF c \in DOMAIN extra THEN extra[c] ELSE {Want(filters[Latest(on(c))])}]

(* Variant: rows are trusted as they come. *)
Unverified(rows, filters) == TRUE

(* verifyPushedSecurityPredicates *)
Verified(rows, filters) ==
  \A j \in At(filters, "pushed") :
    filters[j].origin = "security" =>
      \A k \in DOMAIN rows : Passes(rows[k], filters[j])

(* applyLocalFilters: the rows kept, and whether one of them needs the     *)
(* value of an attribute that is missing.                                  *)
Kept(rows, filters) ==
  Chosen(rows, {k \in DOMAIN rows :
                  \A j \in At(filters, "local") : Passes(rows[k], filters[j])})

Stuck(rows, filters) ==
  \E r \in ToSet(rows) : \E k \in At(filters, "local") :
    /\ Unresolved(filters[k])
    /\ \A j \in At(filters, "local") :
         j < k => ~Unresolved(filters[j]) /\ Passes(r, filters[j])

SecurityNeeds(filters, col) ==
  \E f \in ToSet(filters) : f.origin = "security" /\ f.col = col

----------------------------------------------------------------------------
(* Admission: handleQuery, then buildAndRoute. *)

NotIdentified == ~Caller.ok \/ Caller.roles = <<>>

TurnedAway ==
  /\ stage = "admit"
  /\ NotIdentified
  /\ Fail(IF Caller.ok THEN "denied" ELSE "unauthenticated")

AccessDenied == \E t \in ParseTables(in.q) : ObjectDenied(Policy, Role, t)

Plannable ==
  /\ ParseTables(in.q) \subseteq DOMAIN in.cat
  /\ Buildable(in.q, in.cat, Doc)

Refuse ==
  /\ stage = "admit"
  /\ ~NotIdentified
  /\ IF AccessDenied THEN Fail("denied") ELSE ~Plannable /\ Fail("plan")

(* The plan is checked and its connectors are looked up. *)
Admit ==
  /\ stage = "admit"
  /\ ~NotIdentified
  /\ ~AccessDenied
  /\ Plannable
  /\ plan' = Build(in.q, in.cat, Doc)
  /\ \/ /\ AssertInvariant(plan')
        /\ ParseTables(in.q) \subseteq in.connected
        /\ stage' = "fetch"
        /\ chunks' = <<[c \in {} |-> {}]>>
        /\ fetched' = <<<<>>>>
        /\ UNCHANGED out
     \/ /\ ~(AssertInvariant(plan') /\ ParseTables(in.q) \subseteq in.connected)
        /\ stage' = "done"
        /\ out' = [out EXCEPT !.err = IF AssertInvariant(plan')
                                      THEN "connector" ELSE "denied"]
        /\ UNCHANGED <<chunks, fetched>>
  /\ UNCHANGED <<in, side, got, calls>>

----------------------------------------------------------------------------
(* The cascade: fetchScanRows, called by Run and runJoin. *)

Filters == plan.sides[side].filters
Table == plan.sides[side].table
Columns == plan.sides[side].project

Pending == stage = "fetch" /\ chunks # <<>>

(* offset += len(page) *)
Offset == Len(got)

(* The request for a page. *)
Call ==
  [side |-> side, table |-> Table, project |-> Columns,
   pushed |-> PushedFilters(Filters, Head(chunks)), offset |-> Offset]

(* Some pushed filter has no value: the request is never made. *)
Unsendable == \E k \in At(Filters, "pushed") : Unresolved(Filters[k])

CannotResolve ==
  /\ Pending
  /\ Unsendable
  /\ Fail("denied")

Leaves ==
  /\ Pending
  /\ ~Unsendable
  /\ calls' = Append(calls, Call)

(* The whole query fails, whatever pages it has. *)
Refused(e) ==
  /\ Leaves
  /\ stage' = "done"
  /\ out' = [err |-> e, rows |-> <<>>]
  /\ UNCHANGED <<in, plan, side, chunks, got, fetched>>

SourceFails == \E e \in SourceErrors : Refused(e)

(* What the server behind the table may answer to this call. *)
Responses ==
  HandleTable(in.server[Table],
              Len(SelectSeq(calls, LAMBDA c : c.table = Table)) + 1,
              Columns, Call.pushed, Offset)

(* If row security needs the column that the source cannot supply, the     *)
(* query is denied.                                                        *)
SourceRefuses ==
  /\ Pending
  /\ ~Unsendable
  /\ \E answer \in Responses :
       /\ answer.status # "ok"
       /\ Refused(IF /\ answer.status = "column"
                     /\ SecurityNeeds(Filters, answer.field)
                  THEN "denied" ELSE answer.status)

MorePages ==
  /\ Leaves
  /\ \E answer \in Responses :
       /\ answer.hasMore
       /\ got' = got \o answer.rows
  /\ UNCHANGED <<in, stage, plan, side, chunks, fetched, out>>

(* The last page: the rows of all of them are verified and filtered. *)
SourceAnswers ==
  /\ Pending
  /\ ~Unsendable
  /\ \E answer \in Responses :
       LET rows == got \o answer.rows
       IN /\ answer.status = "ok" /\ ~answer.hasMore
          /\ IF ~Verified(rows, Filters) \/ Stuck(rows, Filters)
             THEN Refused("denied")
             ELSE /\ Leaves
                  /\ fetched' = [fetched EXCEPT ![side] =
                                    @ \o Kept(rows, Filters)]
                  /\ got' = <<>>
                  /\ chunks' = Tail(chunks)
                  /\ UNCHANGED <<in, stage, plan, side, out>>

(* Variant: the keys in the order in which the rows have them. *)
FirstSeen(rows, col) ==
  LET keys == [k \in DOMAIN rows |-> Val(rows[k], col)]
  IN FoldLeft(LAMBDA seen, key :
                IF key = Empty \/ key \in ToSet(seen)
                THEN seen ELSE Append(seen, key), <<>>, keys)

(* distinctValues: in an order that only depends on the set. *)
DistinctValues(rows, col) ==
  SetToSeq({Val(rows[k], col) : k \in DOMAIN rows} \ {Empty})

(* Variant: chunks of one key too many. *)
LongChunks(keys, size) ==
  [k \in 1 .. (Len(keys) + size - 1) \div size |->
     SubSeq(keys, (k - 1) * size + 1, Min({k * size + 1, Len(keys)}))]

(* Variant: the keys that do not fill a chunk are left out. *)
FullChunks(keys, size) ==
  [k \in 1 .. Len(keys) \div size |->
     SubSeq(keys, (k - 1) * size + 1, k * size)]

(* chunkStrings: groups of at most size keys. *)
ChunkStrings(keys, size) ==
  [k \in 1 .. (Len(keys) + size - 1) \div size |->
     SubSeq(keys, (k - 1) * size + 1, Min({k * size, Len(keys)}))]

(* A declared capacity of 0 or less is no capacity: one chunk. *)
ChunksFor(keys, link) ==
  IF keys = <<>>
  THEN <<>>
  ELSE ChunkStrings(keys, IF link.maxInList <= 0
                          THEN Len(keys) ELSE link.maxInList)

NextSide ==
  /\ stage = "fetch"
  /\ chunks = <<>>
  /\ side < Len(plan.sides)
  /\ side' = side + 1
  /\ LET link == plan.links[side]
         cs == ChunksFor(DistinctValues(fetched[link.from], link.fromCol), link)
     IN chunks' = [k \in DOMAIN cs |-> [c \in {link.toCol} |-> ToSet(cs[k])]]
  /\ fetched' = Append(fetched, <<>>)
  /\ UNCHANGED <<in, stage, plan, got, calls, out>>

Fetched ==
  /\ stage = "fetch"
  /\ chunks = <<>>
  /\ side = Len(plan.sides)
  /\ stage' = "merge"
  /\ UNCHANGED <<in, plan, side, chunks, got, fetched, calls, out>>

----------------------------------------------------------------------------
(* The merge: JoinEngine.Join, then project.  A joined row is the tuple of *)
(* the rows of its sides.                                                  *)

(* Variant: a link joins to the side before. *)
JoinOnPrevious(acc, link) ==
  FlattenSeq([k \in DOMAIN fetched[link.to] |->
    LET right == fetched[link.to][k]
        match == Chosen(acc, {m \in DOMAIN acc :
                   Val(acc[m][link.to - 1], link.fromCol) = Val(right, link.toCol)})
    IN [m \in DOMAIN match |-> Append(match[m], right)]])

(* hashJoinOn: each row of a side with the joined rows that match it. *)
JoinOn(acc, link) ==
  FlattenSeq([k \in DOMAIN fetched[link.to] |->
    LET right == fetched[link.to][k]
        match == Chosen(acc, {m \in DOMAIN acc :
                   Val(acc[m][link.from], link.fromCol) = Val(right, link.toCol)})
    IN [m \in DOMAIN match |-> Append(match[m], right)]])

Joined(error, rows) == [err |-> error, rows |-> rows]

GoJoin ==
  LET upTo[k \in 0 .. Len(plan.links)] ==
        IF k = 0
        THEN [n \in DOMAIN fetched[1] |-> <<fetched[1][n]>>]
        ELSE JoinOn(upTo[k - 1], plan.links[k])
  IN Joined(NoError, upTo[Len(plan.links)])

(* columnsOf *)
ColumnsOf(rows) == UNION {DOMAIN rows[k].vals : k \in DOMAIN rows}

KeyColumnMissing ==
  \E k \in DOMAIN plan.links :
    LET link == plan.links[k]
    IN \/ link.fromCol \notin ColumnsOf(fetched[link.from])
       \/ link.toCol \notin ColumnsOf(fetched[link.to])

(* Every row of a side with every row of the next. *)
Crossed(acc, rows) ==
  FlattenSeq([k \in DOMAIN acc |->
                [m \in DOMAIN rows |-> Append(acc[k], rows[m])]])

CrossJoin ==
  LET upTo[i \in 0 .. Len(fetched)] ==
        IF i = 0 THEN <<<<>>>> ELSE Crossed(upTo[i - 1], fetched[i])
  IN upTo[Len(fetched)]

(* DuckJoin.Join: SELECT ... FROM t0 JOIN t1 ON ... in an embedded DuckDB  *)
(* (external), which joins as SQL says and promises no order.              *)
DuckJoin ==
  IF \E i \in DOMAIN fetched : fetched[i] = <<>>
  THEN Joined(NoError, <<>>)
  ELSE IF KeyColumnMissing
  THEN Joined("join", <<>>)
  ELSE LET rows == CrossJoin
       IN Joined(NoError,
            Chosen(rows, {n \in DOMAIN rows : \A k \in DOMAIN plan.links :
              LET link == plan.links[k]
              IN Val(rows[n][link.to], link.toCol) =
                 Val(rows[n][link.from], link.fromCol)}))

Shown(col, row) == [fn |-> col.mask, of |-> Val(row[col.side], col.col)]

(* Variant: the columns that were only fetched for filters come out too. *)
Unstripped(row) ==
  [ids |-> [i \in DOMAIN row |-> row[i].id],
   vals |-> FlattenSeq([i \in DOMAIN row |->
     SetToSeq({[fn |-> "none", of |-> Val(row[i], c)] :
                 c \in DOMAIN row[i].vals})])]

(* project: the output columns, in order, masked. *)
Output(row) ==
  [ids |-> [i \in DOMAIN row |-> row[i].id],
   vals |-> [k \in DOMAIN plan.cols |-> Shown(plan.cols[k], row)]]

MaskUnsupported ==
  \E k \in DOMAIN plan.cols : plan.cols[k].mask \notin {"none", "sha256"}

(* The merge, in whichever engine the build has. *)
Merge ==
  /\ stage = "merge"
  /\ stage' = "done"
  /\ \E merged \in {GoJoin, DuckJoin} :
       out' = IF merged.err # NoError
              THEN [err |-> merged.err, rows |-> <<>>]
              ELSE IF merged.rows # <<>> /\ MaskUnsupported
              THEN [err |-> "mask", rows |-> <<>>]
              ELSE [err |-> NoError,
                    rows |-> [k \in DOMAIN merged.rows |-> Output(merged.rows[k])]]
  /\ UNCHANGED <<in, plan, side, chunks, got, fetched, calls>>

Done == stage = "done" /\ UNCHANGED vars

Next ==
  \/ TurnedAway
  \/ Refuse
  \/ Admit
  \/ CannotResolve
  \/ SourceFails
  \/ SourceRefuses
  \/ MorePages
  \/ SourceAnswers
  \/ NextSide
  \/ Fetched
  \/ Merge
  \/ Done

Spec == Init /\ [][Next]_vars

----------------------------------------------------------------------------

(* The rows of the tables: what the servers behind them have. *)
Data(i) == ToSet(in.server[TableAt(in.q, i)].rows)

TypeOK ==
  /\ stage \in {"admit", "fetch", "merge", "done"}
  /\ DOMAIN plan = DOMAIN NoPlan
  /\ side \in 1 .. Len(in.q.from)
  /\ \A k \in DOMAIN chunks : Cardinality(DOMAIN chunks[k]) <= 1
  /\ got # <<>> => chunks # <<>>
  /\ Len(fetched) <= Len(in.q.from)
  /\ \A i \in DOMAIN fetched :
       ToSet(fetched[i]) \subseteq {Cells(r, plan.sides[i].project) : r \in Data(i)}
  /\ out.err \in Error \cup {NoError}
  /\ \A row \in ToSet(out.rows) :
       Len(row.ids) = Len(in.q.from) /\ Len(row.vals) = Len(in.q.select)

(* What a residual or a conjunct says, by its operator. *)
Sat(op, a, b) == IF op = "=" THEN a = b ELSE a # b

(* Who the token stands for: what the registration of its issuer says of   *)
(* its groups, the first that has a role and the last that sets a name.    *)
Registered == Registry[in.token.iss]
Groups == in.token.groups
HasRole == {k \in DOMAIN Groups : Groups[k] \in DOMAIN Registered.roles}
RoleOwed ==
  Registered.roles[Groups[CHOOSE k \in HasRole : \A j \in HasRole : k <= j]]
SetBy(name) ==
  {k \in DOMAIN Groups : /\ Groups[k] \in DOMAIN Registered.attrs
                         /\ name \in DOMAIN Registered.attrs[Groups[k]]}
AttrOwed(name) ==
  Registered.attrs[Groups[CHOOSE k \in SetBy(name) :
                            \A j \in SetBy(name) : k >= j]][name]

(* A row satisfies a residual of the principal's role. *)
Entitled(row, f) ==
  IF f.val[1] = "attr"
  THEN /\ SetBy(f.val[2]) # {}
       /\ Sat(f.op, Val(row, f.col), AttrOwed(f.val[2]))
  ELSE Sat(f.op, Val(row, f.col), f.val[2])

Rls(i) == ToSet(Residuals(Policy[RoleOwed], TableAt(in.q, i)))

RowOf(i, id) == CHOOSE r \in Data(i) : r.id = id

(* Row and column security hold for whatever comes out (ADR-002), whether  *)
(* a predicate was pushed or kept, and though a connector may ignore what  *)
(* it declared it enforces: every row behind an output row satisfies the   *)
(* residuals of its table for the role and the attributes that the issuer  *)
(* registered for the groups, and masked columns are masked.               *)
EntitledOutput ==
  stage = "done" => \A row \in ToSet(out.rows) :
    /\ \A i \in DOMAIN row.ids : \A f \in Rls(i) :
         Entitled(RowOf(i, row.ids[i]), f)
    /\ \A k \in DOMAIN in.q.select :
         LET i == SideOf(in.q, in.q.select[k].alias)
         IN in.q.select[k].col \in MaskCols(Policy[RoleOwed], TableAt(in.q, i)) =>
              row.vals[k].fn # "none"

(* Layer 1: no call leaves for a token of an issuer that is not trusted or *)
(* whose groups have no role, for a role that no policy is known of, or    *)
(* for a query of which some table is denied, in whatever place of a join  *)
(* it stands.                                                              *)
DeniedQueryReadsNothing ==
  calls # <<>> =>
    /\ in.token.bearer /\ in.token.iss \in DOMAIN Registry
    /\ HasRole # {}
    /\ RoleOwed \in DOMAIN Policy
    /\ \A i \in SidesOf(in.q) : TableAt(in.q, i) \notin Policy[RoleOwed].deny

(* No probe carries more keys than the catalog says the connector takes.   *)
CallsFit ==
  \A k \in DOMAIN calls : calls[k].side > 1 =>
    LET link == LinkTo(in.q, in.cat, calls[k].side)
    IN link.maxInList > 0 =>
         Cardinality(calls[k].pushed[link.toCol]) <= link.maxInList

(* Sorting "makes chunk membership a function of the key set alone"        *)
(* (exec.go:287-288): in whatever order the source had sent the rows of    *)
(* the build side, the probes would be the same, and find what the last    *)
(* ones left in the cache.                                                 *)
ProbesIgnoreRowOrder ==
  stage = "fetch" /\ side > 1 =>
    LET link == plan.links[side - 1]
        rows == fetched[link.from]
        probes(some) == ChunksFor(DistinctValues(some, link.fromCol), link)
    IN \A order \in Bijection(DOMAIN rows, DOMAIN rows) :
         probes([k \in DOMAIN rows |-> rows[order[k]]]) = probes(rows)

(* The reference: what the query means, row by row, with no pushdown, no   *)
(* chunks and no join order.                                               *)
Meant ==
  LET n == Len(in.q.from)
      ids == [i \in 1 .. n |-> {r.id : r \in Data(i)}]
      cell(t, end) ==
        LET i == SideOf(in.q, end.alias) IN Val(RowOf(i, t[i]), end.col)
  IN {t \in [1 .. n -> UNION {ids[i] : i \in 1 .. n}] :
        /\ \A i \in 1 .. n : t[i] \in ids[i]
        /\ \A k \in DOMAIN in.q.on :
             /\ cell(t, in.q.on[k].a) = cell(t, in.q.on[k].b)
             /\ cell(t, in.q.on[k].a) # Empty
        /\ \A j \in DOMAIN in.q.where :
             Sat(in.q.where[j].op, cell(t, in.q.where[j]), in.q.where[j].lit)
        /\ \A i \in 1 .. n : \A f \in Rls(i) : Entitled(RowOf(i, t[i]), f)}

(* The servers apply what the catalog says they enforce, and IN-lists. *)
Obedient ==
  \A t \in DOMAIN in.server :
    LET caps == in.cat[t].caps
    IN in.server[t].kind = "sf" =>
         {c \in DOMAIN caps : caps[c].enforced}
           \cup {LinkTo(in.q, in.cat, i).toCol :
                    i \in {j \in SidesOf(in.q) \ {1} : TableAt(in.q, j) = t}}
         \subseteq in.server[t].filtered

(* A query that succeeds over connectors that obey the filters they        *)
(* declared returns what it means: every row of every page and chunk, no   *)
(* row twice, and every cell from the side it was selected from.           *)
ExactResult ==
  stage = "done" /\ out.err = NoError /\ Obedient =>
    /\ {out.rows[k].ids : k \in DOMAIN out.rows} = Meant
    /\ Len(out.rows) = Cardinality(Meant)
    /\ \A row \in ToSet(out.rows) : \A k \in DOMAIN in.q.select :
         LET i == SideOf(in.q, in.q.select[k].alias)
         IN row.vals[k].of = Val(RowOf(i, row.ids[i]), in.q.select[k].col)

(* The two engines merge what was fetched to the same rows, as many times  *)
(* each, whatever the sources sent: "Swapping engines therefore cannot     *)
(* change what a query is allowed to return" (joinengine.go:25-26).        *)
EnginesAgree ==
  stage = "merge" =>
    /\ DuckJoin.err = GoJoin.err
    /\ LET go == GoJoin.rows
           duck == DuckJoin.rows
           times(rows, row) == Cardinality({k \in DOMAIN rows : rows[k] = row})
       IN /\ ToSet(go) = ToSet(duck)
          /\ \A row \in ToSet(go) : times(go, row) = times(duck, row)

(* A plan that Build makes passes the check made of it on every request    *)
(* (invariant.go:31-32: Build "is invariant-preserving by construction").  *)
BuiltPlanPasses ==
  plan # NoPlan => AssertInvariant(plan)
=============================================================================
