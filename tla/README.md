# A TLA+ model of the federated SQL gateway

The gateway (`cmd/gateway`, `internal/...`) takes SQL over several SaaS
applications, checks what the caller may see, compiles the query to calls of
rate-limited connectors, fetches through a cache with a staleness budget, joins
the rows, and answers at once, as a stream, or as a job to poll. This directory
models its Go code (not its design documents: the many things that `DESIGN.md`
proposes and `internal/` does not build are not here), model-checks it with TLC,
and proves with TLAPS what matters most about the page loop and its budgets, the
shared cache, the plan cache, the query and the server.

## The system

| component | state | operations | shared with |
|---|---|---|---|
| `internal/ratelimit` `Limiter` | a bucket `limit, used` per connector | `SetLimit`, `Allow`, `Remaining`, `Gate` | every request, under one mutex; never refilled |
| `internal/connector` `HTTPSource` | none; a `Fetch` has its pages, offset, ETag | `Fetch`: per page gate, request, answer | the limiter, the source |
| `internal/freshness` `Cache`, `Source` | `entries`: key → rows, ETag, `fetchedAt`; a `Source` per request and connector with `CacheHit`, `Revalidated`, `AgeMS` | `Source.Fetch`: live, hit, miss, revalidated | every request, lock held for the lookup and for the store only |
| `internal/plan` | none | `Build`, `Shape`, `ExtractParams`, `ParseTables`, `AssertInvariant` | |
| `internal/catalog`, `internal/policy` | loaded at start, then constant | `Lookup`, `ShapeHash`, `ResidualsFor`, `MasksFor`, `ObjectDenied` | planner, plan cache |
| `internal/plancache` `Cache` | `plans`: key → plan | `Resolve`: lookup, build, store | every request, lock held for the lookup and for the store only |
| `internal/exec` | rows of one query | `Run`: fetches, verification, local filters, semi-join cascade, a join engine (`GoJoin`, or `DuckJoin` with build tag `duckdb`), projection, masks | the sources of its request |
| `internal/server` | `jobs`, `jobSeq` | `handleQuery`, `run`, `runStream`, `startAsync`, `handlePoll` | everything above |
| `internal/identity` | a constant registry: issuer → tenant, roles and attributes of groups | `ResolveFromHeader`: token → principal | every request |
| `internal/obs` | metrics, spans | `DetachTraceContext` and telemetry | |
| `internal/mocksf`, `internal/mockzd` | fixed rows and options, `callCount` | `handleTable`: one page of the filtered rows, or a refusal | the page loop, over HTTP |
| `cmd/gateway`, `test/`, `k6/` | process set-up, tests | | |

**How they interact.** A request is a goroutine. `handleQuery` resolves its token
to a principal, of whose roles the first counts. `buildAndRoute` asks the policy
whether a table is denied, has the plan cache find or build the plan, checks it
with `AssertInvariant`, and makes one `freshness.Source` per connector.
`exec.Run` fetches side after side through them; a `Source` looks in the shared
cache and otherwise runs the page loop of the connector's one `HTTPSource`,
which spends a token of the shared limiter before each page. Afterwards the
server reads the flags that were left on the sources, and the limiter, to report
how fresh the rows are and what is left of the budget. All shared state is
guarded by locks that are *not* held across a call out, so requests interleave
between a lookup and what is done with it.

**What is hard.** The lookup, the call and the store of a cache fill are
separate, while other requests publish, the clock moves and the source's data
changes; a result is read page by page while it changes; tokens are spent page
by page by requests that compete; a 304 vouches for rows that were copied
earlier; a predicate is handed to a connector that may not honour it; keys are
split over several calls; one cached plan serves other literals than those it
was built with; a job outlives its request and may outlive its process. The 39
hazards of `PROJECT.json` are these, at their lines.

**What makes each part correct.**
The budget: no more calls leave than it allows, and every token is accounted for.
The page loop: a whole result or none, under an ETag that describes it.
The cache: no row older than the budget, no age understated, nobody else's rows.
Identity: tenant, role and attributes are what the issuer registered, never what the
token says.
The planner and the executor: the rows the query means and the policy allows,
whatever was pushed, chunked, paged or joined, and whichever engine joined it.
The plan cache: the plan that would have been built, never someone else's.
The server: metadata that describe the request's own fetches, a poll that gets
its own job, an end to every request.

## The modules

| module | models | state and actions |
|---|---|---|
| `SaaS` (external) | the far end of the wire and the clock | `ver`, `superseded`, `clock`; `Change`, `Tick` |
| `RateLimit` | `internal/ratelimit` | `buckets`; `Allow`, `Exhausted`, `Remaining` as parts of the steps that call them |
| `HTTPSource` EXTENDS `SaaS`, `RateLimit` | `internal/connector/httpsource.go` | per goroutine `phase`, `req`, `all`, `etag`, `reply`, `over`, and the histories `sent` and `lost`; one action per point at which the loop meets something shared: `PageGate`/`PageRefused`, `SendPage`/`NotSent`, `AnswerPage`/`AnswerEmpty`/`AnswerNotModified`/`AnswerError`, and `ContextHits` when the context is done (`ContextEnds`: a deadline, or a client that goes away) |
| `Freshness` EXTENDS `HTTPSource` | `internal/freshness` | `entries`, and per request `at`, `now`, `held`, `source`; `Call`, `ReadClock`, `Hit`, `Miss`, `FetchFresh`, `FetchRevalidated`, `FetchFailed`, `LiveReturned` |
| `BoundedStaleness` | nothing: what a cache with staleness budgets owes its callers | `ask`, `got`; `Ask`, `Serve`, `Fail` |
| `Selection` | nothing: a loop that appends what passes a test, as the elements of a sequence at some of its places | |
| `CacheKey` | `cacheKey` of `internal/freshness` | none: the text of a key, over symbols |
| `Identity` | `internal/identity` | none: token and registry → principal |
| `Mocks` | `internal/mocksf`, `internal/mockzd` | none: what a server may answer to one request |
| `Planner` | `internal/plan`, `internal/catalog`, `internal/policy` | none: operators over parsed queries, catalogs and role documents |
| `Query` EXTENDS `Planner`, `Mocks`, `Identity` | one query from its token to its rows: `handleQuery`, `buildAndRoute`, `internal/exec` with both join engines | `stage`, `plan`, `side`, `chunks`, `got`, `fetched`, `out`; `TurnedAway`, `Refuse`, `Admit`, one step per page (`MorePages`, `SourceAnswers`, `SourceRefuses`, `SourceFails`), `NextSide`, `Merge` |
| `QueryMeaning` EXTENDS `Query` | nothing: what each side fetched must be for the answer to be what the query means (`SidesExact`), and the hypotheses under which it is | none: operators of an input and of rows |
| `PlanCache` EXTENDS `Planner`, `Identity` | `internal/plancache`, under the tenants and roles of tokens | `plans`, and per caller `at`, `args`, `built`; `Resolve`, `Hit`, `Miss`, `BuildPlan`, `Store` |
| `Gateway` EXTENDS `RateLimit` | `internal/server` | `jobs`, `jobSeq`, and per request `stage`, `source`, `spent`, `response`, `polled`; `TurnAway`, `Take`, `Refuse`, `Route`, the outcomes of each fetch, `Finish`, `RunFails`, `Panics`, `Cancelled`, `Poll`, `Restart` |
| `AsyncJobs` | nothing: what a 202 promises to whoever polls | `job`, `told`; `Submit`, `Settle`, `Tell`, `Lose` |
| `MCHTTPSource`, `MCFreshness`, `MCQuery`, `MCPlanCache`, `MCGateway` | | the values TLC is given |
| `HTTPSourceProofs`, `FreshnessProofs`, `FreshnessRefinement`, `PlannerProofs`, `PlanCacheProofs`, `QueryProofs`, `GatewayProofs`, `GatewaySafety` | | the theorems; each EXTENDS the module it is about, and the proofs of the modules below that |

The data of a connector is a version number; what a version holds is
`ContentOf[version]`, so that an edit that is edited back can be told from no
edit; a page is its version, its place and whose request it was sent for. That
is all that staleness, wholeness and ownership can tell apart. An ETag is the
content, as `mocksf` hashes it; a connector outside `SendsETag` sends none, as
`mockzd`. `superseded` remembers when a version ended, for the properties only.

`Query` abstracts the other way: rows have values, and the source behind a table is
one of the two servers of `Mocks`, with a page size, a call limit, an IN-list limit,
hidden columns, and the columns it really filters by; it may also fail. The pages of
one fetch are collected in `got`. The merge takes either engine: `GoJoin` folds
`hashJoinOn` over the links, `DuckJoin` is what its SQL statement means, a selection
from the cross product, with the two early returns of the code before it. The
principal is what `Identity` makes of the token and the registry; the properties
state what is owed from the registry itself (`RoleOwed`, `SetBy`), without its folds.
A row carries a ghost `id`, which no definition of the code reads, so
that the output can be compared with `Meant`, the reference: the tuples of rows
that satisfy the ON and WHERE conditions and the residuals, with no pushdown,
chunks or join order.

*Written so that it can be proved about.* A loop that keeps what passes a test is
`Chosen(s, places)` of `Selection`, not `SelectSeq`, which takes the test as an operator;
and a value that a loop overwrites is the one at the `Latest` place. The conjuncts,
filters, roles and attributes of `Planner` and `Identity` have this form; it is the
same function of the same inputs.

`CacheKey` builds the key of a request as `cacheKey` does, from texts that are
sequences of symbols. `MCFreshness` instantiates `KeyOf` with it, so a mistake in
the key is a mistake in the model; `InOrder` stands for `sort.Strings` as some fixed
order of a set, which is all that the key relies on.

`Gateway` in turn keeps of a fetch only what the response tells of it. Whether a
lookup hits is left open there; `Freshness` decides it. The two are composed by
abstraction and not by INSTANCE: the product of their interleavings would be out
of TLC's reach and neither set of properties reads the other's state. `KeepsJobs` says that
`Gateway` implements `AsyncJobs`: the job of a request is the one its 202 named, and
what a poll is told is `pending`, or `done` with the outcome of that very request;
an id that is not found, or that is a stranger's, maps to a value that the promise
does not have. The promise has weak fairness on `Settle`, so the refinement is also
one of liveness.

Definitions that say *Variant* are plausible mistakes. No specification uses them;
each is there to show that the property beside it would notice.

## The runs

`CHECK_DEADLOCK` is on where nothing bounds the actors (`budget`, and the query
runs, which stutter when done). It is FALSE where each actor has a bounded number
of requests and the system rightly stops after them. Symmetry is used over actors
only, which no definition tells apart, and in no run with a liveness property.

| run | about | states |
|---|---|---|
| `budget` | three goroutines page through one connector with three calls to spend, while its data changes, is edited back, answers 304 and sends empty pages, requests fail before and after they leave, deadlines pass and clients go away; with the invariant `HTTPInv` of the proofs | 950 k |
| `answered` | two requests over the cache; one has a deadline and may be left without an answer, which is then the only thing that ends its fetch, the client of the other may go away; a source that sends empty pages is ended by the budget | 96 k |
| `shared` | two requests of one principal, twice each, over one entry, while the data changes and changes back: `StalenessBound`, `AgeIsHonest`, `EntriesHonest`, the invariant `IInv` of the proofs, and the refinement of `BoundedStaleness` | 614 k |
| `principals` | two principals, two tables of two connectors (one without ETags, one with a budget that runs out) under the keys of `CacheKey`, failures, 304s that nobody asked for, also over an entry that has no ETag and is past its staleness budget: own rows, whole rows, and the invariant `OwnInv` of their proofs | 325 k |
| `entitlement_and_meaning` | nine queries × catalogs × roles × all subsets of two small tables; tokens of strangers and of several groups; servers that ignore filters, hide columns, or take fewer calls or keys than needed; both engines, which must agree; probes that do not depend on row order; `SidesExact`, the heart of the proof about meaning, at every step, and its hypotheses evaluated for all these inputs (`HypothesesHold`) | 159 k |
| `transparent` | two callers of the plan cache; any of five statements (two that differ in a literal, a join, an unknown table, one that Build refuses), two catalogs, two policies of one version, tokens of two tenants and three roles; with the invariant `CacheInv` of the proofs | 23 k |
| `served` | two requests of different kinds (of cached JSON join, stream with a timeout, job, denied, turned away) or two jobs, up to two pages per fetch, a budget of two, failures of the source and of the query, panics, vanished clients, polls, a restart; the invariant `IInv` of the proofs and the refinement of `AsyncJobs` | 256 k |
| `keypushed`, `operator`, `sameresidual` | disagreements in the planner and executor, below | |
| `cachehit`, `frame` | disagreements in the server, below | |

**The bounds.** *Two versions and two pages* are enough for a torn result: a
change between its pages. `budget` and `shared` add a third version, so that content
can come back, and `budget` results whose page count differs between versions. In
`shared` torn rows are reached whose first page is confirmed by a 304, so the exception
in its properties is used, and answers that are not the data of one version. *Four calls*
there let two fetches that both missed publish in either order. *Two requests of
two fetches* are the least with which one request publishes between the other's
clock reading, lookup and store, overwrites a later entry, and then hits what it
wrote. *Clock up to 2 with a budget of 1* gives an entry within, at, and beyond
its budget; `principals` has it with a budget of 0, the uncached path, or 1, and data
that does not change, which neither wholeness nor ownership needs. *Budget 3 for 2-page
results* runs out between pages. *Three and four rows per table*, all subsets,
with a key that matches twice, once, never and is empty: join multiplicities,
empty sides and empty keys; *IN-lists of 1 and 2* for at most two distinct keys:
exact, split and single chunks; 0 is "no capacity given". *Pages of two and three
rows* make one, two or exactly full pages of those tables, and *a call limit of 3*
runs out within a probe. *One call each* suffices
for `transparent`: a second caller finds what the first stored, or races it; an
entry is written once per key and never evicted. *Pairs of different kinds, or two
jobs,* in `served`: two requests of one kind meet over the budget as a join and a job
do, and only jobs share anything else. The jobs fetch uncached: what a response says
of the cache does not depend on who delivers it, and the join has it. *One restart* lets a
job be lost and its id be given out again. `MaxVersion`, `MaxClock`, `MaxFetches`,
`MaxCalls`, `MaxPages` and `MaxRestarts` are bounds of the model, not of the code.

**Fairness.** Goroutines run on (weak fairness on the steps of the code itself:
`FetchStep`, `Own`), and a timer that was set fires (`ContextEnds` of
a fetcher with a deadline, `TimesOut`). A
source that answers is assumed *only* for a request without a deadline:
`http.Client` there has no timeout of its own, so such a request relies on its
source, and the code guarantees no more. No fairness is assumed of clients (nor that they go away: `ContextEnds` is fair for
`Deadlined`, not for `Attended`), polls,
panics, restarts, data changes or the clock. In `Gateway` the timer of a query that
has a timeout fires, and the sources answer the others. Where there is no fairness
and no liveness property, the run checks `Spec`.

## What is proved

With TLAPS, for any number of requests, goroutines, connectors, principals, tables,
rows, pages and versions, and any budgets, queries, catalogs, policies and tokens.
Every safety property that a passing run checks is here.

| module | theorem | says |
|---|---|---|
| `HTTPSourceProofs` | `HTTPTypeCorrect`, `HTTPInvariant` | `HTTPSpec => [](HTTPTypeOK /\ HTTPInv)` |
| | `BudgetKept` | no connector gets more calls than its budget, whoever pages through it |
| | `TokensBuyCalls` | every spent token bought a call, is in hand, or was lost with a request that never left, which takes a context that is done or a transport that fails |
| | `NothingTruncated` | a whole result or none |
| | `NotModifiedReplacesNothing` | a 304 discards no pages (*`HonestSource`*) |
| | `EtagsVouch` | an ETag that is current, or current again, vouches for every page of its result but those of an edit since undone |
| `FreshnessProofs` | `TypeCorrect` | `Spec => []FreshTypeOK` |
| | `InvariantHolds` | `Spec => []IInv` (*`KeysDistinct`, `HonestSource`*) |
| | `StalenessBounded` | nothing replaced longer ago than the budget before the call is returned, but for pages of an edit since undone (*the same*) |
| | `ExactlyBounded` | no exception on first pages, without ETags, or where no content comes back (*the same*) |
| | `EntriesAreHonest`, `AgesAreHonest` | dates of entries and ages of hits never overstate freshness (*the same*) |
| | `OwnershipHolds` | `Spec => []OwnInv` |
| | `AnswersAreWhole` | a fetch that succeeds returns pages 1..n, the n-th the last |
| | `RowsAreOwn` | rows returned were sent for the asker's principal and signature (*`KeysDistinct`*) |
| | `LoopsRunAsDescribed` | `Spec => HTTPSpec`: under the cache, the page loop is `HTTPSource`, asked about ETags its source once sent (*`KeysDistinct`*) |
| | `CachedBudgetKept` | so the budgets hold for the process with its cache (*`KeysDistinct`*) |
| `FreshnessRefinement` | `CacheKeepsPromise` | `Freshness` implements `BoundedStaleness` (*as `InvariantHolds`*) |
| `PlanCacheProofs` | `TypeCorrect`, `CacheInvariant` | `Spec => []TypeOK`, `Spec => []CacheInv` (*`CapShapesTell`*) |
| | `CacheIsTransparent` | a call returns the plan Build makes of its own arguments, and fails when Build does (*`CapShapesTell`*) |
| | `EntriesNeverChange` | no step changes or drops an entry (*`CapShapesTell`*) |
| | `PlansAreOwn` | a plan is served to the tenant and role it was built for only, as the issuer registered them |
| `QueryProofs` | `TypeCorrect` | `Spec => []TypeOK` |
| | `DeniedReadsNothing` | no call leaves for a query of which some table is denied, or a caller without a role |
| | `ProbesAreSmall`, `ProbesAreStable` | no probe is longer than its connector takes; probes do not depend on row order |
| | `AnswersAreEntitled` | every row behind an output row satisfies the caller's row policy and its masks are applied, through either engine (*`EqualityResiduals`*) |
| | `EnginesMergeAlike` | `GoJoin` and `DuckJoin` return the same rows, each as often, and the same error |
| | `SidesAreExact` | what has been fetched of each side is exactly what the query needs of it, each row once (*`ConjunctsReachSources`*) |
| | `AnswersAreExact` | an answer from connectors that obey is what the query means: each tuple of rows once, no other (*`EqualityResiduals`, `ConjunctsReachSources`*) |
| `GatewaySafety` | `TypeCorrect`, `RequestsSound` | `Spec => []TypeOK`, `Spec => []IInv` |
| | `RatesCover`, `SummariesAreWorst` | the budget and the freshness reported are those after, and the worst of, the request's own fetches |
| | `JobsOutliveRequests`, `JobsAreSettledOnce` | a job is not cancelled with its request, stays, and once done stays as it is |
| | `GatewayKeepsJobs` | every step of `Gateway` is one of `AsyncJobs` or a stutter |

*Assumptions.* The named ASSUMEs of the modules: kinds of the constants, what a parsed
query looks like, that a server's hidden columns and limits are well-formed; TLC evaluates
them on every run. A theorem in whose row a name is set in *italics* has it as a
hypothesis, a real condition on the world (What does not hold says what happens
without it):

- `HonestSource`: no source answers 304 to a request that carried no ETag.
- `KeysDistinct`: two requests for different data have different cache keys, as the
  requests of the runs have; what would break it is a separator within a name.
- `CapShapesTell`: catalogs that agree on a table's predicates and masking agree on its
  IN-lists. `OneCatalog` proves it of a process that keeps the catalog it has loaded, and
  TLC evaluates it on the two of `MCPlanCache` (`ShapesTell`).
- `EqualityResiduals`: the row policies of roles that queries run for use `=`, as those of
  `testdata` do; the run `operator` is its negation.
- `ConjunctsReachSources`: the conjuncts of a WHERE compare with `=`, no two that are pushed
  on one column ask for different values, and none that is pushed on a probe is on the
  column of its IN-list; the run `keypushed` is the negation of the last part.

TLC evaluates the last two on every input of `entitlement_and_meaning`.

*The page loop.* `HTTPInv`: what a fetch in progress holds are the first pages of one
result, in order, none the last, under the ETag of the first (`LoopSound`); and `used` of a
bucket is calls sent, plus tokens in hand, plus those lost with requests that never left
(`SpentBuysCall`, with the cardinality of `HoldingToken`). The budget follows from
`used <= limit`, which only `Allow` touches.

*The cache, and time.* `StalenessBound` speaks of answers; to know it is kept one must
know what can be in an entry, in the copy taken under the lock, and in the pages
collected so far. `IInv` says so: a fetcher's clock readings are in order
(`ClockInOrder`); the page loop runs for the fetch in progress and for its tag
(`LoopIsOwn`); pages collected are of that tag, were current when the clock was
read or later, are in order, and the first is the oldest (`PagesSound`); the ETag
sent is that of the copy held (`HeldSound`); a reply is a whole sound result, or
a 304 and then *every* page held is current (`ReplySound`); entries are whole and
no older than `fetchedAt` (`EntriesSound`). The crux is the 304 (`PageVouched`): the
source has the content of the first page, and a later page is no older than the first
and no newer than the source. Either it holds that content too, or it lies strictly
between two versions that have it: an edit that has been undone, which no ETag of the
first page can show (`Undone`). This is where the order of pages and the ETag of the
*first* page are needed; the `Variant`s of these definitions break it. What is undone
stays so and `World` steps only move the clock and supersede versions, so lemmas on
`AsFreshAs` cover them once for all conjuncts (`WorldKeepsFreshness`); the steps of the
code leave the data alone (`DataUntouched`). `ExactlyBounded` then says where the
exception is empty: `ContentsDistinct` (no content comes back) is a case of it, no
longer an assumption.

*The cache, and whose rows.* None of that is needed to know that rows are whole and
whose they are, so `OwnInv` is an invariant of its own, over sources that answer what they
like: pages, copy, entry and answer are of one tag and the last two whole, and the
ETags kept are ones that the source of the key sent. The last conjunct is what
`LoopsRunAsDescribed` needs: `HTTPSource` lets its caller ask about such ETags only.

*The refinement* of `BoundedStaleness` maps a fetch in progress to an open `ask` with its
tag, the instant it was called and its budget, and the last answer to `got`. `Call` is
`Ask`; the five ways to return are `Serve` or `Fail`; all else stutters.

*The plan cache.* `CacheInv`: an entry is what Build makes of *some* arguments that have its
key. It suffices since arguments with one key have one plan (`SameKeySamePlan`), which
`AlikePlans` of `PlannerProofs` reduces to: a plan depends on the shape of the statement, not
on its literals, on the tables' capabilities, and on the role's document.

*The query.* `QInv` describes the three states of a query. Before it is admitted nothing was
fetched. While it runs (`Busy`), each side fetched consists of rows of its own table that
clear every security filter of that side: a pushed filter because `Verified` looks again at
what a source returned, any other because it is applied locally; every probe sent is within the
capacity of its connector. Once answered, each output row has a tuple of such rows behind it.
That the two engines keep this is proved of their folds one step at a time: a fold over a set
is a run of its step (`IsRun`, `Iterates`), and a partial tuple whose rows are cleared stays
so when a row of another side is joined (`PartialGrows`).

*The two engines.* A pick is a place among the fetched rows for each of the first m sides.
What is joined so far lists the picks that the links so far allow: there is a bijection from
its places to those picks, and each row is the one that its pick makes (`Lists`). One
concatenated join extends the bijection by a side (`JoinLists`, over `FlattenTakes`: the places
of a concatenation are those of its parts), the product that DuckDB filters has one with all
picks, and two lists of the same picks have the same rows, each as often (`SamePicks`), so
duplicates are counted and not just found. That the engines fail alike needs that the key
columns of a link are among those its scans ask for (`KeyColumnsCome`).

*The meaning.* `XInv` says what has been fetched, page by page. What a side needs are the
rows of its table that pass all its filters and whose key the side before it has (`Asked`);
of the sides done it has each of these once (`Comes`); of the side in progress those that no
chunk still waits for; the pages in hand are the first of what the server finds (`Read`);
and no row belongs to two chunks, or to one that is not needed (`ChunksFitIn`), which is where
the arithmetic of `chunkStrings` comes in. A source that obeys finds by the filters it was sent,
which are the pushed ones only if none replaced another: hence the hypothesis. At the end the
bijection of `Lists` joins output rows and picks (`ShowsHits`), and another joins picks and
`Meant` (`HitsAreMeant`): it is injective because rows come once, a pick is meant because its
rows passed and its links hold, and a tuple that is meant has its rows fetched, or there would
be a least side at which one is missing, though the side before it has the key.

*The server.* `IInv`: what a request has spent is in the bucket it reports, flags of a source
are at least as bad as those of its fetches, and a ticket of this life is a key of `jobs`, names
the request that holds it, and no two requests hold the same.

*Only model-checked*: liveness (`EveryFetchAnswered`, `EveryRequestEnds`) and the
fairness half of `KeepsJobs`; and the five disagreements. *Out of the prover's reach*:
liveness under fairness and ENABLED, and induction by the library's theorems: where a proof
must follow a recursive function, it takes the least argument at which it goes wrong.

## What does not hold

Five runs end in a counterexample; each states what a comment of the code says.

- `keypushed` (`ExactResult`): `fetchScanRows` puts the join keys of a probe under
  the map key of a predicate pushed on the same column (`exec.go:209-214`). The
  predicate is then neither sent nor applied: rows of other keys come out.
- `operator` (`EntitledOutput`): residuals are evaluated for equality whatever their
  operator (`exec.go:386`, `exec.go:411`). A residual `region != x` returns exactly
  the rows it should hide. The policies in `testdata` use `=` only.
- `sameresidual` (`BuiltPlanPasses`): `AssertInvariant` identifies security filters by
  text (`invariant.go:66-72`), so two tables with one residual, enforced for one of
  them, make a plan that Build made fail its own check: the query is refused.
- `cachehit` (`CacheHitMeansAll`): flags on a `Source` are set and never cleared, and
  a `Source` serves several fetches of a query; a hit then a miss reports a hit.
- `frame` (`FrameRateCurrent`): the terminal frame of a stream has the budget from
  before its own calls (`server.go:391-396`).

Others are known from the code, and the properties or configurations leave them out:

- Of two conjuncts that are pushed on one column with different values, only the last visited
  is sent (`exec.go:209`), and the other is applied nowhere. `HypothesesHold` shows that no
  query of `entitlement_and_meaning` has two such.
- A token is spent at the gate (`httpsource.go:53-54`) and not given back when its request
  never leaves: it cannot be built (`httpsource.go:101-104`), `client.Do` fails before
  anything is sent (`httpsource.go:112-115`: connection refused, DNS, TLS), or the context
  is done by then, because a deadline passed or the client went away (`server.go:171` hands
  on `r.Context()`). `SpentBuysCall` counts each such token in `lost`, and claims that
  nothing else loses one. In `budget` all of these happen, so it checks the count; that none
  is lost while contexts last and the transport works is what `TokensBuyCalls` proves.
- A result read while its data is edited and edited back is torn, and the ETag of
  its first page later vouches for it (`connector.go:37-38` takes a 304 for "the caller
  already has the current data"): a page of it may then be of any age. `EtagVouches`,
  `StalenessBound`, `AgeIsHonest`, `EntriesHonest` and `BoundedStaleness` except just
  that page (`Undone`), never the first one, and nothing else.
- A source that answers 304 to an unconditional request yields, on the uncached path,
  a success without rows (`freshness.go:112-114`), and on the cached path extends an
  entry that has no ETag (`freshness.go:157-159`): its rows may be of any age. In
  `principals` sources do answer so, and `AnswerIsWhole`, which exempts the uncached
  path then, and `OwnRows` still hold, as `AnswersAreWhole` and `RowsAreOwn` prove.
  `HonestSource` excludes it in the theorems about time, and the other cfgs give
  `Unasked304` FALSE.
- `catalog.ShapeHash` leaves out whether IN-lists are supported and how long they may
  be, so a plan cached under one capacity survives a catalog with another. The two
  catalogs of `transparent` differ in what is enforced only, and the theorems assume
  `CapShapesTell`. The program loads one catalog at start, so this cannot happen in it.
- `cacheKey` joins strings with separators it does not escape
  (`freshness.go:213-236`): an IN-list of the keys x and y and one of the single key
  `x+y` have one key. `PlusInKeyCollides`, an ASSUME of `MCFreshness`, has TLC evaluate
  the example. The requests of the runs have texts that do not collide; the theorems
  assume it as `KeysDistinct`.
- `AgeMS` on a source is that of its last fetch, so the age reported for a query that
  fetches twice through one connector is not its worst; `SummaryIsWorst` is stated
  for queries that fetch once per connector.
- After a restart budgets are full and job ids start at 1 again: an old 202 may poll
  another caller's job or none. `AsyncJobs` promises nothing beyond one life.
- A source that reports `has_more` with an empty page is asked for that offset again
  (`AnswerEmpty`), each time for a token. `EveryFetchAnswered` is checked with such
  sources under a budget or a deadline; with neither the loop never ends.
- A principal of several groups has the role of the first group that has one, and of
  each attribute the value of the last group that sets it, role or no role
  (`server.go:143-146` calls the first "v1 simplification"). `RoleOwed` and `SetBy`
  state just that.
- `GoJoin` ignores its context, and a fetch answered from the cache never looks at
  one: a deadline is noticed only while a call is in flight.
- A connector that ignores the IN-list of keys returns its rows once per chunk, and
  they come out once per chunk. `ExactResult` is claimed of connectors that obey.

## What is not modelled

- **DuckDB itself**: `DuckJoin`'s statement is taken to mean what SQL says; running out
  of memory, driver errors and the stub of builds without the tag, which always fails,
  are left out.
- **ORDER BY, LIMIT and OFFSET**: they parse, and `Build` ignores them (the repository's
  `README.md:105`), so a parsed query of `Planner` has no such field, and `ExactResult` and
  `AnswersAreExact` speak of the query without them.
- **Retries inside `net/http`**: it may resend a request on a kept-alive connection that
  turns out to be closed. `sent` counts calls of `client.Do`.
- **SQL parsing** (`sqlparser`), the text of predicates, literals and masks: queries
  are the structure the parser returns. `VerdictFor`, a lookup by text for logs.
- **ETags in `Mocks`**: its servers have fixed rows; ETags, 304s and rows that change
  are in `SaaS` and `HTTPSource`. A query in `Query` does not go through the cache.
- **Telemetry**, HTTP statuses and wording, JSON decoding, loading of files, flags,
  signals; delays and data generation of the mock servers; the test and load harness.
- Test hooks: `SetClock`, `Reset`, `RemoveFilter`.
- Polls of ids that no 202 gave out: a client polls with the URL of its own 202.

## Plan

Done, in this order: `RateLimit`, `HTTPSource`, `Freshness` with its proofs and
`BoundedStaleness`; `Planner`, `Query`; `PlanCache`; `Gateway`; then `CacheKey`,
`Mocks` and paging in `Query`, the second join engine, `Identity` under `Query` and
`PlanCache`, empty pages and unasked 304s, and `AsyncJobs`.

Proved since: the page loop and its budgets, the cache without its hypotheses where it
does not need them, the plan cache, entitlement, probes, join engines and meaning of the
query, and the server's jobs and metadata; and `IInv` of `Freshness` over contents that
come back, which had been assumed away.

What the model could still take in: `Gateway` over an abstract cache in place of an
open choice between hit and miss, and deadlines that pass outside of a call.
