------------------------------ MODULE Gateway -------------------------------
(***************************************************************************)
(* internal/server: the requests of the process side by side, each taken   *)
(* by a handler (handleQuery: run or runStream) or, with Prefer:           *)
(* respond-async, by a goroutine of its own that leaves its outcome under  *)
(* a job id (startAsync, handlePoll).                                      *)
(*                                                                         *)
(* Query and Freshness say what a fetch returns; here a fetch is only what *)
(* the response tells of it: was it a hit and of what age, which tokens    *)
(* did it spend, how did it fail.  Whether a lookup hits is left open.     *)
(*                                                                         *)
(* A query is [mode, known, admitted, conns, fetches, cached, timeout]:    *)
(* where the outcome goes, whether the body can be read and the token      *)
(* stands for a principal with a role, whether buildAndRoute lets it       *)
(* through, the connectors it names, the connectors of the fetches that    *)
(* exec makes, in order, and whether it carries a max_staleness and a      *)
(* timeout.                                                                *)
(***************************************************************************)
EXTENDS RateLimit, Sequences, FiniteSets

CONSTANTS
  Request,      \* the requests
  Query,        \* the queries they may carry
  Age,          \* the ages of a cache hit
  MaxPages,     \* bound on the pages of a fetch
  MaxRestarts   \* bound on the restarts of the process

ASSUME GatewayAssumption ==
  /\ Age \subseteq Int
  /\ MaxPages \in Nat \ {0}
  /\ MaxRestarts \in Nat

ASSUME QueryAssumption ==
  \A q \in Query : /\ q.mode \in {"json", "stream", "async"}
                   /\ IsFiniteSet(q.conns)
                   /\ q.fetches \in Seq(q.conns)
                   /\ {q.known, q.admitted, q.cached, q.timeout} \subseteq BOOLEAN

VARIABLES
  stage,      \* request -> where its handler or goroutine is
  query,      \* request -> the query it carries
  over,       \* request -> is r.Context() done?
  made,       \* history: request -> its fetches: [conn, how, age]
  pages,      \* request -> pages asked for by its fetch in progress
  spent,      \* history: request -> connector -> tokens it spent
  source,     \* request -> connector -> CacheHit, Revalidated, AgeMS
  frame,      \* request -> what runStream put in the frame before exec
  response,   \* request -> the outcome written to the client
  ticket,     \* request -> the job id of its 202, 0 for none
  polled,     \* request -> what its last poll was told
  jobs,       \* Server.jobs: id -> [done, out]
  jobSeq,     \* the last job id given out
  life,       \* history: restarts so far
  born        \* history: request -> the life it was taken in

fetchVars == <<made, pages, spent, source, frame>>
jobVars == <<jobs, jobSeq, ticket, polled>>
lifeVars == <<life, born>>
vars == <<buckets, stage, query, over, fetchVars, response, jobVars, lifeVars>>

Connectors == UNION {q.conns : q \in Query}
NewSource == [cacheHit |-> FALSE, revalidated |-> FALSE, ageMS |-> 0]
NoRate == [c \in {} |-> 0]
NoSummary == [cacheHit |-> FALSE, revalidated |-> FALSE, ageMS |-> 0]

Outcome(r, err, summary, rate) ==
  [trace |-> r, err |-> err, summary |-> summary, rate |-> rate]

NoOutcome(r) == Outcome(r, "none yet", NoSummary, NoRate)
NoJobs == [i \in {} |-> [done |-> FALSE]]
NoPoll(r) == [life |-> -1, found |-> FALSE, done |-> FALSE, out |-> NoOutcome(r)]

(* What a request starts with. *)
NotOver == [r \in Request |-> FALSE]
NoneMade == [r \in Request |-> <<>>]
NoPages == [r \in Request |-> 0]
NoneSpent == [r \in Request |-> [c \in Connectors |-> 0]]
NewSources == [r \in Request |-> [c \in Connectors |-> NewSource]]
NoOutcomes == [r \in Request |-> NoOutcome(r)]

Init ==
  /\ RateLimitInit
  /\ stage = [r \in Request |-> "new"]
  /\ query \in [Request -> Query]
  /\ over = NotOver
  /\ made = NoneMade
  /\ pages = NoPages
  /\ spent = NoneSpent
  /\ source = NewSources
  /\ frame = NoOutcomes
  /\ response = NoOutcomes
  /\ ticket = [r \in Request |-> 0]
  /\ polled = [r \in Request |-> NoPoll(r)]
  /\ jobs = NoJobs
  /\ jobSeq = 0
  /\ life = 0
  /\ born = [r \in Request |-> 0]

Mode(r) == query[r].mode
Running(r) == stage[r] \in {"route", "fetch", "gate", "wait"}

----------------------------------------------------------------------------

(* Variant: one source that hit makes the answer a hit. *)
SummarizeAny(flags) ==
  LET ages == {flags[c].ageMS : c \in DOMAIN flags} \cup {0}
  IN [cacheHit |-> \E c \in DOMAIN flags : flags[c].cacheHit,
      revalidated |-> \E c \in DOMAIN flags : flags[c].revalidated,
      ageMS |-> CHOOSE a \in ages : \A b \in ages : b <= a]

(* summarizeFreshness, over one Source per connector. *)
Summarize(flags) ==
  LET ages == {flags[c].ageMS : c \in DOMAIN flags} \cup {0}
  IN [cacheHit |-> DOMAIN flags # {} /\ \A c \in DOMAIN flags : flags[c].cacheHit,
      revalidated |-> \E c \in DOMAIN flags : flags[c].revalidated,
      ageMS |-> CHOOSE a \in ages : \A b \in ages : b <= a]

SummaryOf(r) == Summarize([c \in query[r].conns |-> source[r][c]])

(* rateLimitStatus: -1 stands for "unlimited". *)
RateStatus(r) == [c \in query[r].conns |-> Remaining(c)]

(* resultOutcome: what run reports of a success, read after exec.Run. *)
Envelope(r) == Outcome(r, "none", SummaryOf(r), RateStatus(r))

(* The terminal frame of runStream: freshness and budget were read before  *)
(* exec.Run, and are there on an error too.                                *)
Frame(r, err) == [frame[r] EXCEPT !.err = err]

Succeeded(r) == IF Mode(r) = "stream" THEN Frame(r, "none") ELSE Envelope(r)
Failed(r, err) ==
  IF Mode(r) = "stream" THEN Frame(r, err)
  ELSE Outcome(r, err, NoSummary, NoRate)

(* The outcome is written to the client, or kept under the job id. *)
Deliver(r, o) ==
  /\ stage' = [stage EXCEPT ![r] = "ended"]
  /\ IF Mode(r) = "async"
     THEN /\ jobs' = [jobs EXCEPT ![ticket[r]] = [done |-> TRUE, out |-> o]]
          /\ UNCHANGED response
     ELSE /\ response' = [response EXCEPT ![r] = o]
          /\ UNCHANGED jobs
  /\ UNCHANGED <<query, over, jobSeq, ticket, polled, lifeVars>>

To(r, s) ==
  /\ stage' = [stage EXCEPT ![r] = s]
  /\ UNCHANGED <<query, over, response, jobVars, lifeVars>>

----------------------------------------------------------------------------

(* Variant: the id is read, and never counted up. *)
SameJobId == 1

(* jobSeq.Add(1) *)
NextJobId == jobSeq + 1

(* A request that cannot be read, or comes from nobody with a role, is     *)
(* answered by handleQuery itself, whatever it prefers: no job is started. *)
TurnAway(r) ==
  /\ stage[r] = "new"
  /\ ~query[r].known
  /\ stage' = [stage EXCEPT ![r] = "ended"]
  /\ born' = [born EXCEPT ![r] = life]
  /\ response' = [response EXCEPT ![r] =
                    Outcome(r, "turned away", NoSummary, NoRate)]
  /\ UNCHANGED <<buckets, query, over, fetchVars, jobVars, life>>

(* handleQuery takes the request; startAsync stores the job and answers    *)
(* 202 before the query has started.                                       *)
Take(r) ==
  /\ stage[r] = "new"
  /\ query[r].known
  /\ stage' = [stage EXCEPT ![r] = "route"]
  /\ born' = [born EXCEPT ![r] = life]
  /\ IF Mode(r) = "async"
     THEN /\ jobSeq' = NextJobId
          /\ ticket' = [ticket EXCEPT ![r] = NextJobId]
          /\ jobs' = [i \in DOMAIN jobs \cup {NextJobId} |->
                        IF i = NextJobId
                        THEN [done |-> FALSE, out |-> NoOutcome(r)]
                        ELSE jobs[i]]
     ELSE UNCHANGED <<jobSeq, ticket, jobs>>
  /\ UNCHANGED <<buckets, query, over, fetchVars, response, polled, life>>

(* buildAndRoute refuses the query: no call has left for it. *)
Refuse(r) ==
  /\ stage[r] = "route"
  /\ ~query[r].admitted
  /\ Deliver(r, Failed(r, "refused"))
  /\ UNCHANGED <<buckets, fetchVars>>

(* One new Source per connector; runStream fills in its frame now. *)
Route(r) ==
  /\ stage[r] = "route"
  /\ query[r].admitted
  /\ To(r, "fetch")
  /\ frame' = IF Mode(r) = "stream"
              THEN [frame EXCEPT ![r] =
                      Outcome(r, "none yet", SummaryOf(r), RateStatus(r))]
              ELSE frame
  /\ UNCHANGED <<buckets, made, pages, spent, source>>

----------------------------------------------------------------------------
(* exec.Run, fetch by fetch. *)

Fetching(r) == Len(made[r]) < Len(query[r].fetches)
Conn(r) == query[r].fetches[Len(made[r]) + 1]

(* Variant: the page loop goes on where the last one stopped. *)
FetchedOn(r, how, age) ==
  /\ made' = [made EXCEPT ![r] =
                Append(@, [conn |-> Conn(r), how |-> how, age |-> age])]
  /\ To(r, "fetch")
  /\ UNCHANGED pages

Fetched(r, how, age) ==
  /\ made' = [made EXCEPT ![r] =
                Append(@, [conn |-> Conn(r), how |-> how, age |-> age])]
  /\ pages' = [pages EXCEPT ![r] = 0]
  /\ To(r, "fetch")

CacheHit(r) ==
  /\ stage[r] = "fetch"
  /\ Fetching(r)
  /\ query[r].cached
  /\ \E age \in Age :
       /\ Fetched(r, "hit", age)
       /\ source' = [source EXCEPT ![r][Conn(r)] =
                       [@ EXCEPT !.cacheHit = TRUE, !.ageMS = age]]
  /\ UNCHANGED <<buckets, spent, frame>>

CacheMiss(r) ==
  /\ stage[r] = "fetch"
  /\ Fetching(r)
  /\ To(r, "gate")
  /\ UNCHANGED <<buckets, fetchVars>>

PageAllowed(r) ==
  /\ stage[r] = "gate"
  /\ Allow(Conn(r))
  /\ spent' = [spent EXCEPT ![r][Conn(r)] = @ + 1]
  /\ pages' = [pages EXCEPT ![r] = @ + 1]
  /\ To(r, "wait")
  /\ UNCHANGED <<made, source, frame>>

PageRefused(r) ==
  /\ stage[r] = "gate"
  /\ Exhausted(Conn(r))
  /\ Deliver(r, Failed(r, "exhausted"))
  /\ UNCHANGED <<buckets, fetchVars>>

MorePages(r) ==
  /\ stage[r] = "wait"
  /\ pages[r] < MaxPages
  /\ To(r, "gate")
  /\ UNCHANGED <<buckets, fetchVars>>

(* The last page, or a 304, which may come after pages without rows: only  *)
(* the cached path dates its rows.                                         *)
SourceAnswered(r) ==
  /\ stage[r] = "wait"
  /\ \E revalidated \in {FALSE, query[r].cached} :
       /\ Fetched(r, IF revalidated THEN "revalidated" ELSE "fresh", 0)
       /\ source' =
            IF query[r].cached
            THEN [source EXCEPT ![r][Conn(r)] =
                    [@ EXCEPT !.ageMS = 0,
                              !.revalidated =
                                source[r][Conn(r)].revalidated \/ revalidated]]
            ELSE source
  /\ UNCHANGED <<buckets, spent, frame>>

SourceFailed(r) ==
  /\ stage[r] = "wait"
  /\ Deliver(r, Failed(r, "source"))
  /\ UNCHANGED <<buckets, fetchVars>>

(* exec.Run fails by itself, before, between or after its fetches: a       *)
(* source that broke its promise, a local filter, the join, a parameter.   *)
RunFails(r) ==
  /\ stage[r] = "fetch"
  /\ Deliver(r, Failed(r, "run"))
  /\ UNCHANGED <<buckets, fetchVars>>

(* context.WithTimeout, if the request carries a timeout. *)
TimesOut(r) ==
  /\ stage[r] = "wait"
  /\ query[r].timeout
  /\ Deliver(r, Failed(r, "timeout"))
  /\ UNCHANGED <<buckets, fetchVars>>

(* Variant: the goroutine of a job runs under r.Context(). *)
RequestContext(r) == over[r]

(* The context of the query is done; that of a job is detached from the    *)
(* request (obs.DetachTraceContext) and never is.                          *)
ContextDone(r) == over[r] /\ Mode(r) # "async"

Cancelled(r) ==
  /\ stage[r] = "wait"
  /\ ContextDone(r)
  /\ Deliver(r, Failed(r, "cancelled"))
  /\ UNCHANGED <<buckets, fetchVars>>

Finish(r) ==
  /\ stage[r] = "fetch"
  /\ ~Fetching(r)
  /\ Deliver(r, Succeeded(r))
  /\ UNCHANGED <<buckets, fetchVars>>

(* Variant: the deferred recover forgets the job. *)
JobForgotten(r) ==
  /\ Running(r)
  /\ To(r, "ended")
  /\ UNCHANGED <<buckets, fetchVars>>

(* A panic is one request's: net/http recovers that of a handler, whose    *)
(* client sees the connection close, and the deferred recover of           *)
(* startAsync that of a job.                                               *)
Panics(r) ==
  /\ Running(r)
  /\ Deliver(r, Outcome(r, "panic", NoSummary, NoRate))
  /\ UNCHANGED <<buckets, fetchVars>>

----------------------------------------------------------------------------

(* The client goes away; or the handler returned, as it does with the 202. *)
ContextEnds(r) ==
  /\ Running(r)
  /\ ~over[r]
  /\ over' = [over EXCEPT ![r] = TRUE]
  /\ UNCHANGED <<buckets, stage, query, fetchVars, response, jobVars, lifeVars>>

(* Variant: an outcome is handed out once. *)
PollOnce(r) ==
  LET i == ticket[r]
      found == i \in DOMAIN jobs
      done == found /\ jobs[i].done
  IN /\ i # 0
     /\ polled' = [polled EXCEPT ![r] =
          [life |-> life, found |-> found, done |-> done,
           out |-> IF done THEN jobs[i].out ELSE NoOutcome(r)]]
     /\ jobs' = [k \in DOMAIN jobs \ (IF done THEN {i} ELSE {}) |-> jobs[k]]
     /\ UNCHANGED <<buckets, stage, query, over, fetchVars, response, jobSeq,
                    ticket, lifeVars>>

(* handlePoll, for the URL of the 202. *)
Poll(r) ==
  LET i == ticket[r]
      found == i \in DOMAIN jobs
      done == found /\ jobs[i].done
  IN /\ i # 0
     /\ polled' = [polled EXCEPT ![r] =
          [life |-> life, found |-> found, done |-> done,
           out |-> IF done THEN jobs[i].out ELSE NoOutcome(r)]]
     /\ UNCHANGED <<buckets, stage, query, over, fetchVars, response, jobs,
                    jobSeq, ticket, lifeVars>>

(* The process dies and starts anew: everything it kept is in memory.      *)
(* Shutdown waits for handlers, not for the goroutines of jobs.            *)
AllButRunning(local, none) ==
  [r \in Request |-> IF Running(r) THEN none[r] ELSE local[r]]

Restart ==
  /\ life < MaxRestarts
  /\ life' = life + 1
  /\ buckets' = SetLimits
  /\ stage' = AllButRunning(stage, [r \in Request |-> "lost"])
  /\ over' = AllButRunning(over, NotOver)
  /\ made' = AllButRunning(made, NoneMade)
  /\ pages' = AllButRunning(pages, NoPages)
  /\ spent' = AllButRunning(spent, NoneSpent)
  /\ source' = AllButRunning(source, NewSources)
  /\ frame' = AllButRunning(frame, NoOutcomes)
  /\ jobs' = NoJobs
  /\ jobSeq' = 0
  /\ UNCHANGED <<query, response, ticket, polled, born>>

Own(r) ==
  \/ Refuse(r) \/ Route(r) \/ CacheHit(r) \/ CacheMiss(r)
  \/ PageAllowed(r) \/ PageRefused(r) \/ Finish(r)
SourceReplies(r) == MorePages(r) \/ SourceAnswered(r) \/ SourceFailed(r)
Trouble(r) == Panics(r) \/ RunFails(r) \/ Cancelled(r) \/ ContextEnds(r)

Next ==
  \/ \E r \in Request :
       \/ TurnAway(r)
       \/ Take(r)
       \/ Own(r)
       \/ SourceReplies(r)
       \/ TimesOut(r)
       \/ Trouble(r)
       \/ Poll(r)
  \/ Restart

Spec == Init /\ [][Next]_vars

(* Goroutines run on; the timer of a query that has one fires, and the     *)
(* sources answer the others.                                              *)
Fairness ==
  \A r \in Request :
    /\ WF_vars(Own(r))
    /\ WF_vars(TimesOut(r) \/ (~query[r].timeout /\ SourceReplies(r)))

FairSpec == Spec /\ Fairness

----------------------------------------------------------------------------

Stage == {"new", "route", "fetch", "gate", "wait", "ended", "lost"}
Errors ==
  {"none yet", "none", "turned away", "refused", "exhausted", "source",
   "run", "timeout", "cancelled", "panic"}
Freshness == [cacheHit : BOOLEAN, revalidated : BOOLEAN, ageMS : Int]
Fetch == [conn : Connectors, how : {"hit", "revalidated", "fresh"}, age : Int]

IsOutcome(o) ==
  /\ DOMAIN o = {"trace", "err", "summary", "rate"}
  /\ o.trace \in Request /\ o.err \in Errors /\ o.summary \in Freshness
  /\ DOMAIN o.rate \subseteq Connectors
  /\ \A c \in DOMAIN o.rate : o.rate[c] \in Int

TypeOK ==
  /\ buckets \in [DOMAIN Budget -> Bucket]
  /\ stage \in [Request -> Stage]
  /\ query \in [Request -> Query]
  /\ over \in [Request -> BOOLEAN]
  /\ made \in [Request -> Seq(Fetch)]
  /\ pages \in [Request -> 0 .. MaxPages]
  /\ spent \in [Request -> [Connectors -> Nat]]
  /\ source \in [Request -> [Connectors -> Freshness]]
  /\ DOMAIN frame = Request /\ DOMAIN response = Request
  /\ \A r \in Request : IsOutcome(frame[r]) /\ IsOutcome(response[r])
  /\ ticket \in [Request -> Nat]
  /\ DOMAIN polled = Request
  /\ \A r \in Request : polled[r].life \in Int /\ IsOutcome(polled[r].out)
  /\ jobSeq \in Nat
  /\ DOMAIN jobs \subseteq 1 .. jobSeq
  /\ \A i \in DOMAIN jobs : jobs[i].done \in BOOLEAN /\ IsOutcome(jobs[i].out)
  /\ life \in Nat
  /\ born \in [Request -> 0 .. life]

(* The outcomes of requests: responses, and those of finished jobs. *)
Outcomes ==
  {response[r] : r \in {x \in Request : response[x].err # "none yet"}}
    \cup {jobs[i].out : i \in {j \in DOMAIN jobs : jobs[j].done}}

Successes(modes) ==
  {o \in Outcomes : o.err = "none" /\ Mode(o.trace) \in modes}

(* The budget reported with the rows is read "after this request's own     *)
(* fetch already spent its token" (server.go:349-351): it leaves room for  *)
(* every token the request spent, whatever the others were spending.       *)
RateCovers(o) ==
  \A c \in DOMAIN o.rate : Limited(c) =>
    o.rate[c] <= Budget[c] - spent[o.trace][c]

EnvelopeRateCurrent == \A o \in Successes({"json", "async"}) : RateCovers(o)

(* The same of the terminal frame of a stream. *)
FrameRateCurrent == \A o \in Successes({"stream"}) : RateCovers(o)

FetchesOf(o) == {made[o.trace][k] : k \in DOMAIN made[o.trace]}

(* "CacheHit only if every fetch this request made was served from cache"  *)
(* (server.go:438).                                                        *)
CacheHitMeansAll ==
  \A o \in Successes({"json", "async"}) :
    o.summary.cacheHit => \A f \in FetchesOf(o) : f.how = "hit"

(* At most one fetch per connector: no join within a connector, and one    *)
(* chunk per probe.                                                        *)
OncePerConnector(q) ==
  \A i, j \in DOMAIN q.fetches : q.fetches[i] = q.fetches[j] => i = j

SummaryCovers(o) ==
  OncePerConnector(query[o.trace]) =>
    /\ o.summary.cacheHit => \A f \in FetchesOf(o) : f.how = "hit"
    /\ \A f \in FetchesOf(o) : f.how = "hit" => f.age <= o.summary.ageMS
    /\ o.summary.revalidated <=>
         \E f \in FetchesOf(o) : f.how = "revalidated"

(* The summary is of the stalest input (server.go:437-441), for a query    *)
(* that fetches from each connector at most once: a hit is claimed only if *)
(* all were, and no hit is older than the age reported.                    *)
SummaryIsWorst == \A o \in Successes({"json", "async"}) : SummaryCovers(o)

(* A job that is done stays as it is until the process dies: an outcome is *)
(* written once, and two polls never disagree.                             *)
JobsSettle ==
  [][\A i \in DOMAIN jobs : life' = life =>
       /\ i \in DOMAIN jobs'
       /\ jobs[i].done => jobs'[i] = jobs[i]]_vars

(* A job is not cancelled by the end of the request that started it        *)
(* (obs.DetachTraceContext), which is over as soon as the 202 is written.  *)
JobOutlivesRequest ==
  \A i \in DOMAIN jobs : jobs[i].out.err # "cancelled"

(* Every request that was taken has an outcome in the end, panics and      *)
(* silent sources of timed queries included, unless the process dies.      *)
HasOutcome(r) ==
  IF Mode(r) = "async"
  THEN ticket[r] \in DOMAIN jobs /\ jobs[ticket[r]].done
  ELSE response[r].err # "none yet"

EveryRequestEnds ==
  \A r \in Request : Running(r) ~> (HasOutcome(r) \/ life # born[r])

----------------------------------------------------------------------------

(* How the job of a request stands, and what its last poll was told. *)
JobOf(r) ==
  IF ticket[r] = 0 THEN "none"
  ELSE IF life # born[r] THEN "lost"
  ELSE IF ticket[r] \notin DOMAIN jobs THEN "forgotten"
  ELSE IF jobs[ticket[r]].done THEN "done" ELSE "pending"

ToldOf(r) ==
  IF polled[r].life # born[r] THEN "nothing"
  ELSE IF ~polled[r].found THEN "missing"
  ELSE IF ~polled[r].done THEN "pending"
  ELSE IF polled[r].out.trace = r THEN "done" ELSE "a stranger's"

Jobs == INSTANCE AsyncJobs WITH
  job <- [r \in Request |-> JobOf(r)],
  told <- [r \in Request |-> ToldOf(r)]

(* The gateway keeps the promise of AsyncJobs: what polls are told only    *)
(* ever moves from pending to the outcome of the request itself, and every *)
(* job is settled unless the process dies, panics included.                *)
KeepsJobs == Jobs!Spec

----------------------------------------------------------------------------

(* The inductive invariant behind the properties above.                    *)

(* A fetch in progress has asked for some of its pages, others for none.   *)
PagesSound(r) ==
  /\ Len(made[r]) <= Len(query[r].fetches)
  /\ stage[r] \in {"gate", "wait"} => Fetching(r)
  /\ stage[r] \in {"new", "route", "fetch"} => pages[r] = 0
  /\ stage[r] = "gate" => pages[r] < MaxPages

(* What a request spent in this life is part of what was used in it. *)
SpentSound(r) ==
  \A c \in Connectors :
    /\ stage[r] = "new" => spent[r][c] = 0
    /\ Running(r) /\ Limited(c) => spent[r][c] <= buckets[c].used

(* What a Source tells of the fetches it saw, if no connector saw two.     *)
SourceSound(r) ==
  /\ \A k \in DOMAIN made[r] : made[r][k].conn = query[r].fetches[k]
  /\ OncePerConnector(query[r]) =>
       \A c \in Connectors :
         LET seen == {k \in DOMAIN made[r] : made[r][k].conn = c}
         IN /\ source[r][c].cacheHit => \E k \in seen : made[r][k].how = "hit"
            /\ source[r][c].revalidated <=>
                 \E k \in seen : made[r][k].how = "revalidated"
            /\ \A k \in seen : made[r][k].how = "hit" =>
                 made[r][k].age = source[r][c].ageMS

OutcomeSound(o) ==
  o.err = "none" /\ Mode(o.trace) \in {"json", "async"} =>
    stage[o.trace] = "ended" /\ RateCovers(o) /\ SummaryCovers(o)

(* A job belongs to one request of this life, and is done when that is.    *)
TicketSound(r) ==
  /\ ticket[r] = 0 => polled[r].life = -1
  /\ stage[r] = "new" => ticket[r] = 0
  /\ Running(r) => born[r] = life /\ (Mode(r) = "async" <=> ticket[r] # 0)
  /\ ticket[r] # 0 /\ born[r] = life =>
       /\ ticket[r] \in DOMAIN jobs
       /\ jobs[ticket[r]].out.trace = r
       /\ jobs[ticket[r]].done <=> ~Running(r)
  /\ frame[r].trace = r

JobSound(i) ==
  /\ \E r \in Request : ticket[r] = i /\ born[r] = life
  /\ jobs[i].out.err # "cancelled"
  /\ jobs[i].done => OutcomeSound(jobs[i].out)

RequestSound(r) ==
  /\ PagesSound(r)
  /\ SpentSound(r)
  /\ SourceSound(r)
  /\ TicketSound(r)
  /\ OutcomeSound(response[r])

IInv ==
  /\ \A c \in DOMAIN buckets : buckets[c].limit = Budget[c]
  /\ \A r \in Request : RequestSound(r)
  /\ \A i \in DOMAIN jobs : JobSound(i)
=============================================================================
