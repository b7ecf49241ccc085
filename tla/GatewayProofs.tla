---------------------------- MODULE GatewayProofs ----------------------------
(***************************************************************************)
(* Proofs about Gateway: for every number of requests, queries,            *)
(* connectors, budgets, pages and restarts.                                *)
(***************************************************************************)
EXTENDS Gateway, FiniteSetTheorems, WellFoundedInduction, TLAPS

(* A finite set of integers has a greatest element: a finite set without   *)
(* one would have a smaller one without, so there is no smallest.          *)
LEMMA FiniteMax ==
  ASSUME NEW S \in SUBSET Int, IsFiniteSet(S), S # {}
  PROVE  \E a \in S : \A b \in S : b <= a
<1> DEFINE Max(X) == \E a \in X : \A b \in X : b <= a
           Bad == {X \in SUBSET S : X # {} /\ ~Max(X)}
           R == StrictSubsetOrdering(S)
<1> SUFFICES ASSUME ~Max(S) PROVE FALSE OBVIOUS
<1>1. Bad \subseteq FiniteSubsetsOf(S) /\ Bad # {}
  BY FS_FiniteSubsetsOfFinite
<1>2. IsWellFoundedOn(R, FiniteSubsetsOf(S))
  BY FS_StrictSubsetOrderingWellFounded
<1>3. PICK X \in Bad : \A Y \in Bad : ~(<<Y, X>> \in R)
  <2> HIDE DEF Bad, R
  <2>1. QED BY <1>1, <1>2, WFMin
<1>4. PICK x \in X : TRUE OBVIOUS
<1> DEFINE Y == X \ {x}
<1>5. <<Y, X>> \in R BY <1>4 DEF StrictSubsetOrdering
<1>6. Y = {} \/ Max(Y) BY <1>3, <1>5
<1>7. CASE Y = {}
  <2>1. x \in Int /\ X = {x} BY <1>4, <1>7
  <2>2. QED BY <2>1
<1>8. CASE Max(Y)
  <2>1. PICK a \in Y : \A b \in Y : b <= a BY <1>8
  <2>2. a \in Int /\ x \in Int BY <1>4
  <2>3. CASE x <= a BY <2>1, <2>2, <2>3
  <2>4. CASE a <= x
    <3>1. \A b \in X : b <= x BY <2>1, <2>2, <2>4
    <3>2. QED BY <3>1
  <2>5. QED BY <2>2, <2>3, <2>4
<1>9. QED BY <1>6, <1>7, <1>8
(* The freshness of a query is one, whatever its connectors. *)
LEMMA SummaryTyped ==
  ASSUME NEW C, IsFiniteSet(C), NEW flags \in [C -> Freshness]
  PROVE  /\ Summarize(flags) \in Freshness
         /\ \A c \in C : flags[c].ageMS <= Summarize(flags).ageMS
         /\ Summarize(flags).cacheHit => \A c \in C : flags[c].cacheHit
         /\ Summarize(flags).revalidated <=> \E c \in C : flags[c].revalidated
<1> DEFINE age == [c \in C |-> flags[c].ageMS]
           seen == {flags[c].ageMS : c \in C}
           ages == seen \cup {0}
           oldest == CHOOSE a \in ages : \A b \in ages : b <= a
<1>1. \A c \in C : flags[c].ageMS \in Int BY DEF Freshness
<1>2. IsFiniteSet(seen)
  <2>1. age \in Surjection(C, seen) BY DEF Surjection
  <2>2. QED BY <2>1, FS_Surjection
<1>3. IsFiniteSet(ages) BY <1>2, FS_AddElement
<1>4. ages \in SUBSET Int /\ ages # {} BY <1>1
<1>5. \E a \in ages : \A b \in ages : b <= a BY <1>3, <1>4, FiniteMax
<1>6. oldest \in ages /\ \A b \in ages : b <= oldest
  <2> HIDE DEF ages
  <2>1. QED BY <1>5
<1>7. Summarize(flags) =
        [cacheHit |-> C # {} /\ \A c \in C : flags[c].cacheHit,
         revalidated |-> \E c \in C : flags[c].revalidated,
         ageMS |-> oldest]
  BY DEF Summarize
<1> HIDE DEF oldest
<1>8. QED BY <1>4, <1>6, <1>7 DEF Freshness

LEMMA QueryTyped ==
  ASSUME TypeOK, NEW r \in Request
  PROVE  /\ query[r] \in Query
         /\ Mode(r) \in {"json", "stream", "async"}
         /\ query[r].conns \subseteq Connectors /\ IsFiniteSet(query[r].conns)
         /\ query[r].fetches \in Seq(query[r].conns)
         /\ query[r].cached \in BOOLEAN
BY QueryAssumption DEF TypeOK, Mode, Connectors

LEMMA FetchTyped ==
  ASSUME TypeOK, NEW r \in Request, Fetching(r)
  PROVE  /\ Len(made[r]) \in Nat
         /\ Len(made[r]) + 1 \in DOMAIN query[r].fetches
         /\ Conn(r) \in query[r].conns /\ Conn(r) \in Connectors
<1>1. made[r] \in Seq(Fetch) BY DEF TypeOK
<1>2. QED BY <1>1, QueryTyped DEF Fetching, Conn

LEMMA NothingTyped ==
  ASSUME NEW r \in Request
  PROVE  /\ \A err \in Errors : IsOutcome(Outcome(r, err, NoSummary, NoRate))
         /\ IsOutcome(NoOutcome(r))
         /\ NewSource \in Freshness /\ IsOutcome(NoPoll(r).out)
<1>1. NoSummary \in Freshness /\ NewSource \in Freshness
  BY DEF NoSummary, NewSource, Freshness
<1>2. DOMAIN NoRate = {} BY DEF NoRate
<1>3. \A err \in Errors : IsOutcome(Outcome(r, err, NoSummary, NoRate))
  BY <1>1, <1>2 DEF IsOutcome, Outcome
<1>4. "none yet" \in Errors BY DEF Errors
<1>5. IsOutcome(NoOutcome(r)) BY <1>3, <1>4 DEF NoOutcome
<1>6. NoPoll(r).out = NoOutcome(r) BY DEF NoPoll
<1>7. QED BY <1>1, <1>3, <1>5, <1>6

LEMMA RateTyped ==
  ASSUME TypeOK, NEW r \in Request
  PROVE  /\ DOMAIN RateStatus(r) = query[r].conns
         /\ \A c \in query[r].conns : RateStatus(r)[c] = Remaining(c)
         /\ \A c \in query[r].conns : RateStatus(r)[c] \in Int
<1>1. \A c : Limited(c) => buckets[c] \in Bucket BY DEF TypeOK, Limited
<1>2. \A c : Remaining(c) \in Int BY <1>1 DEF Remaining, Bucket
<1>3. QED BY <1>2 DEF RateStatus

LEMMA ReportTyped ==
  ASSUME TypeOK, NEW r \in Request, NEW err \in Errors
  PROVE  IsOutcome(Outcome(r, err, SummaryOf(r), RateStatus(r)))
<1>1. [c \in query[r].conns |-> source[r][c]] \in [query[r].conns -> Freshness]
  BY QueryTyped DEF TypeOK
<1>2. SummaryOf(r) \in Freshness
  BY <1>1, QueryTyped, SummaryTyped DEF SummaryOf
<1>3. QED BY <1>2, RateTyped, QueryTyped DEF IsOutcome, Outcome

LEMMA FrameTyped ==
  ASSUME TypeOK, NEW r \in Request, NEW err \in Errors
  PROVE  IsOutcome(Frame(r, err)) /\ Frame(r, err).err = err
         /\ Frame(r, err).trace = frame[r].trace
<1>1. IsOutcome(frame[r]) BY DEF TypeOK
<1>2. QED BY <1>1 DEF Frame, IsOutcome

LEMMA DeliveredTyped ==
  ASSUME TypeOK, NEW r \in Request
  PROVE  /\ IsOutcome(Succeeded(r))
         /\ \A err \in Errors : IsOutcome(Failed(r, err))
<1>1. "none" \in Errors BY DEF Errors
<1>2. QED BY <1>1, FrameTyped, ReportTyped, NothingTyped
          DEF Succeeded, Failed, Envelope

LEMMA DeliverTyped ==
  ASSUME TypeOK, NEW r \in Request, NEW o, IsOutcome(o), Deliver(r, o),
         UNCHANGED <<buckets, fetchVars>>
  PROVE  TypeOK'
<1>1. stage' \in [Request -> Stage] BY DEF Deliver, TypeOK, Stage
<1>2. /\ DOMAIN jobs' = DOMAIN jobs
      /\ \A i \in DOMAIN jobs' : jobs'[i].done \in BOOLEAN /\ IsOutcome(jobs'[i].out)
  <2>1. CASE Mode(r) # "async" BY <2>1 DEF Deliver, TypeOK
  <2>2. CASE Mode(r) = "async"
    <3> DEFINE job == [done |-> TRUE, out |-> o]
    <3>1. job.done \in BOOLEAN /\ IsOutcome(job.out) OBVIOUS
    <3>2. jobs' = [jobs EXCEPT ![ticket[r]] = job] BY <2>2 DEF Deliver
    <3> HIDE DEF job
    <3>3. DOMAIN jobs' = DOMAIN jobs BY <3>2
    <3>4. \A i \in DOMAIN jobs : jobs'[i] = job \/ jobs'[i] = jobs[i] BY <3>2
    <3>5. QED BY <3>1, <3>3, <3>4 DEF TypeOK
  <2>3. QED BY <2>1, <2>2
<1>3. /\ DOMAIN response' = Request
      /\ \A s \in Request : IsOutcome(response'[s])
  BY DEF Deliver, TypeOK
<1>4. QED BY <1>1, <1>2, <1>3 DEF Deliver, TypeOK, fetchVars, lifeVars

LEMMA ToTyped ==
  ASSUME TypeOK, NEW r \in Request, NEW s \in Stage, To(r, s),
         /\ buckets' \in [DOMAIN Budget -> Bucket]
         /\ made' \in [Request -> Seq(Fetch)]
         /\ pages' \in [Request -> 0 .. MaxPages]
         /\ spent' \in [Request -> [Connectors -> Nat]]
         /\ source' \in [Request -> [Connectors -> Freshness]]
         /\ DOMAIN frame' = Request
         /\ \A q \in Request : IsOutcome(frame'[q])
  PROVE  TypeOK'
<1>1. stage' \in [Request -> Stage] BY DEF To, TypeOK
<1>2. QED BY <1>1 DEF To, TypeOK, lifeVars, jobVars

LEMMA FetchedTyped ==
  ASSUME TypeOK, NEW r \in Request, Fetching(r), NEW age \in Int,
         NEW how \in {"hit", "revalidated", "fresh"}, Fetched(r, how, age)
  PROVE  /\ made' \in [Request -> Seq(Fetch)]
         /\ pages' \in [Request -> 0 .. MaxPages]
         /\ To(r, "fetch") /\ "fetch" \in Stage
<1> DEFINE m == [conn |-> Conn(r), how |-> how, age |-> age]
<1>1. m \in Fetch BY FetchTyped DEF Fetch
<1>2. made[r] \in Seq(Fetch) BY DEF TypeOK
<1> HIDE DEF m
<1>3. Append(made[r], m) \in Seq(Fetch) BY <1>1, <1>2
<1>4. made' = [made EXCEPT ![r] = Append(made[r], m)] BY DEF Fetched, m
<1>5. 0 \in 0 .. MaxPages BY GatewayAssumption
<1>6. QED BY <1>3, <1>4, <1>5 DEF Fetched, TypeOK, Stage

LEMMA TurnAwayTyped ==
  ASSUME TypeOK, NEW r \in Request, TurnAway(r)
  PROVE  TypeOK'
<1> DEFINE o == Outcome(r, "turned away", NoSummary, NoRate)
<1>1. IsOutcome(o) BY NothingTyped DEF Errors
<1> HIDE DEF o
<1>2. /\ DOMAIN response' = Request
      /\ \A s \in Request : IsOutcome(response'[s])
  BY <1>1 DEF TurnAway, TypeOK, o
<1>3. stage' \in [Request -> Stage] /\ born' \in [Request -> 0 .. life]
  <2>1. "ended" \in Stage /\ life \in 0 .. life BY DEF Stage, TypeOK
  <2>2. QED BY <2>1 DEF TurnAway, TypeOK
<1>4. QED BY <1>2, <1>3 DEF TurnAway, TypeOK, fetchVars, jobVars

LEMMA TakeTyped ==
  ASSUME TypeOK, NEW r \in Request, Take(r)
  PROVE  TypeOK'
<1>1. stage' \in [Request -> Stage] /\ born' \in [Request -> 0 .. life]
  <2>1. "route" \in Stage /\ life \in 0 .. life BY DEF Stage, TypeOK
  <2>2. QED BY <2>1 DEF Take, TypeOK
<1>2. /\ ticket' \in [Request -> Nat] /\ jobSeq' \in Nat
      /\ DOMAIN jobs' \subseteq 1 .. jobSeq'
      /\ \A i \in DOMAIN jobs' : jobs'[i].done \in BOOLEAN /\ IsOutcome(jobs'[i].out)
  <2>1. CASE Mode(r) # "async" BY <2>1 DEF Take, TypeOK
  <2>2. CASE Mode(r) = "async"
    <3> DEFINE job == [done |-> FALSE, out |-> NoOutcome(r)]
               n == NextJobId
    <3>1. job.done \in BOOLEAN /\ IsOutcome(job.out) BY NothingTyped
    <3>2. n \in Nat /\ n = jobSeq + 1 BY DEF TypeOK, NextJobId
    <3> HIDE DEF job, n
    <3>3. /\ jobSeq' = n /\ ticket' = [ticket EXCEPT ![r] = n]
          /\ DOMAIN jobs' = DOMAIN jobs \cup {n}
          /\ \A i \in DOMAIN jobs' : jobs'[i] = IF i = n THEN job ELSE jobs[i]
      BY <2>2 DEF Take, job, n
    <3>4. ticket' \in [Request -> Nat] /\ jobSeq' \in Nat
      BY <3>2, <3>3 DEF TypeOK
    <3>5. DOMAIN jobs' \subseteq 1 .. jobSeq' BY <3>2, <3>3 DEF TypeOK
    <3>6. \A i \in DOMAIN jobs' : jobs'[i].done \in BOOLEAN /\ IsOutcome(jobs'[i].out)
      BY <3>1, <3>3 DEF TypeOK
    <3>7. QED BY <3>4, <3>5, <3>6
  <2>3. QED BY <2>1, <2>2
<1>3. QED BY <1>1, <1>2 DEF Take, TypeOK, fetchVars

LEMMA RouteTyped ==
  ASSUME TypeOK, NEW r \in Request, Route(r)
  PROVE  TypeOK'
<1> DEFINE o == Outcome(r, "none yet", SummaryOf(r), RateStatus(r))
<1>1. IsOutcome(o) BY ReportTyped DEF Errors
<1>2. frame' = [frame EXCEPT ![r] = o] \/ frame' = frame BY DEF Route
<1> HIDE DEF o
<1>3. /\ DOMAIN frame' = Request
      /\ \A q \in Request : IsOutcome(frame'[q])
  BY <1>1, <1>2 DEF TypeOK
<1>4. "fetch" \in Stage BY DEF Stage
<1>5. UNCHANGED <<buckets, made, pages, spent, source>> /\ To(r, "fetch")
  BY DEF Route
<1>6. QED BY <1>3, <1>4, <1>5, ToTyped DEF TypeOK

(* What a hit and what an answer of the source change in a Source. *)
LEMMA FlagsTyped ==
  ASSUME NEW old \in Freshness, NEW b \in BOOLEAN, NEW a \in Int
  PROVE  /\ [old EXCEPT !.cacheHit = b] \in Freshness
         /\ [old EXCEPT !.revalidated = b] \in Freshness
         /\ [old EXCEPT !.ageMS = a] \in Freshness
<1>1. [old EXCEPT !.cacheHit = b] \in Freshness BY DEF Freshness
<1>2. [old EXCEPT !.revalidated = b] \in Freshness BY DEF Freshness
<1>3. [old EXCEPT !.ageMS = a] \in Freshness BY DEF Freshness
<1>4. QED BY <1>1, <1>2, <1>3

LEMMA HitFlags ==
  ASSUME NEW old \in Freshness, NEW a \in Int
  PROVE  LET new == [old EXCEPT !.cacheHit = TRUE, !.ageMS = a]
         IN /\ new \in Freshness
            /\ new.cacheHit /\ new.ageMS = a
            /\ new.revalidated <=> old.revalidated
<1> DEFINE f == [old EXCEPT !.cacheHit = TRUE]
<1>1. f \in Freshness BY FlagsTyped
<1>2. [f EXCEPT !.ageMS = a] \in Freshness
  <2> HIDE DEF f
  <2>1. QED BY <1>1, FlagsTyped
<1>3. QED BY <1>2 DEF Freshness

LEMMA AnsweredFlags ==
  ASSUME NEW old \in Freshness, NEW b \in BOOLEAN
  PROVE  LET new == [old EXCEPT !.ageMS = 0, !.revalidated = @ \/ b]
         IN /\ new \in Freshness
            /\ new.cacheHit <=> old.cacheHit
            /\ new.revalidated <=> (old.revalidated \/ b)
            /\ new.ageMS = 0
<1> DEFINE f == [old EXCEPT !.ageMS = 0]
           v == f.revalidated \/ b
<1>1. f \in Freshness BY DEF Freshness
<1>2. [f EXCEPT !.revalidated = v] \in Freshness
  <2>1. v \in BOOLEAN OBVIOUS
  <2> HIDE DEF f, v
  <2>2. QED BY <1>1, <2>1 DEF Freshness
<1>3. QED BY <1>2 DEF Freshness

(* A Source is replaced, the others stay. *)
LEMMA SourceTyped ==
  ASSUME TypeOK, NEW r \in Request, NEW c \in Connectors, NEW new \in Freshness,
         source' = [source EXCEPT ![r] = [source[r] EXCEPT ![c] = new]]
  PROVE  /\ source' \in [Request -> [Connectors -> Freshness]]
         /\ source'[r][c] = new
         /\ \A d \in Connectors \ {c} : source'[r][d] = source[r][d]
         /\ \A s \in Request \ {r} : source'[s] = source[s]
BY DEF TypeOK

LEMMA HitSource ==
  ASSUME TypeOK, NEW r \in Request, Fetching(r), NEW age \in Int,
         source' = [source EXCEPT ![r][Conn(r)] =
                      [@ EXCEPT !.cacheHit = TRUE, !.ageMS = age]]
  PROVE  \E new \in Freshness :
           /\ source' = [source EXCEPT ![r] = [source[r] EXCEPT ![Conn(r)] = new]]
           /\ new.cacheHit /\ new.ageMS = age
           /\ new.revalidated <=> source[r][Conn(r)].revalidated
<1> DEFINE old == source[r][Conn(r)]
           new == [old EXCEPT !.cacheHit = TRUE, !.ageMS = age]
<1>1. old \in Freshness BY FetchTyped DEF TypeOK
<1>2. /\ new \in Freshness
      /\ new.cacheHit /\ new.ageMS = age
      /\ new.revalidated <=> old.revalidated
  <2> HIDE DEF old
  <2>1. QED BY <1>1, HitFlags
<1>3. source' = [source EXCEPT ![r] = [source[r] EXCEPT ![Conn(r)] = new]]
  OBVIOUS
<1> HIDE DEF new
<1>4. QED BY <1>2, <1>3

LEMMA AnsweredSource ==
  ASSUME TypeOK, NEW r \in Request, Fetching(r), NEW b \in BOOLEAN,
         source' = [source EXCEPT ![r][Conn(r)] =
                      [@ EXCEPT !.ageMS = 0,
                                !.revalidated =
                                  source[r][Conn(r)].revalidated \/ b]]
  PROVE  \E new \in Freshness :
           /\ source' = [source EXCEPT ![r] = [source[r] EXCEPT ![Conn(r)] = new]]
           /\ new.cacheHit <=> source[r][Conn(r)].cacheHit
           /\ new.revalidated <=> (source[r][Conn(r)].revalidated \/ b)
<1> DEFINE old == source[r][Conn(r)]
           new == [old EXCEPT !.ageMS = 0, !.revalidated = @ \/ b]
<1>1. old \in Freshness BY FetchTyped DEF TypeOK
<1>2. /\ new \in Freshness
      /\ new.cacheHit <=> old.cacheHit
      /\ new.revalidated <=> (old.revalidated \/ b)
  <2> HIDE DEF old
  <2>1. QED BY <1>1, AnsweredFlags
<1>3. source' = [source EXCEPT ![r] = [source[r] EXCEPT ![Conn(r)] = new]]
  <2>1. source' = [source EXCEPT ![r][Conn(r)] = new] OBVIOUS
  <2> HIDE DEF new
  <2>2. QED BY <2>1
<1> HIDE DEF new
<1>4. QED BY <1>2, <1>3

LEMMA CacheHitTyped ==
  ASSUME TypeOK, NEW r \in Request, CacheHit(r)
  PROVE  TypeOK'
<1>1. PICK age \in Age :
        /\ Fetched(r, "hit", age)
        /\ source' = [source EXCEPT ![r][Conn(r)] =
                        [@ EXCEPT !.cacheHit = TRUE, !.ageMS = age]]
  BY DEF CacheHit
<1>2. Fetching(r) /\ UNCHANGED <<buckets, spent, frame>> BY DEF CacheHit
<1>3. age \in Int BY GatewayAssumption
<1>4. Conn(r) \in Connectors BY <1>2, FetchTyped
<1>5. source' \in [Request -> [Connectors -> Freshness]]
  <2>1. PICK new \in Freshness :
          source' = [source EXCEPT ![r] = [source[r] EXCEPT ![Conn(r)] = new]]
    BY <1>1, <1>2, <1>3, HitSource
  <2>2. QED BY <1>4, <2>1, SourceTyped
<1>6. /\ made' \in [Request -> Seq(Fetch)]
      /\ pages' \in [Request -> 0 .. MaxPages]
      /\ To(r, "fetch") /\ "fetch" \in Stage
  BY <1>1, <1>2, <1>3, FetchedTyped
<1>7. QED BY <1>2, <1>5, <1>6, ToTyped DEF TypeOK

LEMMA SourceAnsweredTyped ==
  ASSUME TypeOK, NEW r \in Request, PagesSound(r), SourceAnswered(r)
  PROVE  TypeOK'
<1>1. PICK revalidated \in {FALSE, query[r].cached} :
        /\ Fetched(r, IF revalidated THEN "revalidated" ELSE "fresh", 0)
        /\ source' =
             IF query[r].cached
             THEN [source EXCEPT ![r][Conn(r)] =
                     [@ EXCEPT !.ageMS = 0,
                               !.revalidated = source[r][Conn(r)].revalidated
                                                 \/ revalidated]]
             ELSE source
  BY DEF SourceAnswered
<1>2. Fetching(r) /\ UNCHANGED <<buckets, spent, frame>>
  BY DEF SourceAnswered, PagesSound
<1>3. Conn(r) \in Connectors BY <1>2, FetchTyped
<1>4. source' \in [Request -> [Connectors -> Freshness]]
  <2>1. revalidated \in BOOLEAN BY QueryTyped
  <2>2. CASE query[r].cached
    <3>1. PICK new \in Freshness :
            source' = [source EXCEPT ![r] = [source[r] EXCEPT ![Conn(r)] = new]]
      BY <1>1, <1>2, <2>1, <2>2, AnsweredSource
    <3>2. QED BY <1>3, <3>1, SourceTyped
  <2>3. CASE ~query[r].cached BY <1>1, <2>3 DEF TypeOK
  <2>4. QED BY <2>2, <2>3
<1>5. /\ made' \in [Request -> Seq(Fetch)]
      /\ pages' \in [Request -> 0 .. MaxPages]
      /\ To(r, "fetch") /\ "fetch" \in Stage
  BY <1>1, <1>2, FetchedTyped
<1>6. QED BY <1>2, <1>4, <1>5, ToTyped DEF TypeOK

LEMMA AllowKeepsBuckets ==
  ASSUME TypeOK, NEW c, Allow(c)
  PROVE  /\ buckets' \in [DOMAIN Budget -> Bucket]
         /\ \A d \in DOMAIN buckets :
              /\ buckets'[d].limit = buckets[d].limit
              /\ buckets'[d].used =
                   IF d = c THEN buckets[d].used + 1 ELSE buckets[d].used
<1>1. CASE Limited(c)
  <2> DEFINE b == [buckets[c] EXCEPT !.used = buckets[c].used + 1]
  <2>1. c \in DOMAIN Budget /\ buckets[c] \in Bucket BY <1>1 DEF Limited, TypeOK
  <2>2. /\ b \in Bucket /\ b.limit = buckets[c].limit
        /\ b.used = buckets[c].used + 1
    BY <2>1 DEF Bucket
  <2>3. buckets' = [buckets EXCEPT ![c] = b] BY <1>1 DEF Allow
  <2> HIDE DEF b
  <2>4. QED BY <2>1, <2>2, <2>3 DEF TypeOK
<1>2. CASE ~Limited(c) BY <1>2 DEF Allow, Limited, TypeOK
<1>3. QED BY <1>1, <1>2

LEMMA PageAllowedTyped ==
  ASSUME TypeOK, NEW r \in Request, PagesSound(r), PageAllowed(r)
  PROVE  TypeOK'
<1>1. Conn(r) \in Connectors BY FetchTyped DEF PageAllowed, PagesSound
<1>2. spent' \in [Request -> [Connectors -> Nat]]
  BY <1>1 DEF PageAllowed, TypeOK
<1>3. pages' \in [Request -> 0 .. MaxPages]
  <2>1. pages[r] < MaxPages /\ pages[r] \in 0 .. MaxPages /\ MaxPages \in Nat
    BY GatewayAssumption DEF PageAllowed, PagesSound, TypeOK
  <2>2. pages[r] + 1 \in 0 .. MaxPages BY <2>1
  <2>3. QED BY <2>2 DEF PageAllowed, TypeOK
<1>4. buckets' \in [DOMAIN Budget -> Bucket]
  BY AllowKeepsBuckets DEF PageAllowed
<1>5. UNCHANGED <<made, source, frame>> /\ To(r, "wait") /\ "wait" \in Stage
  BY DEF PageAllowed, Stage
<1>6. QED BY <1>2, <1>3, <1>4, <1>5, ToTyped DEF TypeOK

LEMMA RestartTyped == TypeOK /\ Restart => TypeOK'
<1> SUFFICES ASSUME TypeOK, Restart PROVE TypeOK' OBVIOUS
<1>1. buckets' \in [DOMAIN Budget -> Bucket]
  BY BudgetAssumption DEF Restart, SetLimits, Bucket
<1>2. stage' \in [Request -> Stage] /\ over' \in [Request -> BOOLEAN]
  BY DEF Restart, AllButRunning, TypeOK, Stage, NotOver
<1>3. made' \in [Request -> Seq(Fetch)]
  <2>1. <<>> \in Seq(Fetch) OBVIOUS
  <2>2. QED BY <2>1 DEF Restart, AllButRunning, TypeOK, NoneMade
<1>4. /\ pages' \in [Request -> 0 .. MaxPages]
      /\ spent' \in [Request -> [Connectors -> Nat]]
  BY GatewayAssumption DEF Restart, AllButRunning, TypeOK, NoPages, NoneSpent
<1>5. source' \in [Request -> [Connectors -> Freshness]]
  <2>1. NewSource \in Freshness BY DEF NewSource, Freshness
  <2>2. QED BY <2>1 DEF Restart, AllButRunning, TypeOK, NewSources
<1>6. DOMAIN frame' = Request /\ \A r \in Request : IsOutcome(frame'[r])
  BY NothingTyped DEF Restart, AllButRunning, TypeOK, NoOutcomes
<1>7. life' \in Nat /\ born \in [Request -> 0 .. life']
  BY DEF Restart, TypeOK
<1>8. jobSeq' \in Nat /\ DOMAIN jobs' = {} BY DEF Restart, NoJobs
<1>9. QED BY <1>1, <1>2, <1>3, <1>4, <1>5, <1>6, <1>7, <1>8
          DEF Restart, TypeOK

LEMMA InitTyped == Init => TypeOK
<1> SUFFICES ASSUME Init PROVE TypeOK OBVIOUS
<1>1. buckets \in [DOMAIN Budget -> Bucket]
  BY BudgetAssumption DEF Init, RateLimitInit, SetLimits, Bucket
<1>2. made \in [Request -> Seq(Fetch)] BY DEF Init, NoneMade
<1>3. /\ pages \in [Request -> 0 .. MaxPages]
      /\ spent \in [Request -> [Connectors -> Nat]]
      /\ over \in [Request -> BOOLEAN]
  BY GatewayAssumption DEF Init, NoPages, NoneSpent, NotOver
<1>4. source \in [Request -> [Connectors -> Freshness]]
  BY DEF Init, NewSources, NewSource, Freshness
<1>5. /\ DOMAIN frame = Request /\ DOMAIN response = Request
      /\ \A r \in Request : IsOutcome(frame[r]) /\ IsOutcome(response[r])
  BY NothingTyped DEF Init, NoOutcomes
<1>6. /\ DOMAIN polled = Request
      /\ \A r \in Request : polled[r].life \in Int /\ IsOutcome(polled[r].out)
  BY NothingTyped DEF Init, NoPoll
<1>7. jobSeq \in Nat /\ DOMAIN jobs = {} /\ life \in Nat
      /\ ticket \in [Request -> Nat] /\ born \in [Request -> 0 .. life]
  BY DEF Init, NoJobs
<1>8. stage \in [Request -> Stage] /\ query \in [Request -> Query]
  BY DEF Init, Stage
<1>9. QED BY <1>1, <1>2, <1>3, <1>4, <1>5, <1>6, <1>7, <1>8 DEF TypeOK

LEMMA PollTyped ==
  ASSUME TypeOK, NEW r \in Request, Poll(r)
  PROVE  TypeOK'
<1>1. PICK found, done :
        /\ done => ticket[r] \in DOMAIN jobs
        /\ polled' = [polled EXCEPT ![r] =
             [life |-> life, found |-> found, done |-> done,
              out |-> IF done THEN jobs[ticket[r]].out ELSE NoOutcome(r)]]
  <2>1. WITNESS ticket[r] \in DOMAIN jobs,
                ticket[r] \in DOMAIN jobs /\ jobs[ticket[r]].done
  <2>2. QED BY DEF Poll
<1> DEFINE told == [life |-> life, found |-> found, done |-> done,
                    out |-> IF done THEN jobs[ticket[r]].out ELSE NoOutcome(r)]
<1>2. told.life \in Int /\ IsOutcome(told.out)
  BY <1>1, NothingTyped DEF TypeOK
<1>3. polled' = [polled EXCEPT ![r] = told] BY <1>1
<1> HIDE DEF told
<1>4. /\ DOMAIN polled' = Request
      /\ \A s \in Request : polled'[s].life \in Int /\ IsOutcome(polled'[s].out)
  BY <1>2, <1>3 DEF TypeOK
<1>5. QED BY <1>4 DEF Poll, TypeOK, fetchVars, lifeVars

(* Every step keeps the types, if the pages of the request are counted. *)
LEMMA NextTyped ==
  TypeOK /\ (\A r \in Request : PagesSound(r)) /\ [Next]_vars => TypeOK'
<1> SUFFICES ASSUME TypeOK, \A r \in Request : PagesSound(r), [Next]_vars
             PROVE  TypeOK'
  OBVIOUS
<1>1. ASSUME NEW r \in Request,
             \/ Refuse(r) \/ PageRefused(r) \/ Finish(r) \/ SourceFailed(r)
             \/ RunFails(r) \/ TimesOut(r) \/ Cancelled(r) \/ Panics(r)
      PROVE  TypeOK'
  <2>1. \E o : /\ IsOutcome(o) /\ Deliver(r, o)
               /\ UNCHANGED <<buckets, fetchVars>>
    BY <1>1, DeliveredTyped, NothingTyped
    DEF Refuse, PageRefused, Finish, SourceFailed, RunFails, TimesOut, Cancelled,
        Panics, Errors
  <2>2. QED BY <2>1, DeliverTyped
<1>2. ASSUME NEW r \in Request, CacheMiss(r) \/ MorePages(r) PROVE TypeOK'
  <2>1. /\ UNCHANGED <<buckets, made, pages, spent, source, frame>>
        /\ To(r, "gate") /\ "gate" \in Stage
    BY <1>2 DEF CacheMiss, MorePages, fetchVars, Stage
  <2>2. QED BY <2>1, ToTyped DEF TypeOK
<1>3. ASSUME NEW r \in Request, ContextEnds(r) PROVE TypeOK'
  BY <1>3 DEF ContextEnds, TypeOK, fetchVars, jobVars, lifeVars
<1>4. CASE UNCHANGED vars
  BY <1>4 DEF vars, fetchVars, jobVars, lifeVars, TypeOK
<1>5. QED
  BY <1>1, <1>2, <1>3, <1>4, TurnAwayTyped, TakeTyped, RouteTyped,
     CacheHitTyped, SourceAnsweredTyped, PageAllowedTyped, PollTyped,
     RestartTyped
  DEF Next, Own, SourceReplies, Trouble
==============================================================================
