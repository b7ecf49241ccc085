---------------------------- MODULE GatewaySafety ----------------------------
(***************************************************************************)
(* The invariant IInv of Gateway is inductive: what the outcomes and the   *)
(* jobs say holds for every number of requests, queries, connectors,       *)
(* budgets, pages and restarts, and the gateway keeps AsyncJobs.           *)
(***************************************************************************)
EXTENDS GatewayProofs

(* The steps of one request. *)
Act(r) ==
  TurnAway(r) \/ Take(r) \/ Own(r) \/ SourceReplies(r) \/ TimesOut(r)
    \/ Trouble(r) \/ Poll(r)

(* A step that delivers an outcome of a request that is under way. *)
Delivers(r, o) ==
  /\ Running(r)
  /\ Deliver(r, o)
  /\ UNCHANGED <<buckets, fetchVars>>

(* A step on the way there. *)
Proceeds(r) ==
  Route(r) \/ CacheHit(r) \/ CacheMiss(r) \/ PageAllowed(r) \/ MorePages(r)
    \/ SourceAnswered(r) \/ ContextEnds(r)

(* What is delivered: an error that is not "cancelled" for a job, or the   *)
(* answer, once every fetch is made.                                       *)
MayDeliver(r, o) ==
  \/ \E err \in Errors \ {"none"} :
       /\ o \in {Failed(r, err), Outcome(r, err, NoSummary, NoRate)}
       /\ err = "cancelled" => Mode(r) # "async"
  \/ stage[r] = "fetch" /\ ~Fetching(r) /\ o = Succeeded(r)

LEMMA ActCases ==
  ASSUME NEW r \in Request, Act(r)
  PROVE  \/ TurnAway(r) \/ Take(r) \/ Poll(r) \/ Proceeds(r)
         \/ \E o : Delivers(r, o) /\ MayDeliver(r, o)
<1>1. \A o : Deliver(r, o) /\ stage[r] \in {"route", "fetch", "gate", "wait"}
                /\ UNCHANGED <<buckets, fetchVars>>
             => Delivers(r, o)
  BY DEF Delivers, Running
<1>2. \A e \in {"refused", "exhausted", "source", "run", "timeout"} :
        MayDeliver(r, Failed(r, e))
  BY DEF MayDeliver, Errors
<1>3. Mode(r) # "async" => MayDeliver(r, Failed(r, "cancelled"))
  BY DEF MayDeliver, Errors
<1>4. MayDeliver(r, Outcome(r, "panic", NoSummary, NoRate))
  <2>1. "panic" \in Errors \ {"none"} /\ "panic" # "cancelled" BY DEF Errors
  <2>2. QED BY <2>1 DEF MayDeliver
<1>5. CASE Refuse(r) BY <1>1, <1>2, <1>5 DEF Refuse
<1>6. CASE PageRefused(r) BY <1>1, <1>2, <1>6 DEF PageRefused
<1>7. CASE SourceFailed(r) BY <1>1, <1>2, <1>7 DEF SourceFailed
<1>8. CASE TimesOut(r) BY <1>1, <1>2, <1>8 DEF TimesOut
<1>9. CASE Cancelled(r) BY <1>1, <1>3, <1>9 DEF Cancelled, ContextDone
<1>10. CASE Panics(r) BY <1>4, <1>10 DEF Panics, Delivers
<1>11. CASE Finish(r) BY <1>1, <1>11 DEF Finish, MayDeliver
<1>12. CASE RunFails(r) BY <1>1, <1>2, <1>12 DEF RunFails
<1>13. QED
  BY <1>5, <1>6, <1>7, <1>8, <1>9, <1>10, <1>11, <1>12
  DEF Act, Own, SourceReplies, Trouble, Proceeds

LEMMA NextCases ==
  ASSUME [Next]_vars
  PROVE  (\E r \in Request : Act(r)) \/ Restart \/ UNCHANGED vars
BY DEF Next, Act

(* Another request's variables, as a step of r leaves them. *)
KeptAt(s) ==
  /\ stage'[s] = stage[s] /\ made'[s] = made[s] /\ pages'[s] = pages[s]
  /\ spent'[s] = spent[s] /\ source'[s] = source[s] /\ frame'[s] = frame[s]
  /\ response'[s] = response[s] /\ ticket'[s] = ticket[s]
  /\ polled'[s] = polled[s] /\ born'[s] = born[s]

LEMMA ProceedsKeeps ==
  ASSUME TypeOK, NEW r \in Request, PagesSound(r), Proceeds(r)
  PROVE  /\ UNCHANGED <<query, response, jobVars, lifeVars>>
         /\ \A s \in Request \ {r} : KeptAt(s)
         /\ Running(r) /\ Running(r)'
<1> USE DEF To, Running, KeptAt, fetchVars, jobVars, lifeVars
<1>1. CASE Route(r) BY <1>1 DEF Route, TypeOK
<1>2. CASE CacheMiss(r) \/ MorePages(r)
  BY <1>2 DEF CacheMiss, MorePages, TypeOK
<1>3. CASE CacheHit(r) BY <1>3 DEF CacheHit, Fetched, TypeOK
<1>4. CASE SourceAnswered(r) BY <1>4 DEF SourceAnswered, Fetched, TypeOK
<1>5. CASE PageAllowed(r) BY <1>5 DEF PageAllowed, TypeOK
<1>6. CASE ContextEnds(r) BY <1>6 DEF ContextEnds, TypeOK
<1>7. QED BY <1>1, <1>2, <1>3, <1>4, <1>5, <1>6 DEF Proceeds

LEMMA DeliversKeeps ==
  ASSUME TypeOK, NEW r \in Request, NEW o, Delivers(r, o)
  PROVE  /\ UNCHANGED <<buckets, fetchVars, query, jobSeq, ticket, polled, lifeVars>>
         /\ \A s \in Request \ {r} : KeptAt(s)
         /\ stage' = [stage EXCEPT ![r] = "ended"] /\ stage'[r] = "ended"
         /\ Running(r) /\ ~Running(r)'
BY DEF Delivers, Deliver, Running, KeptAt, fetchVars, lifeVars, TypeOK

(* A step of r leaves the other requests as they are. *)
LEMMA OthersKept ==
  ASSUME TypeOK, NEW r \in Request, PagesSound(r), Act(r)
  PROVE  query' = query /\ life' = life /\ \A s \in Request \ {r} : KeptAt(s)
<1>1. CASE TurnAway(r) \/ Take(r)
  <2> USE DEF KeptAt, fetchVars, jobVars, TypeOK
  <2>1. CASE TurnAway(r) BY <2>1 DEF TurnAway
  <2>2. CASE Take(r)
    <3>1. /\ stage' = [stage EXCEPT ![r] = "route"]
          /\ born' = [born EXCEPT ![r] = life]
          /\ ticket' = [ticket EXCEPT ![r] = NextJobId] \/ ticket' = ticket
          /\ UNCHANGED <<polled, query, life, fetchVars, response>>
      BY <2>2 DEF Take
    <3>2. DOMAIN stage = Request /\ DOMAIN born = Request /\ DOMAIN ticket = Request
      OBVIOUS
    <3>3. ASSUME NEW s \in Request \ {r} PROVE KeptAt(s)
      BY ONLY <3>1, <3>2, s \in Request \ {r} DEF KeptAt, fetchVars
    <3>4. query' = query BY <2>2 DEF Take
    <3>5. QED BY <3>1, <3>3, <3>4
  <2>3. QED BY <1>1, <2>1, <2>2
<1>2. CASE Poll(r) BY <1>2 DEF Poll, KeptAt, fetchVars, lifeVars, TypeOK
<1>3. QED BY <1>1, <1>2, ActCases, ProceedsKeeps, DeliversKeeps DEF lifeVars

----------------------------------------------------------------------------
(* A fetch has asked for at most MaxPages pages, and none between fetches. *)
LEMMA PagesKept ==
  ASSUME TypeOK, NEW r \in Request, PagesSound(r), Act(r)
  PROVE  PagesSound(r)'
<1> USE DEF PagesSound, Fetching
<1>1. /\ made[r] \in Seq(Fetch) /\ pages[r] \in 0 .. MaxPages
      /\ query[r].fetches \in Seq(query[r].conns) /\ query' = query
  BY QueryTyped, OthersKept DEF TypeOK
<1>2. CASE TurnAway(r) \/ Take(r) \/ Poll(r)
  BY <1>1, <1>2 DEF TurnAway, Take, Poll, fetchVars, TypeOK
<1>3. ASSUME NEW o, Delivers(r, o) PROVE PagesSound(r)'
  BY <1>1, <1>3, DeliversKeeps DEF fetchVars
<1>4. CASE Route(r) \/ CacheMiss(r) \/ MorePages(r) \/ ContextEnds(r)
  <2>0. MaxPages \in Nat /\ 0 < MaxPages BY GatewayAssumption
  <2>1. pages' = pages /\ made' = made
    BY <1>4 DEF Route, CacheMiss, MorePages, ContextEnds, fetchVars
  <2>2. stage' = stage
          \/ (stage[r] = "route" /\ stage' = [stage EXCEPT ![r] = "fetch"])
          \/ /\ stage' = [stage EXCEPT ![r] = "gate"]
             /\ \/ stage[r] = "fetch"
                \/ stage[r] = "wait" /\ pages[r] < MaxPages
    BY <1>4 DEF Route, CacheMiss, MorePages, ContextEnds, To
  <2>3. CacheMiss(r) => Fetching(r) BY DEF CacheMiss
  <2>4. stage'[r] = "gate" => Fetching(r)
    BY <1>4, <2>2, <2>3 DEF Route, MorePages, ContextEnds, To, TypeOK
  <2>5. QED BY <1>1, <2>0, <2>1, <2>2, <2>4 DEF TypeOK
<1>5. CASE PageAllowed(r)
  BY <1>1, <1>5 DEF PageAllowed, To, TypeOK
<1>6. ASSUME NEW how, NEW age, Fetching(r), Fetched(r, how, age)
      PROVE  PagesSound(r)'
  <2> DEFINE m == [conn |-> Conn(r), how |-> how, age |-> age]
  <2>1. made'[r] = Append(made[r], m) /\ pages'[r] = 0 /\ stage'[r] = "fetch"
    BY <1>6 DEF Fetched, To, TypeOK
  <2> HIDE DEF m
  <2>2. Len(made'[r]) = Len(made[r]) + 1 BY <1>1, <2>1
  <2>3. QED BY <1>1, <1>6, <2>1, <2>2
<1>7. QED
  BY <1>2, <1>3, <1>4, <1>5, <1>6, ActCases
  DEF Proceeds, CacheHit, SourceAnswered

(* Tokens are only ever used up, and only a page that is allowed uses one. *)
LEMMA UsedGrows ==
  ASSUME TypeOK, NEW r \in Request, Act(r)
  PROVE  /\ buckets' \in [DOMAIN Budget -> Bucket]
         /\ DOMAIN buckets' = DOMAIN buckets
         /\ \A c \in DOMAIN buckets :
              /\ buckets'[c].limit = buckets[c].limit
              /\ buckets[c].used \in Nat /\ buckets'[c].used \in Nat
              /\ buckets[c].used <= buckets'[c].used
<1>1. buckets \in [DOMAIN Budget -> Bucket] BY DEF TypeOK
<1>2. \A c \in DOMAIN buckets : buckets[c].used \in Nat BY <1>1 DEF Bucket
<1>3. CASE buckets' = buckets BY <1>1, <1>2, <1>3
<1>4. CASE PageAllowed(r)
  <2>1. PICK d : Allow(d) BY <1>4 DEF PageAllowed
  <2>2. /\ buckets' \in [DOMAIN Budget -> Bucket]
        /\ \A c \in DOMAIN buckets :
             /\ buckets'[c].limit = buckets[c].limit
             /\ buckets'[c].used =
                  IF c = d THEN buckets[c].used + 1 ELSE buckets[c].used
    BY <2>1, AllowKeepsBuckets
  <2>3. DOMAIN buckets' = DOMAIN buckets BY <1>1, <2>2
  <2>4. \A c \in DOMAIN buckets :
          buckets'[c].used \in Nat /\ buckets[c].used <= buckets'[c].used
    BY <1>2, <2>2
  <2>5. QED BY <1>2, <2>2, <2>3, <2>4
<1>5. ~PageAllowed(r) => buckets' = buckets
  BY ActCases
  DEF Proceeds, Delivers, TurnAway, Take, Poll, Route, CacheHit, CacheMiss,
      MorePages, SourceAnswered, ContextEnds
<1>6. QED BY <1>3, <1>4, <1>5

LEMMA SpentKept ==
  ASSUME TypeOK, NEW r \in Request, PagesSound(r), SpentSound(r), Act(r)
  PROVE  SpentSound(r)'
<1> SUFFICES ASSUME NEW c \in Connectors
             PROVE  /\ stage'[r] = "new" => spent'[r][c] = 0
                    /\ Running(r)' /\ c \in DOMAIN buckets'
                         => spent'[r][c] <= buckets'[c].used
  BY DEF SpentSound, Limited
<1>1. /\ DOMAIN buckets' = DOMAIN buckets
      /\ c \in DOMAIN buckets =>
           /\ buckets[c].used \in Nat /\ buckets'[c].used \in Nat
           /\ buckets[c].used <= buckets'[c].used
  BY UsedGrows
<1>2. spent[r] \in [Connectors -> Nat] /\ spent[r][c] \in Nat BY DEF TypeOK
<1>3. CASE TurnAway(r) \/ Poll(r)
  BY <1>1, <1>2, <1>3
  DEF TurnAway, Poll, fetchVars, SpentSound, Limited, Running, TypeOK
<1>4. CASE Take(r)
  BY <1>1, <1>2, <1>4 DEF Take, fetchVars, SpentSound, TypeOK
<1>5. ASSUME NEW o, Delivers(r, o)
      PROVE  ~Running(r)' /\ stage'[r] # "new"
  BY <1>5, DeliversKeeps
<1>6. CASE Proceeds(r) /\ ~PageAllowed(r)
  <2>1. Running(r) /\ Running(r)' BY <1>6, ProceedsKeeps
  <2>2. spent' = spent
    BY <1>6 DEF Proceeds, Route, CacheHit, CacheMiss, MorePages,
       SourceAnswered, ContextEnds, fetchVars
  <2>3. QED BY <1>1, <1>2, <2>1, <2>2 DEF SpentSound, Limited, Running
<1>7. CASE PageAllowed(r)
  <2>1. Conn(r) \in Connectors /\ Running(r) /\ stage'[r] = "wait"
    BY <1>7, FetchTyped DEF PageAllowed, PagesSound, Running, To, TypeOK
  <2>2. spent'[r][c] = IF c = Conn(r) THEN spent[r][c] + 1 ELSE spent[r][c]
    BY <1>2, <1>7, <2>1 DEF PageAllowed, TypeOK
  <2>3. c \in DOMAIN buckets /\ c = Conn(r) =>
          buckets'[c].used = buckets[c].used + 1
    BY <1>7, AllowKeepsBuckets DEF PageAllowed
  <2>4. QED BY <1>1, <1>2, <2>1, <2>2, <2>3 DEF SpentSound, Limited
<1>8. QED BY <1>3, <1>4, <1>5, <1>6, <1>7, ActCases

(* What the requests that do not move have spent is still covered. *)
LEMMA SpentOfOthersKept ==
  ASSUME TypeOK, NEW r \in Request, PagesSound(r), Act(r),
         NEW s \in Request \ {r}, SpentSound(s)
  PROVE  SpentSound(s)'
<1> SUFFICES ASSUME NEW c \in Connectors
             PROVE  /\ stage'[s] = "new" => spent'[s][c] = 0
                    /\ Running(s)' /\ c \in DOMAIN buckets'
                         => spent'[s][c] <= buckets'[c].used
  BY DEF SpentSound, Limited
<1>1. stage'[s] = stage[s] /\ spent'[s] = spent[s]
  BY OthersKept DEF KeptAt
<1>2. /\ DOMAIN buckets' = DOMAIN buckets
      /\ c \in DOMAIN buckets =>
           /\ buckets[c].used \in Nat /\ buckets'[c].used \in Nat
           /\ buckets[c].used <= buckets'[c].used
  BY UsedGrows
<1>3. spent[s][c] \in Int BY DEF TypeOK
<1>4. QED BY <1>1, <1>2, <1>3 DEF SpentSound, Limited, Running

----------------------------------------------------------------------------
(* A Source tells of the fetches it saw. *)

(* What a fetch that ends now adds to made. *)
LEMMA FetchedAppends ==
  ASSUME TypeOK, NEW r \in Request, Fetching(r), NEW how, NEW age,
         Fetched(r, how, age)
  PROVE  /\ DOMAIN made'[r] = DOMAIN made[r] \cup {Len(made[r]) + 1}
         /\ Len(made[r]) + 1 \notin DOMAIN made[r]
         /\ \A k \in DOMAIN made[r] : made'[r][k] = made[r][k]
         /\ made'[r][Len(made[r]) + 1] =
              [conn |-> Conn(r), how |-> how, age |-> age]
         /\ Conn(r) = query[r].fetches[Len(made[r]) + 1]
<1> DEFINE m == [conn |-> Conn(r), how |-> how, age |-> age]
<1>1. made[r] \in Seq(Fetch) BY DEF TypeOK
<1>2. made'[r] = Append(made[r], m) BY DEF Fetched, TypeOK
<1>3. Conn(r) = query[r].fetches[Len(made[r]) + 1] BY DEF Conn
<1> HIDE DEF m
<1>4. QED BY <1>1, <1>2, <1>3 DEF m

LEMMA SourceKeptByFetch ==
  ASSUME TypeOK, NEW r \in Request, Fetching(r), NEW how, NEW age,
         PagesSound(r), SourceSound(r), Fetched(r, how, age),
         \A c \in Connectors \ {Conn(r)} : source'[r][c] = source[r][c],
         how = "hit" => /\ source'[r][Conn(r)].cacheHit
                        /\ source'[r][Conn(r)].ageMS = age
                        /\ source'[r][Conn(r)].revalidated <=>
                             source[r][Conn(r)].revalidated,
         how # "hit" => /\ source'[r][Conn(r)].cacheHit <=>
                             source[r][Conn(r)].cacheHit
                        /\ source'[r][Conn(r)].revalidated <=>
                             (source[r][Conn(r)].revalidated
                                \/ how = "revalidated")
  PROVE  SourceSound(r)'
<1> DEFINE n == Len(made[r]) + 1
           seen(c) == {k \in DOMAIN made[r] : made[r][k].conn = c}
           seenNow(c) == {k \in DOMAIN made'[r] : made'[r][k].conn = c}
<1>1. /\ DOMAIN made'[r] = DOMAIN made[r] \cup {n}
      /\ n \notin DOMAIN made[r]
      /\ \A k \in DOMAIN made[r] : made'[r][k] = made[r][k]
      /\ made'[r][n].conn = Conn(r) /\ made'[r][n].how = how
      /\ made'[r][n].age = age
      /\ Conn(r) = query[r].fetches[n]
  <2>1. /\ DOMAIN made'[r] = DOMAIN made[r] \cup {n}
        /\ n \notin DOMAIN made[r]
        /\ \A k \in DOMAIN made[r] : made'[r][k] = made[r][k]
        /\ made'[r][n] = [conn |-> Conn(r), how |-> how, age |-> age]
        /\ Conn(r) = query[r].fetches[n]
    BY FetchedAppends
  <2> HIDE DEF n
  <2>2. QED BY <2>1
<1>2. query' = query BY DEF Fetched, To
<1>3. \A k \in DOMAIN made'[r] : made'[r][k].conn = query'[r].fetches[k]
  BY <1>1, <1>2 DEF SourceSound
<1>4. ASSUME OncePerConnector(query[r]), NEW c \in Connectors
      PROVE  /\ source'[r][c].cacheHit => \E k \in seenNow(c) : made'[r][k].how = "hit"
             /\ source'[r][c].revalidated <=>
                  \E k \in seenNow(c) : made'[r][k].how = "revalidated"
             /\ \A k \in seenNow(c) : made'[r][k].how = "hit" =>
                  made'[r][k].age = source'[r][c].ageMS
  <2>1. /\ source[r][c].cacheHit => \E k \in seen(c) : made[r][k].how = "hit"
        /\ source[r][c].revalidated <=>
             \E k \in seen(c) : made[r][k].how = "revalidated"
        /\ \A k \in seen(c) : made[r][k].how = "hit" =>
             made[r][k].age = source[r][c].ageMS
    BY <1>4 DEF SourceSound
  <2>2. CASE c # Conn(r)
    <3>1. seenNow(c) = seen(c) BY <1>1, <2>2
    <3>2. source'[r][c] = source[r][c] BY <2>2
    <3>3. \A k \in seen(c) : made'[r][k] = made[r][k] BY <1>1
    <3> HIDE DEF seen, seenNow
    <3>4. QED BY <2>1, <3>1, <3>2, <3>3
  <2>3. CASE c = Conn(r)
    <3>1. n \in DOMAIN query[r].fetches
      BY FetchTyped
    <3>2. DOMAIN made[r] \subseteq DOMAIN query[r].fetches
      <4>1. made[r] \in Seq(Fetch) BY DEF TypeOK
      <4>2. QED BY <4>1, QueryTyped DEF PagesSound
    <3>3. seen(c) = {}
      <4>1. SUFFICES ASSUME NEW k \in seen(c) PROVE FALSE OBVIOUS
      <4>2. query[r].fetches[k] = c BY DEF SourceSound
      <4>3. k = n BY <1>1, <1>4, <2>3, <3>1, <3>2, <4>2 DEF OncePerConnector
      <4>4. QED BY <1>1, <4>3
    <3>4. seenNow(c) = {n} BY <1>1, <2>3, <3>3
    <3> HIDE DEF seen, seenNow, n
    <3>5. ~source[r][c].cacheHit /\ ~source[r][c].revalidated
      BY <2>1, <3>3
    <3>6. QED BY <1>1, <2>3, <3>4, <3>5
  <2>4. QED BY <2>2, <2>3
<1>5. QED BY <1>2, <1>3, <1>4 DEF SourceSound, OncePerConnector

LEMMA SourceKept ==
  ASSUME TypeOK, NEW r \in Request, PagesSound(r), SourceSound(r), Act(r)
  PROVE  SourceSound(r)'
<1>1. CASE made' = made /\ source' = source
  BY <1>1, OthersKept DEF SourceSound, OncePerConnector
<1>2. CASE CacheHit(r)
  <2>1. PICK age \in Age :
          /\ Fetched(r, "hit", age)
          /\ source' = [source EXCEPT ![r][Conn(r)] =
                          [@ EXCEPT !.cacheHit = TRUE, !.ageMS = age]]
    BY <1>2 DEF CacheHit
  <2>2. Fetching(r) BY <1>2 DEF CacheHit
  <2>3. age \in Int /\ Conn(r) \in Connectors
    BY <2>2, GatewayAssumption, FetchTyped
  <2>4. PICK new \in Freshness :
          /\ source' = [source EXCEPT ![r] = [source[r] EXCEPT ![Conn(r)] = new]]
          /\ new.cacheHit /\ new.ageMS = age
          /\ new.revalidated <=> source[r][Conn(r)].revalidated
    BY <2>1, <2>2, <2>3, HitSource
  <2>5. source'[r][Conn(r)] = new
        /\ \A c \in Connectors \ {Conn(r)} : source'[r][c] = source[r][c]
    BY <2>3, <2>4, SourceTyped
  <2>6. QED BY <2>1, <2>2, <2>4, <2>5, SourceKeptByFetch
<1>3. CASE SourceAnswered(r)
  <2>1. PICK revalidated \in {FALSE, query[r].cached} :
          /\ Fetched(r, IF revalidated THEN "revalidated" ELSE "fresh", 0)
          /\ source' =
               IF query[r].cached
               THEN [source EXCEPT ![r][Conn(r)] =
                       [@ EXCEPT !.ageMS = 0,
                                 !.revalidated = source[r][Conn(r)].revalidated
                                                   \/ revalidated]]
               ELSE source
    BY <1>3 DEF SourceAnswered
  <2> DEFINE how == IF revalidated THEN "revalidated" ELSE "fresh"
  <2>2. Fetching(r) BY <1>3 DEF SourceAnswered, PagesSound
  <2>3. Conn(r) \in Connectors /\ revalidated \in BOOLEAN
    BY <2>2, FetchTyped, QueryTyped
  <2>4. how # "hit" /\ (how = "revalidated" <=> revalidated)
        /\ Fetched(r, how, 0)
    BY <2>1, <2>3
  <2>5. CASE query[r].cached
    <3>1. PICK new \in Freshness :
            /\ source' = [source EXCEPT ![r] = [source[r] EXCEPT ![Conn(r)] = new]]
            /\ new.cacheHit <=> source[r][Conn(r)].cacheHit
            /\ new.revalidated <=>
                 (source[r][Conn(r)].revalidated \/ revalidated)
      BY <2>1, <2>2, <2>3, <2>5, AnsweredSource
    <3>2. source'[r][Conn(r)] = new
          /\ \A c \in Connectors \ {Conn(r)} : source'[r][c] = source[r][c]
      BY <2>3, <3>1, SourceTyped
    <3> HIDE DEF how
    <3>3. QED BY <2>2, <2>4, <3>1, <3>2, SourceKeptByFetch
  <2>6. CASE ~query[r].cached
    <3>1. source' = source /\ ~revalidated BY <2>1, <2>6
    <3> HIDE DEF how
    <3>2. QED BY <2>2, <2>4, <3>1, SourceKeptByFetch
  <2>7. QED BY <2>5, <2>6, QueryTyped
<1>4. ~CacheHit(r) /\ ~SourceAnswered(r) => made' = made /\ source' = source
  BY ActCases
  DEF Proceeds, Delivers, TurnAway, Take, Poll, Route, CacheMiss,
      MorePages, PageAllowed, ContextEnds, fetchVars
<1>5. QED BY <1>1, <1>2, <1>3, <1>4

----------------------------------------------------------------------------
(* Outcomes. *)

(* What a request that ended did stays as it is. *)
LEMMA EndedKept ==
  ASSUME TypeOK, NEW r \in Request, PagesSound(r), Act(r)
  PROVE  /\ query' = query
         /\ \A s \in Request : stage[s] = "ended" =>
              stage'[s] = "ended" /\ made'[s] = made[s] /\ spent'[s] = spent[s]
<1>1. stage[r] = "ended" => Poll(r)
  BY ActCases, ProceedsKeeps, DeliversKeeps DEF TurnAway, Take, Running
<1>2. Poll(r) => stage' = stage /\ made' = made /\ spent' = spent
  BY DEF Poll, fetchVars
<1>3. QED BY <1>1, <1>2, OthersKept DEF KeptAt

LEMMA OutcomeKept ==
  ASSUME query' = query,
         \A s \in Request : stage[s] = "ended" =>
           stage'[s] = "ended" /\ made'[s] = made[s] /\ spent'[s] = spent[s],
         DOMAIN buckets' = DOMAIN buckets,
         NEW o, o.trace \in Request, OutcomeSound(o)
  PROVE  OutcomeSound(o)'
BY DEF OutcomeSound, RateCovers, SummaryCovers, FetchesOf, Mode, Limited,
       OncePerConnector

(* The answer is read after every fetch: the budget it reports leaves room *)
(* for the tokens spent, and its freshness is that of the stalest fetch.   *)
LEMMA EnvelopeCovers ==
  ASSUME TypeOK, NEW r \in Request, PagesSound(r), SpentSound(r), SourceSound(r),
         \A c \in DOMAIN buckets : buckets[c].limit = Budget[c],
         Running(r), ~Fetching(r)
  PROVE  RateCovers(Envelope(r)) /\ SummaryCovers(Envelope(r))
<1> DEFINE o == Envelope(r)
           flags == [c \in query[r].conns |-> source[r][c]]
<1>1. /\ o.trace = r /\ o.summary = Summarize(flags)
      /\ o.rate = RateStatus(r)
  BY DEF Envelope, Outcome, SummaryOf
<1>2. query[r].conns \subseteq Connectors /\ IsFiniteSet(query[r].conns)
      /\ query[r].fetches \in Seq(query[r].conns)
  BY QueryTyped
<1> HIDE DEF o
<1>3. ASSUME NEW c \in DOMAIN o.rate, Limited(c)
      PROVE  o.rate[c] <= Budget[c] - spent[o.trace][c]
  <2>1. c \in query[r].conns /\ c \in Connectors /\ o.rate[c] = Remaining(c)
    BY <1>1, <1>2, <1>3, RateTyped
  <2>2. spent[r][c] <= buckets[c].used BY <1>3, <2>1 DEF SpentSound
  <2>3. Remaining(c) = Budget[c] - buckets[c].used
    BY <1>3 DEF Remaining, Limited
  <2>4. spent[r][c] \in Nat /\ buckets[c].used \in Nat /\ Budget[c] \in Nat
    BY <1>3, <2>1, BudgetAssumption DEF TypeOK, Limited, Bucket
  <2>5. QED BY <1>1, <2>1, <2>2, <2>3, <2>4
<1>4. ASSUME OncePerConnector(query[o.trace])
      PROVE  /\ o.summary.cacheHit => \A f \in FetchesOf(o) : f.how = "hit"
             /\ \A f \in FetchesOf(o) : f.how = "hit" => f.age <= o.summary.ageMS
             /\ o.summary.revalidated <=>
                  \E f \in FetchesOf(o) : f.how = "revalidated"
  <2>1. flags \in [query[r].conns -> Freshness] BY <1>2 DEF TypeOK
  <2>2. /\ \A c \in query[r].conns : source[r][c].ageMS <= o.summary.ageMS
        /\ o.summary.cacheHit => \A c \in query[r].conns : source[r][c].cacheHit
        /\ o.summary.revalidated <=>
             \E c \in query[r].conns : source[r][c].revalidated
    <3>1. /\ \A c \in query[r].conns : flags[c].ageMS <= o.summary.ageMS
          /\ o.summary.cacheHit => \A c \in query[r].conns : flags[c].cacheHit
          /\ o.summary.revalidated <=>
               \E c \in query[r].conns : flags[c].revalidated
      <4> HIDE DEF flags
      <4>1. QED BY <1>1, <1>2, <2>1, SummaryTyped
    <3>2. \A c \in query[r].conns : flags[c] = source[r][c] OBVIOUS
    <3>3. QED BY <3>1, <3>2
  <2>3. FetchesOf(o) = {made[r][k] : k \in DOMAIN made[r]}
    BY <1>1 DEF FetchesOf
  <2>4. DOMAIN made[r] = DOMAIN query[r].fetches
    <3>1. made[r] \in Seq(Fetch) BY DEF TypeOK
    <3>2. QED BY <1>2, <3>1 DEF PagesSound, Fetching
  <2>5. ASSUME NEW k \in DOMAIN made[r]
        PROVE  /\ made[r][k].conn = query[r].fetches[k]
               /\ made[r][k].conn \in query[r].conns
    BY <1>2, <2>4, <2>5 DEF SourceSound
  <2>6. ASSUME NEW k \in DOMAIN made[r], NEW j \in DOMAIN made[r],
               made[r][k].conn = made[r][j].conn
        PROVE  k = j
    BY <1>1, <1>4, <2>4, <2>5, <2>6 DEF OncePerConnector
  <2>7. ASSUME NEW c \in Connectors
        PROVE  /\ source[r][c].cacheHit =>
                    \E k \in DOMAIN made[r] :
                      made[r][k].conn = c /\ made[r][k].how = "hit"
               /\ source[r][c].revalidated <=>
                    \E k \in DOMAIN made[r] :
                      made[r][k].conn = c /\ made[r][k].how = "revalidated"
               /\ \A k \in DOMAIN made[r] :
                    made[r][k].conn = c /\ made[r][k].how = "hit" =>
                      made[r][k].age = source[r][c].ageMS
    BY <1>1, <1>4, <2>7 DEF SourceSound
  <2>8. ASSUME NEW k \in DOMAIN made[r], o.summary.cacheHit
        PROVE  made[r][k].how = "hit"
    <3>1. source[r][made[r][k].conn].cacheHit BY <2>2, <2>5, <2>8
    <3>2. PICK j \in DOMAIN made[r] :
            made[r][j].conn = made[r][k].conn /\ made[r][j].how = "hit"
      BY <1>2, <2>5, <2>7, <3>1
    <3>3. QED BY <2>6, <3>2
  <2>9. ASSUME NEW k \in DOMAIN made[r], made[r][k].how = "hit"
        PROVE  made[r][k].age <= o.summary.ageMS
    BY <1>2, <2>2, <2>5, <2>7, <2>9
  <2>10. o.summary.revalidated <=>
           \E k \in DOMAIN made[r] : made[r][k].how = "revalidated"
    BY <1>2, <2>2, <2>5, <2>7
  <2>11. QED BY <2>3, <2>8, <2>9, <2>10
<1>5. QED BY <1>3, <1>4 DEF RateCovers, SummaryCovers, o

LEMMA DeliveredSound ==
  ASSUME TypeOK, NEW r \in Request, RequestSound(r),
         \A c \in DOMAIN buckets : buckets[c].limit = Budget[c],
         NEW o, Delivers(r, o), MayDeliver(r, o)
  PROVE  /\ o.trace = r /\ IsOutcome(o) /\ OutcomeSound(o)'
         /\ Mode(r) = "async" => o.err # "cancelled"
<1>1. frame[r].trace = r BY DEF RequestSound, TicketSound
<1>2. ASSUME NEW err \in Errors \ {"none"},
             o \in {Failed(r, err), Outcome(r, err, NoSummary, NoRate)},
             err = "cancelled" => Mode(r) # "async"
      PROVE  /\ o.trace = r /\ IsOutcome(o) /\ o.err # "none"
             /\ Mode(r) = "async" => o.err # "cancelled"
  <2>1. Outcome(r, err, NoSummary, NoRate).trace = r
        /\ Outcome(r, err, NoSummary, NoRate).err = err
    BY DEF Outcome
  <2>2. Failed(r, err).trace = r /\ Failed(r, err).err = err
    BY <1>1, <2>1, FrameTyped DEF Failed
  <2>3. QED BY <1>2, <2>1, <2>2, DeliveredTyped, NothingTyped
<1>3. ASSUME stage[r] = "fetch", ~Fetching(r), o = Succeeded(r)
      PROVE  /\ o.trace = r /\ IsOutcome(o) /\ o.err = "none"
             /\ OutcomeSound(o)'
  <2>1. IsOutcome(o) BY <1>3, DeliveredTyped
  <2>2. CASE Mode(r) = "stream"
    <3>1. o.trace = r /\ o.err = "none"
      BY <1>1, <1>3, <2>2, FrameTyped DEF Succeeded, Errors
    <3>2. query' = query BY DeliversKeeps
    <3>3. QED BY <2>1, <2>2, <3>1, <3>2 DEF OutcomeSound, Mode
  <2>3. CASE Mode(r) # "stream"
    <3>1. o = Envelope(r) BY <1>3, <2>3 DEF Succeeded
    <3>2. o.trace = r /\ o.err = "none" BY <3>1 DEF Envelope, Outcome
    <3>3. Running(r) BY DeliversKeeps
    <3>4. RateCovers(o) /\ SummaryCovers(o)
      BY <1>3, <3>1, <3>3, EnvelopeCovers DEF RequestSound
    <3>5. /\ UNCHANGED <<buckets, made, spent, query>>
          /\ stage'[r] = "ended"
      BY DeliversKeeps DEF fetchVars
    <3>6. RateCovers(o)' /\ SummaryCovers(o)'
      BY <3>4, <3>5
      DEF RateCovers, SummaryCovers, FetchesOf, Limited, OncePerConnector
    <3>7. QED BY <2>1, <3>2, <3>5, <3>6 DEF OutcomeSound
  <2>4. QED BY <2>2, <2>3
<1>4. QED BY <1>2, <1>3 DEF MayDeliver, OutcomeSound

----------------------------------------------------------------------------
(* Tickets and jobs. *)

(* What a step of r does to the jobs. *)
LEMMA JobsMove ==
  ASSUME TypeOK, NEW r \in Request, PagesSound(r), Act(r)
  PROVE  \/ UNCHANGED <<jobs, jobSeq, ticket>>
         \/ /\ Take(r) /\ Mode(r) = "async"
            /\ ticket' = [ticket EXCEPT ![r] = jobSeq + 1]
            /\ jobSeq + 1 \notin DOMAIN jobs /\ jobSeq + 1 # 0
            /\ DOMAIN jobs' = DOMAIN jobs \cup {jobSeq + 1}
            /\ jobs'[jobSeq + 1].out.trace = r
            /\ jobs'[jobSeq + 1].out.err = "none yet"
            /\ ~jobs'[jobSeq + 1].done
            /\ \A i \in DOMAIN jobs : jobs'[i] = jobs[i]
         \/ /\ Mode(r) = "async" /\ UNCHANGED <<jobSeq, ticket>>
            /\ \E o : /\ Delivers(r, o) /\ MayDeliver(r, o)
                     /\ jobs' = [jobs EXCEPT ![ticket[r]] =
                                   [done |-> TRUE, out |-> o]]
<1>1. CASE TurnAway(r) \/ Poll(r) BY <1>1 DEF TurnAway, Poll, jobVars
<1>2. CASE Proceeds(r) BY <1>2, ProceedsKeeps DEF jobVars
<1>3. CASE Take(r) /\ Mode(r) = "async"
  <2> DEFINE n == jobSeq + 1
             job == [done |-> FALSE, out |-> NoOutcome(r)]
  <2>1. n \notin DOMAIN jobs /\ n # 0 BY DEF TypeOK
  <2>2. /\ ticket' = [ticket EXCEPT ![r] = n]
        /\ jobs' = [i \in DOMAIN jobs \cup {n} |-> IF i = n THEN job ELSE jobs[i]]
    BY <1>3 DEF Take, NextJobId
  <2>3. job.out.trace = r /\ job.out.err = "none yet" /\ ~job.done
    BY DEF NoOutcome, Outcome
  <2> HIDE DEF n, job
  <2>4. /\ DOMAIN jobs' = DOMAIN jobs \cup {n} /\ jobs'[n] = job
        /\ \A i \in DOMAIN jobs : jobs'[i] = jobs[i]
    BY <2>1, <2>2
  <2>5. QED BY <1>3, <2>1, <2>2, <2>3, <2>4 DEF n
<1>4. CASE Take(r) /\ Mode(r) # "async" BY <1>4 DEF Take
<1>5. ASSUME NEW o, Delivers(r, o), MayDeliver(r, o)
      PROVE  \/ UNCHANGED <<jobs, jobSeq, ticket>>
             \/ /\ Mode(r) = "async" /\ UNCHANGED <<jobSeq, ticket>>
                /\ jobs' = [jobs EXCEPT ![ticket[r]] = [done |-> TRUE, out |-> o]]
  BY <1>5 DEF Delivers, Deliver
<1>6. QED BY <1>1, <1>2, <1>3, <1>4, <1>5, ActCases

(* Two requests of one life have two jobs. *)
LEMMA OwnTicket ==
  ASSUME NEW r \in Request, NEW s \in Request, TicketSound(r), TicketSound(s),
         ticket[r] # 0, ticket[s] = ticket[r], born[r] = life, born[s] = life
  PROVE  r = s
BY DEF TicketSound

(* A delivered job is that of the request, and was not done before. *)
LEMMA DeliveredJob ==
  ASSUME TypeOK, NEW r \in Request, RequestSound(r), Running(r), Mode(r) = "async"
  PROVE  /\ ticket[r] # 0 /\ born[r] = life /\ ticket[r] \in DOMAIN jobs
         /\ jobs[ticket[r]].out.trace = r /\ ~jobs[ticket[r]].done
BY DEF RequestSound, TicketSound

LEMMA TicketKept ==
  ASSUME TypeOK, NEW r \in Request, RequestSound(r), Act(r)
  PROVE  TicketSound(r)'
<1>1. /\ TicketSound(r) /\ PagesSound(r) /\ life' = life /\ query' = query
      /\ ticket[r] \in Nat /\ life \in Nat /\ born[r] \in Nat
  BY OthersKept DEF RequestSound, TypeOK
<1>2. CASE TurnAway(r)
  <2>1. /\ stage'[r] = "ended" /\ born'[r] = life /\ ticket' = ticket
        /\ frame' = frame /\ polled' = polled /\ ticket[r] = 0
    BY <1>1, <1>2 DEF TurnAway, TicketSound, fetchVars, jobVars, TypeOK
  <2>2. QED BY <1>1, <2>1 DEF TicketSound, Running
<1>3. CASE Take(r)
  <2>1. /\ stage'[r] = "route" /\ born'[r] = life /\ frame' = frame
        /\ polled' = polled /\ ticket[r] = 0 /\ polled[r].life = -1
    BY <1>1, <1>3 DEF Take, TicketSound, fetchVars, TypeOK
  <2>2. CASE Mode(r) # "async"
    <3>1. ticket' = ticket BY <1>3, <2>2 DEF Take
    <3>2. QED BY <1>1, <2>1, <2>2, <3>1 DEF TicketSound, Running, Mode
  <2>3. CASE Mode(r) = "async"
    <3>1. /\ ticket'[r] = jobSeq + 1 /\ jobSeq + 1 # 0
          /\ jobSeq + 1 \in DOMAIN jobs'
          /\ jobs'[jobSeq + 1].out.trace = r /\ ~jobs'[jobSeq + 1].done
      <4>1. jobSeq' = jobSeq + 1 /\ jobSeq + 1 # jobSeq
        BY <1>3, <2>3 DEF Take, NextJobId, TypeOK
      <4>2. ~Running(r) BY <1>3 DEF Take, Running
      <4>3. QED BY <1>1, <4>1, <4>2, JobsMove, DeliversKeeps DEF TypeOK
    <3>2. QED BY <1>1, <2>1, <2>3, <3>1 DEF TicketSound, Running, Mode
  <2>4. QED BY <2>2, <2>3
<1>4. CASE Poll(r)
  <2>1. ticket[r] # 0 /\ UNCHANGED <<stage, born, ticket, jobs, frame>>
    BY <1>4 DEF Poll, lifeVars, fetchVars
  <2>2. QED BY <1>1, <2>1 DEF TicketSound, Running, Mode
<1>5. CASE Proceeds(r)
  <2>1. UNCHANGED <<query, jobs, ticket, polled, life, born>>
        /\ Running(r) /\ Running(r)'
    BY <1>1, <1>5, ProceedsKeeps DEF jobVars, lifeVars
  <2>2. frame'[r].trace = r
    <3>1. CASE Route(r)
      <4> DEFINE o == Outcome(r, "none yet", SummaryOf(r), RateStatus(r))
      <4>1. o.trace = r BY DEF Outcome
      <4>2. frame' = frame \/ frame' = [frame EXCEPT ![r] = o]
        BY <3>1 DEF Route
      <4> HIDE DEF o
      <4>3. QED BY <1>1, <4>1, <4>2 DEF TicketSound, TypeOK
    <3>2. ~Route(r) => frame' = frame
      BY <1>5
      DEF Proceeds, CacheHit, CacheMiss, PageAllowed, MorePages,
          SourceAnswered, ContextEnds, fetchVars
    <3>3. QED BY <1>1, <3>1, <3>2 DEF TicketSound
  <2>3. QED BY <1>1, <2>1, <2>2 DEF TicketSound, Running, Mode
<1>6. ASSUME NEW o, Delivers(r, o), MayDeliver(r, o)
      PROVE  TicketSound(r)'
  <2>1. /\ UNCHANGED <<frame, ticket, polled, life, born>>
        /\ stage'[r] = "ended" /\ Running(r) /\ ~Running(r)'
    BY <1>6, DeliversKeeps DEF fetchVars, lifeVars
  <2>2. CASE Mode(r) # "async"
    <3>1. ticket[r] = 0 BY <1>1, <2>1, <2>2 DEF TicketSound
    <3>2. QED BY <1>1, <2>1, <3>1 DEF TicketSound
  <2>3. CASE Mode(r) = "async"
    <3> DEFINE job == [done |-> TRUE, out |-> o]
    <3>1. jobs' = [jobs EXCEPT ![ticket[r]] = job]
      BY <1>6, <2>3 DEF Delivers, Deliver
    <3>2. job.done /\ job.out = o OBVIOUS
    <3> HIDE DEF job
    <3>3. ticket[r] \in DOMAIN jobs' /\ jobs'[ticket[r]] = job
      BY <2>1, <2>3, <3>1, DeliveredJob
    <3>4. o.trace = r
      <4>1. CASE o = Succeeded(r)
        BY <1>1, <2>3, <4>1 DEF Succeeded, Envelope, Outcome
      <4>2. ASSUME NEW err, o \in {Failed(r, err), Outcome(r, err, NoSummary, NoRate)}
            PROVE  o.trace = r
        BY <2>3, <4>2 DEF Failed, Outcome
      <4>3. QED BY <1>6, <4>1, <4>2 DEF MayDeliver
    <3>5. QED BY <1>1, <2>1, <3>2, <3>3, <3>4 DEF TicketSound
  <2>4. QED BY <2>2, <2>3
<1>7. QED BY <1>2, <1>3, <1>4, <1>5, <1>6, ActCases

LEMMA JobOfOthersKept ==
  ASSUME TypeOK, NEW r \in Request, RequestSound(r), Act(r),
         NEW s \in Request \ {r}, TicketSound(s), ticket[s] # 0, born[s] = life
  PROVE  /\ ticket[s] \in DOMAIN jobs /\ ticket[s] \in DOMAIN jobs'
         /\ jobs'[ticket[s]] = jobs[ticket[s]]
<1>1. ticket[s] \in DOMAIN jobs /\ PagesSound(r)
  BY DEF TicketSound, RequestSound
<1>2. ASSUME NEW o, Delivers(r, o), Mode(r) = "async",
             jobs' = [jobs EXCEPT ![ticket[r]] = [done |-> TRUE, out |-> o]]
      PROVE  ticket[s] \in DOMAIN jobs' /\ jobs'[ticket[s]] = jobs[ticket[s]]
  <2>1. ticket[r] # ticket[s]
    BY <1>2, DeliversKeeps, DeliveredJob, OwnTicket DEF RequestSound
  <2>2. QED BY <1>1, <1>2, <2>1
<1>3. QED BY <1>1, <1>2, JobsMove

LEMMA TicketOfOthersKept ==
  ASSUME TypeOK, NEW r \in Request, RequestSound(r), Act(r),
         NEW s \in Request \ {r}, TicketSound(s)
  PROVE  TicketSound(s)'
<1>1. KeptAt(s) /\ query' = query /\ life' = life
  BY OthersKept DEF RequestSound
<1>2. QED BY <1>1, JobOfOthersKept DEF TicketSound, KeptAt, Running, Mode

LEMMA JobsKept ==
  ASSUME TypeOK, IInv, NEW r \in Request, Act(r)
  PROVE  \A i \in DOMAIN jobs' : JobSound(i)'
<1>1. RequestSound(r) /\ PagesSound(r) BY DEF IInv, RequestSound
<1>2. /\ query' = query /\ life' = life
      /\ \A s \in Request \ {r} : KeptAt(s)
  BY <1>1, OthersKept
<1>3. ASSUME NEW i \in DOMAIN jobs',
             \E s \in Request : ticket'[s] = i /\ born'[s] = life',
             jobs'[i].out.err # "cancelled",
             \A o : jobs'[i].done /\ o = jobs'[i].out => OutcomeSound(o)'
      PROVE  JobSound(i)'
  BY <1>3 DEF JobSound
<1>4. ASSUME NEW i \in DOMAIN jobs
      PROVE  /\ \E s \in Request : ticket[s] = i /\ born[s] = life
             /\ jobs[i].out.err # "cancelled" /\ i # 0
             /\ \A o : jobs[i].done /\ o = jobs[i].out => OutcomeSound(o)'
  <2>1. JobSound(i) BY <1>4 DEF IInv
  <2>2. jobs[i].out.trace \in Request /\ i # 0 BY <1>4 DEF TypeOK, IsOutcome
  <2>3. ASSUME NEW o, o = jobs[i].out, OutcomeSound(o) PROVE OutcomeSound(o)'
    BY <1>1, <2>2, <2>3, EndedKept, UsedGrows, OutcomeKept
  <2>4. QED BY <2>1, <2>2, <2>3 DEF JobSound
<1>5. ASSUME NEW i \in DOMAIN jobs, ~Take(r) \/ Mode(r) # "async"
      PROVE  \E s \in Request : ticket'[s] = i /\ born'[s] = life'
  <2>1. PICK s \in Request : ticket[s] = i /\ born[s] = life BY <1>4, <1>5
  <2>2. ticket' = ticket BY <1>1, <1>5, JobsMove
  <2>3. s = r => born'[r] = life
    BY <1>1, <2>1, ActCases, ProceedsKeeps, DeliversKeeps
    DEF TurnAway, Take, Poll, lifeVars, TypeOK
  <2>4. QED BY <1>2, <2>1, <2>2, <2>3 DEF KeptAt
<1>6. CASE UNCHANGED <<jobs, jobSeq, ticket>>
  <2>1. ~Take(r) \/ Mode(r) # "async"
    BY <1>6 DEF Take, NextJobId, TypeOK
  <2>2. QED BY <1>3, <1>4, <1>5, <1>6, <2>1
<1>7. CASE /\ Take(r) /\ Mode(r) = "async"
           /\ ticket' = [ticket EXCEPT ![r] = jobSeq + 1]
           /\ DOMAIN jobs' = DOMAIN jobs \cup {jobSeq + 1}
           /\ jobs'[jobSeq + 1].out.err = "none yet"
           /\ ~jobs'[jobSeq + 1].done
           /\ \A i \in DOMAIN jobs : jobs'[i] = jobs[i]
  <2>1. born'[r] = life /\ ticket'[r] = jobSeq + 1 /\ ticket[r] = 0
    BY <1>1, <1>7 DEF Take, RequestSound, TicketSound, TypeOK
  <2>2. ASSUME NEW i \in DOMAIN jobs
        PROVE  \E s \in Request : ticket'[s] = i /\ born'[s] = life'
    <3>1. PICK s \in Request : ticket[s] = i /\ born[s] = life BY <1>4
    <3>2. s # r BY <1>4, <2>1, <3>1
    <3>3. QED BY <1>2, <3>1, <3>2 DEF KeptAt
  <2>3. ASSUME NEW i \in DOMAIN jobs' PROVE JobSound(i)'
    <3>1. CASE i = jobSeq + 1 BY <1>2, <1>3, <1>7, <2>1, <3>1
    <3>2. CASE i \in DOMAIN jobs BY <1>3, <1>4, <1>7, <2>2, <3>2
    <3>3. QED BY <1>7, <3>1, <3>2
  <2>4. QED BY <2>3
<1>8. ASSUME NEW o, Delivers(r, o), MayDeliver(r, o), Mode(r) = "async",
             jobs' = [jobs EXCEPT ![ticket[r]] = [done |-> TRUE, out |-> o]]
      PROVE  \A i \in DOMAIN jobs' : JobSound(i)'
  <2> DEFINE job == [done |-> TRUE, out |-> o]
  <2>1. job.done /\ job.out = o OBVIOUS
  <2>2. jobs' = [jobs EXCEPT ![ticket[r]] = job] BY <1>8
  <2> HIDE DEF job
  <2>3. ~Take(r) BY <1>8 DEF Take, Delivers, Running
  <2>4. OutcomeSound(o)' /\ o.err # "cancelled"
    BY <1>1, <1>8, DeliveredSound DEF IInv
  <2>5. ASSUME NEW i \in DOMAIN jobs' PROVE JobSound(i)'
    <3>1. i \in DOMAIN jobs /\ (jobs'[i] = jobs[i] \/ jobs'[i] = job)
      BY <2>2
    <3>2. \E s \in Request : ticket'[s] = i /\ born'[s] = life'
      BY <1>5, <2>3, <3>1
    <3>3. CASE jobs'[i] = jobs[i] BY <1>3, <1>4, <3>1, <3>2, <3>3
    <3>4. CASE jobs'[i] = job BY <1>3, <2>1, <2>4, <3>2, <3>4
    <3>5. QED BY <3>1, <3>3, <3>4
  <2>6. QED BY <2>5
<1>9. QED BY <1>1, <1>6, <1>7, <1>8, JobsMove

----------------------------------------------------------------------------
(* Responses. *)
LEMMA ResponseKept ==
  ASSUME TypeOK, IInv, NEW r \in Request, Act(r), NEW s \in Request
  PROVE  OutcomeSound(response[s])'
<1>1. RequestSound(r) /\ PagesSound(r) /\ RequestSound(s)
  BY DEF IInv, RequestSound
<1>2. ASSUME \A o : o = response'[s] => OutcomeSound(o)'
      PROVE  OutcomeSound(response[s])'
  BY <1>2
<1>3. CASE response'[s] = response[s]
  <2>1. ASSUME NEW o, o = response[s] PROVE OutcomeSound(o)'
    <3>1. OutcomeSound(o) BY <1>1, <2>1 DEF RequestSound
    <3>2. o.trace \in Request BY <2>1 DEF TypeOK, IsOutcome
    <3>3. QED BY <1>1, <3>1, <3>2, EndedKept, UsedGrows, OutcomeKept
  <2>2. QED BY <1>2, <1>3, <2>1
<1>4. CASE response'[s] # response[s] /\ TurnAway(r)
  <2> DEFINE o == Outcome(r, "turned away", NoSummary, NoRate)
  <2>1. o.err # "none" BY DEF Outcome
  <2>2. response' = [response EXCEPT ![r] = o] BY <1>4 DEF TurnAway
  <2> HIDE DEF o
  <2>3. response'[s] = o BY <1>4, <2>2 DEF TypeOK
  <2>4. QED BY <2>1, <2>3 DEF OutcomeSound
<1>5. ASSUME NEW o, Delivers(r, o), MayDeliver(r, o), response'[s] # response[s]
      PROVE  OutcomeSound(response[s])'
  <2>1. response' = response \/ response' = [response EXCEPT ![r] = o]
    BY <1>5 DEF Delivers, Deliver
  <2>2. response'[s] = o BY <1>5, <2>1 DEF TypeOK
  <2>3. OutcomeSound(o)' BY <1>1, <1>5, DeliveredSound DEF IInv
  <2>4. QED BY <1>2, <2>2, <2>3
<1>6. Take(r) \/ Poll(r) \/ Proceeds(r) => response' = response
  BY <1>1, ProceedsKeeps DEF Take, Poll
<1>7. QED BY <1>3, <1>4, <1>5, <1>6, ActCases

LEMMA ActSound ==
  ASSUME TypeOK, IInv, NEW r \in Request, Act(r)
  PROVE  IInv'
<1>1. RequestSound(r) /\ PagesSound(r) BY DEF IInv, RequestSound
<1>2. \A c \in DOMAIN buckets' : buckets'[c].limit = Budget[c]
  BY <1>1, UsedGrows DEF IInv
<1>3. ASSUME NEW s \in Request PROVE RequestSound(s)'
  <2>1. RequestSound(s) /\ OutcomeSound(response[s])'
    BY ResponseKept DEF IInv
  <2>2. CASE s = r
    <3>1. PagesSound(r)' /\ SpentSound(r)' /\ SourceSound(r)' /\ TicketSound(r)'
      BY <1>1, PagesKept, SpentKept, SourceKept, TicketKept DEF RequestSound
    <3>2. QED BY <2>1, <2>2, <3>1 DEF RequestSound
  <2>3. CASE s # r
    <3>1. KeptAt(s) /\ query' = query BY <1>1, <2>3, OthersKept
    <3>2. PagesSound(s)'
      BY <2>1, <3>1 DEF RequestSound, PagesSound, Fetching, KeptAt
    <3>3. SpentSound(s)' BY <1>1, <2>1, <2>3, SpentOfOthersKept DEF RequestSound
    <3>4. SourceSound(s)'
      BY <2>1, <3>1 DEF RequestSound, SourceSound, OncePerConnector, KeptAt
    <3>5. TicketSound(s)'
      BY <1>1, <2>1, <2>3, TicketOfOthersKept DEF RequestSound
    <3>6. QED BY <2>1, <3>2, <3>3, <3>4, <3>5 DEF RequestSound
  <2>4. QED BY <2>2, <2>3
<1>4. \A i \in DOMAIN jobs' : JobSound(i)' BY JobsKept
<1>5. QED BY <1>2, <1>3, <1>4 DEF IInv

----------------------------------------------------------------------------
(* A process that starts anew knows of no job and has spent nothing. *)
LEMMA RestartSound ==
  ASSUME TypeOK, IInv, Restart
  PROVE  IInv'
<1>1. \A c \in DOMAIN buckets' : buckets'[c].limit = Budget[c]
  BY DEF Restart, SetLimits
<1>2. DOMAIN jobs' = {} /\ query' = query /\ life' = life + 1
  BY DEF Restart, NoJobs
<1>3. ASSUME NEW s \in Request PROVE RequestSound(s)'
  <2>1. RequestSound(s) /\ born[s] \in 0 .. life /\ life \in Nat
    BY DEF IInv, TypeOK
  <2>2. /\ response'[s] = response[s] /\ ticket'[s] = ticket[s]
        /\ polled'[s] = polled[s] /\ born'[s] = born[s]
    BY DEF Restart
  <2>3. ASSUME ~Running(s)
        PROVE  PagesSound(s)' /\ SpentSound(s)' /\ SourceSound(s)' /\ TicketSound(s)'
    <3>1. /\ stage'[s] = stage[s] /\ made'[s] = made[s] /\ pages'[s] = pages[s]
          /\ spent'[s] = spent[s] /\ source'[s] = source[s]
          /\ frame'[s] = frame[s]
      BY <2>3 DEF Restart, AllButRunning, TypeOK
    <3>2. PagesSound(s)' /\ SourceSound(s)'
      BY <1>2, <2>1, <3>1
      DEF RequestSound, PagesSound, SourceSound, Fetching, OncePerConnector
    <3>3. SpentSound(s)' BY <2>1, <2>3, <3>1 DEF RequestSound, SpentSound, Running
    <3>4. TicketSound(s)'
      BY <1>2, <2>1, <2>2, <2>3, <3>1 DEF RequestSound, TicketSound, Running
    <3>5. QED BY <3>2, <3>3, <3>4
  <2>4. ASSUME Running(s)
        PROVE  PagesSound(s)' /\ SpentSound(s)' /\ SourceSound(s)' /\ TicketSound(s)'
    <3>1. /\ stage'[s] = "lost" /\ made'[s] = <<>> /\ pages'[s] = 0
          /\ \A c \in Connectors : source'[s][c] = NewSource
          /\ frame'[s] = NoOutcome(s)
      BY <2>4
      DEF Restart, AllButRunning, NoneMade, NoPages, NewSources, NoOutcomes
    <3>2. query[s].fetches \in Seq(query[s].conns) BY QueryTyped
    <3>3. PagesSound(s)'
      BY <1>2, <3>1, <3>2 DEF PagesSound
    <3>4. SourceSound(s)'
      BY <1>2, <3>1 DEF SourceSound, NewSource
    <3>5. SpentSound(s)' BY <3>1 DEF SpentSound, Running
    <3>6. TicketSound(s)'
      <4>1. NoOutcome(s).trace = s BY DEF NoOutcome, Outcome
      <4>2. QED
        BY <1>2, <2>1, <2>2, <3>1, <4>1 DEF RequestSound, TicketSound, Running
    <3>7. QED BY <3>3, <3>4, <3>5, <3>6
  <2>5. PagesSound(s)' /\ SpentSound(s)' /\ SourceSound(s)' /\ TicketSound(s)'
    BY <2>3, <2>4
  <2>6. OutcomeSound(response[s])'
    <3>1. ASSUME NEW o, o = response[s] PROVE OutcomeSound(o)'
      <4>1. OutcomeSound(o) BY <2>1, <3>1 DEF RequestSound
      <4>2. o.trace \in Request BY <3>1 DEF TypeOK, IsOutcome
      <4>3. \A q \in Request : stage[q] = "ended" =>
              stage'[q] = "ended" /\ made'[q] = made[q] /\ spent'[q] = spent[q]
        BY DEF Restart, AllButRunning, TypeOK, Running
      <4>4. DOMAIN buckets' = DOMAIN buckets
        BY DEF Restart, SetLimits, TypeOK
      <4>5. QED BY <1>2, <4>1, <4>2, <4>3, <4>4, OutcomeKept
    <3>2. QED BY <2>2, <3>1
  <2>7. QED BY <2>5, <2>6 DEF RequestSound
<1>4. QED BY <1>1, <1>2, <1>3 DEF IInv

LEMMA InitSound == Init => IInv
<1> SUFFICES ASSUME Init PROVE IInv OBVIOUS
<1>1. \A c \in DOMAIN buckets : buckets[c].limit = Budget[c]
  BY DEF Init, RateLimitInit, SetLimits
<1>2. DOMAIN jobs = {} BY DEF Init, NoJobs
<1>3. ASSUME NEW s \in Request PROVE RequestSound(s)
  <2>1. /\ stage[s] = "new" /\ made[s] = <<>> /\ pages[s] = 0
        /\ \A c \in Connectors : spent[s][c] = 0 /\ source[s][c] = NewSource
        /\ frame[s] = NoOutcome(s) /\ response[s] = NoOutcome(s)
        /\ ticket[s] = 0 /\ polled[s].life = -1
    BY DEF Init, NoneMade, NoPages, NoneSpent, NewSources, NoOutcomes, NoPoll
  <2>2. query[s].fetches \in Seq(query[s].conns)
    BY InitTyped, QueryTyped
  <2>3. PagesSound(s) BY <2>1, <2>2 DEF PagesSound
  <2>4. SpentSound(s) BY <2>1 DEF SpentSound, Running
  <2>5. SourceSound(s) BY <2>1 DEF SourceSound, NewSource
  <2>6. NoOutcome(s).trace = s /\ NoOutcome(s).err = "none yet"
    BY DEF NoOutcome, Outcome
  <2>7. TicketSound(s) BY <2>1, <2>6 DEF TicketSound, Running
  <2>8. OutcomeSound(response[s]) BY <2>1, <2>6 DEF OutcomeSound
  <2>9. QED BY <2>3, <2>4, <2>5, <2>7, <2>8 DEF RequestSound
<1>4. QED BY <1>1, <1>2, <1>3 DEF IInv

LEMMA StutterSound == IInv /\ UNCHANGED vars => IInv'
BY DEF IInv, vars, fetchVars, jobVars, lifeVars, RequestSound, PagesSound,
       SpentSound, SourceSound, TicketSound, JobSound, OutcomeSound, RateCovers,
       SummaryCovers, FetchesOf, Limited, Mode, Running, Fetching,
       OncePerConnector

----------------------------------------------------------------------------
(* Every state is typed and sound: Route and PageAllowed keep the types    *)
(* only with PagesSound.                                                   *)
LEMMA SpecInvariants == Spec => [](TypeOK /\ IInv)
<1>1. Init => TypeOK /\ IInv BY InitTyped, InitSound
<1>2. TypeOK /\ IInv /\ [Next]_vars => (TypeOK /\ IInv)'
  <2> SUFFICES ASSUME TypeOK, IInv, [Next]_vars PROVE TypeOK' /\ IInv' OBVIOUS
  <2>1. TypeOK'
    <3>1. \A r \in Request : PagesSound(r) BY DEF IInv, RequestSound
    <3>2. QED BY <3>1, NextTyped
  <2>2. IInv' BY NextCases, ActSound, RestartSound, StutterSound
  <2>3. QED BY <2>1, <2>2
<1>3. QED BY <1>1, <1>2, PTL DEF Spec

(* The state of the server is typed, with as many pages, tokens, tickets   *)
(* and lives as its bounds allow.                                          *)
THEOREM TypeCorrect == Spec => []TypeOK
BY SpecInvariants, PTL

(* What requests have done, spent and been told agrees, in every state.    *)
THEOREM RequestsSound == Spec => []IInv
BY SpecInvariants, PTL

LEMMA DoneOutcome ==
  ASSUME TypeOK, IInv, NEW o \in Outcomes
  PROVE  OutcomeSound(o)
<1>1. CASE \E r \in Request : o = response[r] BY <1>1 DEF IInv, RequestSound
<1>2. CASE \E i \in DOMAIN jobs : jobs[i].done /\ o = jobs[i].out
  BY <1>2 DEF IInv, JobSound
<1>3. QED BY <1>1, <1>2 DEF Outcomes

(* The budget reported with the rows leaves room for every token that the  *)
(* request spent (rateLimitStatus after exec.Run), however the others      *)
(* interleave, in jobs too.                                                *)
THEOREM RatesCover == Spec => []EnvelopeRateCurrent
<1>1. TypeOK /\ IInv => EnvelopeRateCurrent
  BY DoneOutcome DEF EnvelopeRateCurrent, Successes, OutcomeSound
<1>2. QED BY <1>1, SpecInvariants, PTL

(* summarizeFreshness tells of the stalest input: of a query that fetches  *)
(* from each connector at most once, a hit is claimed only if every fetch  *)
(* was one, none is older than the age, and a 304 is never left out.       *)
THEOREM SummariesAreWorst == Spec => []SummaryIsWorst
<1>1. TypeOK /\ IInv => SummaryIsWorst
  BY DoneOutcome DEF SummaryIsWorst, Successes, OutcomeSound
<1>2. QED BY <1>1, SpecInvariants, PTL

(* No job is ever cancelled by the end of the request that started it      *)
(* (obs.DetachTraceContext).                                               *)
THEOREM JobsOutliveRequests == Spec => []JobOutlivesRequest
<1>1. IInv => JobOutlivesRequest BY DEF IInv, JobSound, JobOutlivesRequest
<1>2. QED BY <1>1, SpecInvariants, PTL

(* Until the process dies a job stays, and once done it stays as it is:    *)
(* startAsync's goroutine writes its outcome once, and no other request's. *)
THEOREM JobsAreSettledOnce == Spec => JobsSettle
<1>1. TypeOK /\ IInv /\ [Next]_vars =>
        [\A i \in DOMAIN jobs : life' = life =>
           /\ i \in DOMAIN jobs'
           /\ jobs[i].done => jobs'[i] = jobs[i]]_vars
  <2> SUFFICES ASSUME TypeOK, IInv, Next, NEW i \in DOMAIN jobs, life' = life
               PROVE  /\ i \in DOMAIN jobs'
                      /\ jobs[i].done => jobs'[i] = jobs[i]
    OBVIOUS
  <2>1. ~Restart BY DEF Restart, TypeOK
  <2>2. PICK r \in Request : Act(r)
    BY <2>1 DEF Next, Act
  <2>3. RequestSound(r) /\ PagesSound(r) BY DEF IInv, RequestSound
  <2>4. ASSUME NEW o, Delivers(r, o), Mode(r) = "async",
               jobs' = [jobs EXCEPT ![ticket[r]] = [done |-> TRUE, out |-> o]]
        PROVE  /\ i \in DOMAIN jobs'
               /\ jobs[i].done => jobs'[i] = jobs[i]
    <3>1. ~jobs[ticket[r]].done
      BY <2>3, <2>4, DeliversKeeps, DeliveredJob
    <3>2. QED BY <2>4, <3>1
  <2>5. QED BY <2>2, <2>3, <2>4, JobsMove
<1>2. QED BY <1>1, SpecInvariants, PTL DEF Spec, JobsSettle

----------------------------------------------------------------------------
(* The gateway keeps the promise of AsyncJobs, but for its fairness.       *)

LEMMA JobOfCases ==
  ASSUME NEW r \in Request, TypeOK, TicketSound(r)
  PROVE  /\ ticket[r] = 0 => JobOf(r) = "none"
         /\ ticket[r] # 0 /\ born[r] # life => JobOf(r) = "lost"
         /\ ticket[r] # 0 /\ born[r] = life /\ jobs[ticket[r]].done =>
              JobOf(r) = "done"
         /\ ticket[r] # 0 /\ born[r] = life /\ ~jobs[ticket[r]].done =>
              JobOf(r) = "pending"
         /\ ticket[r] = 0 => ToldOf(r) = "nothing"
BY DEF JobOf, ToldOf, TicketSound, TypeOK

LEMMA SettleOrNot ==
  ASSUME TypeOK, TypeOK', IInv, IInv', NEW r \in Request,
         Act(r), ~Poll(r)
  PROVE  /\ ToldOf(r)' = ToldOf(r)
         /\ \/ JobOf(r)' = JobOf(r)
            \/ JobOf(r) = "none" /\ JobOf(r)' = "pending"
            \/ JobOf(r) = "pending" /\ JobOf(r)' = "done"
<1>1. TicketSound(r) /\ RequestSound(r) /\ PagesSound(r) /\ TicketSound(r)'
  BY DEF IInv, RequestSound
<1>2. CASE TurnAway(r) \/ Take(r)
  <2>1. /\ ticket[r] = 0 /\ polled[r].life = -1 /\ polled' = polled
        /\ life' = life /\ born'[r] = life /\ stage'[r] # "new"
        /\ TurnAway(r) => ticket' = ticket
    BY <1>1, <1>2 DEF TurnAway, Take, TicketSound, jobVars, TypeOK
  <2>2. ToldOf(r) = "nothing" /\ JobOf(r) = "none"
    BY <1>1, <2>1, JobOfCases
  <2>3. ToldOf(r)' = "nothing" BY <2>1 DEF ToldOf, TypeOK
  <2>4. CASE ticket'[r] = 0 BY <2>2, <2>3, <2>4 DEF JobOf
  <2>5. CASE ticket'[r] # 0
    <3>1. Take(r) /\ Running(r)'
      BY <1>2, <2>1, <2>5 DEF Take, Running, TypeOK
    <3>2. ticket'[r] \in DOMAIN jobs' /\ ~jobs'[ticket'[r]].done
      BY <1>1, <2>1, <2>5, <3>1 DEF TicketSound
    <3>3. JobOf(r)' = "pending" BY <2>1, <2>5, <3>2 DEF JobOf
    <3>4. QED BY <2>2, <2>3, <3>3
  <2>6. QED BY <2>4, <2>5
<1>3. CASE Proceeds(r)
  <2>1. UNCHANGED <<jobs, ticket, polled, life, born>>
    BY <1>1, <1>3, ProceedsKeeps DEF jobVars, lifeVars
  <2>2. QED BY <2>1 DEF JobOf, ToldOf
<1>4. ASSUME NEW o, Delivers(r, o), MayDeliver(r, o)
      PROVE  /\ ToldOf(r)' = ToldOf(r)
             /\ \/ JobOf(r)' = JobOf(r)
                \/ JobOf(r) = "pending" /\ JobOf(r)' = "done"
  <2>1. /\ UNCHANGED <<ticket, polled, life, born>>
        /\ Running(r) /\ ~Running(r)'
    BY <1>4, DeliversKeeps DEF lifeVars
  <2>2. ToldOf(r)' = ToldOf(r) BY <2>1 DEF ToldOf
  <2>3. CASE ticket[r] = 0
    BY <2>1, <2>2, <2>3 DEF JobOf
  <2>4. CASE ticket[r] # 0
    <3>1. born[r] = life BY <1>1, <2>1 DEF TicketSound
    <3>2. /\ ticket[r] \in DOMAIN jobs /\ ~jobs[ticket[r]].done
          /\ ticket[r] \in DOMAIN jobs' /\ jobs'[ticket[r]].done
      BY <1>1, <2>1, <2>4, <3>1 DEF TicketSound
    <3>3. QED BY <2>1, <2>2, <2>4, <3>1, <3>2 DEF JobOf
  <2>5. QED BY <2>3, <2>4
<1>5. QED BY <1>2, <1>3, <1>4, ActCases

(* A poll is told how the job of its own request stands.                   *)
LEMMA PollTells ==
  ASSUME TypeOK, IInv, NEW r \in Request, Poll(r)
  PROVE  /\ UNCHANGED <<jobs, ticket, life, born>>
         /\ \/ /\ JobOf(r) \in {"pending", "done"}
               /\ ToldOf(r)' = JobOf(r)
            \/ /\ JobOf(r) = "lost"
               /\ ToldOf(r)' = "nothing"
<1>1. TicketSound(r) BY DEF IInv, RequestSound
<1>2. ticket[r] # 0 /\ UNCHANGED <<jobs, ticket, life, born>>
  BY DEF Poll, lifeVars
<1>3. /\ polled'[r].life = life
      /\ polled'[r].found <=> ticket[r] \in DOMAIN jobs
      /\ polled'[r].done <=> (ticket[r] \in DOMAIN jobs /\ jobs[ticket[r]].done)
      /\ polled'[r].done => polled'[r].out = jobs[ticket[r]].out
  <2> DEFINE done == ticket[r] \in DOMAIN jobs /\ jobs[ticket[r]].done
             told == [life |-> life, found |-> ticket[r] \in DOMAIN jobs,
                      done |-> done,
                      out |-> IF done THEN jobs[ticket[r]].out ELSE NoOutcome(r)]
  <2>1. polled' = [polled EXCEPT ![r] = told] BY DEF Poll
  <2>2. /\ told.life = life /\ told.found = (ticket[r] \in DOMAIN jobs)
        /\ told.done = done
        /\ told.out = IF done THEN jobs[ticket[r]].out ELSE NoOutcome(r)
    BY Zenon
  <2> HIDE DEF told
  <2>3. polled'[r] = told BY <2>1 DEF TypeOK
  <2>4. QED BY <2>2, <2>3
<1>4. CASE born[r] # life
  <2>1. JobOf(r) = "lost" BY <1>2, <1>4 DEF JobOf
  <2>2. ToldOf(r)' = "nothing" BY <1>2, <1>3, <1>4 DEF ToldOf
  <2>3. QED BY <1>2, <2>1, <2>2
<1>5. CASE born[r] = life
  <2>1. ticket[r] \in DOMAIN jobs /\ jobs[ticket[r]].out.trace = r
    BY <1>1, <1>2, <1>5 DEF TicketSound
  <2>2. CASE jobs[ticket[r]].done
    BY <1>2, <1>3, <1>5, <2>1, <2>2 DEF JobOf, ToldOf
  <2>3. CASE ~jobs[ticket[r]].done
    BY <1>2, <1>3, <1>5, <2>1, <2>3 DEF JobOf, ToldOf
  <2>4. QED BY <2>2, <2>3
<1>6. QED BY <1>4, <1>5

LEMMA OthersJobsStay ==
  ASSUME TypeOK, IInv, NEW r \in Request, Act(r), NEW s \in Request \ {r}
  PROVE  JobOf(s)' = JobOf(s) /\ ToldOf(s)' = ToldOf(s)
<1>1. RequestSound(r) /\ PagesSound(r) /\ TicketSound(s)
  BY DEF IInv, RequestSound
<1>2. KeptAt(s) /\ life' = life BY <1>1, OthersKept
<1>3. ticket[s] # 0 /\ born[s] = life =>
        /\ ticket[s] \in DOMAIN jobs /\ ticket[s] \in DOMAIN jobs'
        /\ jobs'[ticket[s]] = jobs[ticket[s]]
  BY <1>1, JobOfOthersKept
<1>4. QED BY <1>2, <1>3 DEF JobOf, ToldOf, KeptAt

LEMMA ActKeepsJobs ==
  ASSUME TypeOK, TypeOK', IInv, IInv', NEW r \in Request, Act(r)
  PROVE  [Jobs!Next]_(Jobs!vars)
<1> DEFINE job == [s \in Request |-> JobOf(s)]
           told == [s \in Request |-> ToldOf(s)]
           Move(a, b) == /\ job[r] = a /\ job' = [job EXCEPT ![r] = b]
                         /\ told' = told
<1>1. \A s \in Request \ {r} : JobOf(s)' = JobOf(s) /\ ToldOf(s)' = ToldOf(s)
  BY OthersJobsStay
<1>2. CASE JobOf(r)' = JobOf(r) /\ ToldOf(r)' = ToldOf(r)
  <2>1. job' = job /\ told' = told BY <1>1, <1>2
  <2>2. QED BY <2>1 DEF Jobs!vars
<1>3. CASE JobOf(r) = "none" /\ JobOf(r)' = "pending" /\ ToldOf(r)' = ToldOf(r)
  <2>1. /\ job[r] = "none" /\ job' = [job EXCEPT ![r] = "pending"]
        /\ told' = told
    BY <1>1, <1>3
  <2>2. QED BY <2>1 DEF Jobs!Next, Jobs!Submit, Jobs!Move
<1>4. CASE JobOf(r) = "pending" /\ JobOf(r)' = "done" /\ ToldOf(r)' = ToldOf(r)
  <2>1. /\ job[r] = "pending" /\ job' = [job EXCEPT ![r] = "done"]
        /\ told' = told
    BY <1>1, <1>4
  <2>2. QED BY <2>1 DEF Jobs!Next, Jobs!Settle, Jobs!Move
<1>5. CASE Poll(r)
  <2>1. job' = job /\ told' = [told EXCEPT ![r] = ToldOf(r)']
    <3>1. JobOf(r)' = JobOf(r) BY <1>5, PollTells DEF JobOf
    <3>2. QED BY <1>1, <3>1
  <2>2. \/ job[r] \in {"pending", "done"} /\ ToldOf(r)' = job[r]
        \/ job[r] = "lost" /\ ToldOf(r)' = "nothing"
    BY <1>5, PollTells
  <2>3. \/ /\ job[r] \in {"pending", "done"} /\ job' = job
           /\ told' = [told EXCEPT ![r] = job[r]]
        \/ /\ job[r] = "lost" /\ job' = job
           /\ told' = [told EXCEPT ![r] = "nothing"]
    BY <2>1, <2>2
  <2>4. QED BY <2>3 DEF Jobs!Next, Jobs!Tell, Jobs!Stray
<1>6. QED BY <1>2, <1>3, <1>4, <1>5, SettleOrNot

LEMMA RestartLosesJobs ==
  ASSUME TypeOK, IInv, Restart
  PROVE  Jobs!Lose
<1> DEFINE job == [s \in Request |-> JobOf(s)]
           told == [s \in Request |-> ToldOf(s)]
<1>1. ASSUME NEW s \in Request
      PROVE  /\ JobOf(s)' = IF JobOf(s) = "none" THEN "none" ELSE "lost"
             /\ ToldOf(s)' = ToldOf(s)
  <2>1. /\ ticket' = ticket /\ polled' = polled /\ born' = born
        /\ life' # born[s]
    BY DEF Restart, TypeOK
  <2>2. QED BY <2>1 DEF JobOf, ToldOf
<1>2. /\ job' = [s \in Request |-> IF job[s] = "none" THEN "none" ELSE "lost"]
      /\ told' = told
  BY <1>1
<1>3. QED BY <1>2 DEF Jobs!Lose

(* Whatever the requests do, each step of the gateway is one of AsyncJobs  *)
(* or none: a job is submitted and settled once, lost only with the        *)
(* process, and a poll is told the state of its own job and nothing else   *)
(* (KeepsJobs without its fairness, which TLC checks).                     *)
THEOREM GatewayKeepsJobs == Spec => Jobs!Init /\ [][Jobs!Next]_(Jobs!vars)
<1>1. Init => Jobs!Init
  <2> SUFFICES ASSUME Init PROVE Jobs!Init OBVIOUS
  <2>1. ASSUME NEW r \in Request
        PROVE  JobOf(r) = "none" /\ ToldOf(r) = "nothing"
    BY InitTyped, InitSound, JobOfCases
    DEF Init, IInv, RequestSound
  <2>2. QED BY <2>1 DEF Jobs!Init
<1>2. TypeOK /\ TypeOK' /\ IInv /\ IInv' /\ [Next]_vars => [Jobs!Next]_(Jobs!vars)
  <2> SUFFICES ASSUME TypeOK, TypeOK', IInv, IInv', [Next]_vars
               PROVE  [Jobs!Next]_(Jobs!vars)
    OBVIOUS
  <2>1. CASE Restart BY <2>1, RestartLosesJobs DEF Jobs!Next
  <2>2. CASE UNCHANGED vars
    BY <2>2 DEF vars, jobVars, lifeVars, Jobs!vars, JobOf, ToldOf
  <2>3. QED BY <2>1, <2>2, NextCases, ActKeepsJobs
<1>3. QED BY <1>1, <1>2, SpecInvariants, PTL DEF Spec
==============================================================================
