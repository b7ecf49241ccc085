-------------------------- MODULE FreshnessProofs ---------------------------
(***************************************************************************)
(* Proofs about Freshness: for every number of requests, principals,       *)
(* signatures, connectors, pages, budgets and bounds.                      *)
(***************************************************************************)
EXTENDS Freshness, HTTPSourceProofs

LEMMA TagTyped ==
  ASSUME FreshTypeOK, NEW f \in Fetcher
  PROVE  /\ TagOf(f) \in Tag
         /\ KeyFor(f) \in Key
         /\ ConnFor(f) \in Connector
         /\ ConnOf[TagOf(f)[2]] = ConnFor(f)
BY FreshnessAssumption DEF FreshTypeOK, TagOf, KeyFor, Key, ConnFor

(* A fetch step keeps the types of the cache, the sources and the answers. *)
LEMMA AnsweredTyped ==
  ASSUME FreshTypeOK, NEW f \in Fetcher, NEW how \in How, NEW age \in Int,
         NEW rows \in Seq(Page), Answered(f, how, age, rows)
  PROVE  /\ at' \in [Fetcher -> {"ready", "live", "clock", "lookup", "fetch"}]
         /\ answers' \in [Fetcher -> Seq(FetchAnswer)]
<1> DEFINE a == [sig |-> sig[f], asked |-> asked[f], how |-> how,
                 age |-> age, rows |-> rows]
<1>1. a \in FetchAnswer BY DEF FreshTypeOK, FetchAnswer
<1>2. answers[f] \in Seq(FetchAnswer) BY DEF FreshTypeOK
<1>3. Append(answers[f], a) \in Seq(FetchAnswer) BY <1>1, <1>2
<1>4. answers' = [answers EXCEPT ![f] = Append(answers[f], a)] BY DEF Answered
<1> HIDE DEF a
<1>5. QED BY <1>3, <1>4 DEF Answered, FreshTypeOK

LEMMA PublishTyped ==
  ASSUME FreshTypeOK, NEW f \in Fetcher, NEW rows \in Seq(Page),
         NEW e \in ETag, Publish(f, rows, e)
  PROVE  /\ DOMAIN entries' \subseteq Key
         /\ \A k \in DOMAIN entries' : entries'[k] \in Entry
<1>1. [rows |-> rows, etag |-> e, fetchedAt |-> FetchedAt(f)] \in Entry
  BY DEF Entry, FetchedAt, FreshTypeOK
<1>2. QED BY <1>1, TagTyped DEF Publish, FreshTypeOK

LEMMA HeldTyped ==
  ASSUME FreshTypeOK, NEW f \in Fetcher
  PROVE  NothingHeld \in Held /\ Looked(f) \in Held
<1>1. NothingHeld \in Held BY DEF NothingHeld, Held, ETag
<1>2. CASE KeyFor(f) \in DOMAIN entries
  <2>1. entries[KeyFor(f)] \in Entry BY <1>2 DEF FreshTypeOK
  <2>2. /\ entries[KeyFor(f)].rows \in Seq(Page)
        /\ entries[KeyFor(f)].etag \in ETag
        /\ entries[KeyFor(f)].fetchedAt \in Nat
    BY <2>1 DEF Entry
  <2>3. Looked(f) = [ok |-> TRUE, rows |-> entries[KeyFor(f)].rows,
                     etag |-> entries[KeyFor(f)].etag,
                     fetchedAt |-> entries[KeyFor(f)].fetchedAt]
    BY <1>2, Zenon DEF Looked
  <2>4. QED BY <1>1, <2>2, <2>3 DEF Held
<1>3. CASE KeyFor(f) \notin DOMAIN entries BY <1>1, <1>3 DEF Looked
<1>4. QED BY <1>1, <1>2, <1>3

(* One lemma for each step of Source.Fetch. *)
LEMMA CallTyped ==
  ASSUME FreshTypeOK, NEW f \in Fetcher, NEW s \in Signature, Call(f, s)
  PROVE  FreshTypeOK'
<1>1. HTTPTypeOK'
  <2>1. CASE UNCHANGED httpVars
    BY <2>1 DEF FreshTypeOK, HTTPTypeOK, SaaSTypeOK, httpVars, wireVars, saasVars
  <2>2. CASE Start(f, [conn |-> ConnOf[s], tag |-> <<who[f], s>>, etag |-> NoETag])
    <3>1. [conn |-> ConnOf[s], tag |-> <<who[f], s>>, etag |-> NoETag] \in Request
      BY FreshnessAssumption DEF FreshTypeOK, Request, ETag
    <3>2. QED BY <2>2, <3>1, StartTyped DEF FreshTypeOK
  <2>3. QED BY <2>1, <2>2 DEF Call
<1>2. /\ at' \in [Fetcher -> {"ready", "live", "clock", "lookup", "fetch"}]
      /\ sig' \in [Fetcher -> Signature]
      /\ asked' \in [Fetcher -> Nat]
  BY DEF Call, FreshTypeOK, HTTPTypeOK, SaaSTypeOK
<1>3. QED BY <1>1, <1>2 DEF Call, FreshTypeOK

LEMMA ReadClockTyped ==
  ASSUME FreshTypeOK, NEW f \in Fetcher, ReadClock(f)
  PROVE  FreshTypeOK'
<1>1. HTTPTypeOK'
  BY DEF ReadClock, FreshTypeOK, HTTPTypeOK, SaaSTypeOK, httpVars, wireVars, saasVars
<1>2. QED BY <1>1 DEF ReadClock, FreshTypeOK, HTTPTypeOK, SaaSTypeOK

LEMMA SourceTyped ==
  ASSUME FreshTypeOK, NEW f \in Fetcher, NEW new \in Flags,
         source' = [source EXCEPT ![f] = [source[f] EXCEPT ![ConnFor(f)] = new]]
  PROVE  source' \in [Fetcher -> [Connector -> Flags]]
BY TagTyped DEF FreshTypeOK

LEMMA HitTyped ==
  ASSUME FreshTypeOK, NEW f \in Fetcher, Hit(f)
  PROVE  FreshTypeOK'
<1>1. HTTPTypeOK'
  BY DEF Hit, FreshTypeOK, HTTPTypeOK, SaaSTypeOK, httpVars, wireVars, saasVars
<1>2. entries[KeyFor(f)] \in Entry BY DEF Hit, WithinBudget, FreshTypeOK
<1>3. Age(f) \in Int /\ entries[KeyFor(f)].rows \in Seq(Page)
  BY <1>2 DEF Age, Entry, FreshTypeOK
<1>4. source' \in [Fetcher -> [Connector -> Flags]]
  <2> DEFINE new == [source[f][ConnFor(f)] EXCEPT !.cacheHit = TRUE,
                                                 !.ageMS = Age(f)]
  <2>1. source[f][ConnFor(f)] \in Flags BY TagTyped DEF FreshTypeOK
  <2>2. new \in Flags BY <1>3, <2>1 DEF Flags
  <2>3. source' = [source EXCEPT ![f] = [source[f] EXCEPT ![ConnFor(f)] = new]]
    BY DEF Hit
  <2> HIDE DEF new
  <2>4. QED BY <2>2, <2>3, SourceTyped
<1>5. /\ at' \in [Fetcher -> {"ready", "live", "clock", "lookup", "fetch"}]
      /\ answers' \in [Fetcher -> Seq(FetchAnswer)]
  BY <1>3, AnsweredTyped DEF Hit, How
<1>6. QED BY <1>1, <1>4, <1>5 DEF Hit, FreshTypeOK

LEMMA MissTyped ==
  ASSUME FreshTypeOK, NEW f \in Fetcher, Miss(f)
  PROVE  FreshTypeOK'
<1>1. Looked(f) \in Held BY HeldTyped
<1>2. Asking(f, Looked(f).etag) \in Request
  BY <1>1, TagTyped DEF Asking, Request, Held
<1>3. HTTPTypeOK' BY <1>2, StartTyped DEF Miss, FreshTypeOK
<1>4. QED BY <1>1, <1>3 DEF Miss, FreshTypeOK

LEMMA ReturnedTyped ==
  ASSUME FreshTypeOK, NEW f \in Fetcher, Returned(f),
         /\ at' \in [Fetcher -> {"ready", "live", "clock", "lookup", "fetch"}]
         /\ answers' \in [Fetcher -> Seq(FetchAnswer)],
         source' \in [Fetcher -> [Connector -> Flags]],
         /\ DOMAIN entries' \subseteq Key
         /\ \A k \in DOMAIN entries' : entries'[k] \in Entry
  PROVE  FreshTypeOK'
<1>1. HTTPTypeOK' BY ConsumeTyped DEF Returned, FreshTypeOK
<1>2. held' \in [Fetcher -> Held] BY HeldTyped DEF Returned, FreshTypeOK
<1>3. QED BY <1>1, <1>2 DEF Returned, FreshTypeOK

LEMMA ReplyTyped ==
  ASSUME FreshTypeOK, NEW f \in Fetcher
  PROVE  /\ reply[f].rows \in Seq(Page) /\ reply[f].etag \in ETag
         /\ held[f].rows \in Seq(Page) /\ held[f].etag \in ETag
         /\ source[f][ConnFor(f)] \in Flags
         /\ <<>> \in Seq(Page)
<1>1. reply[f] \in Reply /\ held[f] \in Held BY DEF FreshTypeOK, HTTPTypeOK
<1>2. QED BY <1>1, TagTyped DEF Reply, Held, FreshTypeOK

LEMMA FetchFailedTyped ==
  ASSUME FreshTypeOK, NEW f \in Fetcher, FetchFailed(f)
  PROVE  FreshTypeOK'
<1>1. /\ at' \in [Fetcher -> {"ready", "live", "clock", "lookup", "fetch"}]
      /\ answers' \in [Fetcher -> Seq(FetchAnswer)]
  <2>1. Answered(f, "failed", 0, <<>>) BY DEF FetchFailed
  <2>2. "failed" \in How /\ 0 \in Int /\ <<>> \in Seq(Page) BY DEF How
  <2>3. QED BY <2>1, <2>2, AnsweredTyped
<1>2. UNCHANGED <<entries, source>> /\ Returned(f) BY DEF FetchFailed
<1>3. QED BY <1>1, <1>2, ReturnedTyped DEF FreshTypeOK

LEMMA FetchRevalidatedTyped ==
  ASSUME FreshTypeOK, NEW f \in Fetcher, FetchRevalidated(f)
  PROVE  FreshTypeOK'
<1> DEFINE new == [source[f][ConnFor(f)] EXCEPT !.revalidated = TRUE, !.ageMS = 0]
<1>1. /\ at' \in [Fetcher -> {"ready", "live", "clock", "lookup", "fetch"}]
      /\ answers' \in [Fetcher -> Seq(FetchAnswer)]
  <2>1. Answered(f, "revalidated", 0, held[f].rows) BY DEF FetchRevalidated
  <2>2. "revalidated" \in How /\ 0 \in Int /\ held[f].rows \in Seq(Page)
    BY ReplyTyped DEF How
  <2>3. QED BY <2>1, <2>2, AnsweredTyped
<1>2. /\ DOMAIN entries' \subseteq Key
      /\ \A k \in DOMAIN entries' : entries'[k] \in Entry
  BY ReplyTyped, PublishTyped DEF FetchRevalidated
<1>3. new \in Flags
  <2>1. source[f][ConnFor(f)] \in Flags BY ReplyTyped
  <2>2. 0 \in Int /\ TRUE \in BOOLEAN OBVIOUS
  <2>3. [source[f][ConnFor(f)] EXCEPT !.revalidated = TRUE] \in Flags
    BY <2>1 DEF Flags
  <2>4. new = [[source[f][ConnFor(f)] EXCEPT !.revalidated = TRUE]
                 EXCEPT !.ageMS = 0]
    BY <2>1 DEF Flags
  <2>5. QED BY <2>2, <2>3, <2>4 DEF Flags
<1>4. source' = [source EXCEPT ![f] = [source[f] EXCEPT ![ConnFor(f)] = new]]
  BY DEF FetchRevalidated
<1> HIDE DEF new
<1>5. source' \in [Fetcher -> [Connector -> Flags]] BY <1>3, <1>4, SourceTyped
<1>6. QED BY <1>1, <1>2, <1>5, ReturnedTyped DEF FetchRevalidated

LEMMA FetchFreshTyped ==
  ASSUME FreshTypeOK, NEW f \in Fetcher, FetchFresh(f)
  PROVE  FreshTypeOK'
<1> DEFINE new == [source[f][ConnFor(f)] EXCEPT !.ageMS = 0]
<1>1. /\ at' \in [Fetcher -> {"ready", "live", "clock", "lookup", "fetch"}]
      /\ answers' \in [Fetcher -> Seq(FetchAnswer)]
  <2>1. Answered(f, "fresh", 0, reply[f].rows) BY DEF FetchFresh
  <2>2. "fresh" \in How /\ 0 \in Int /\ reply[f].rows \in Seq(Page)
    BY ReplyTyped DEF How
  <2>3. QED BY <2>1, <2>2, AnsweredTyped
<1>2. /\ DOMAIN entries' \subseteq Key
      /\ \A k \in DOMAIN entries' : entries'[k] \in Entry
  BY ReplyTyped, PublishTyped DEF FetchFresh
<1>3. new \in Flags BY ReplyTyped DEF Flags
<1>4. source' = [source EXCEPT ![f] = [source[f] EXCEPT ![ConnFor(f)] = new]]
  BY DEF FetchFresh
<1> HIDE DEF new
<1>5. source' \in [Fetcher -> [Connector -> Flags]] BY <1>3, <1>4, SourceTyped
<1>6. QED BY <1>1, <1>2, <1>5, ReturnedTyped DEF FetchFresh

LEMMA LiveReturnedTyped ==
  ASSUME FreshTypeOK, NEW f \in Fetcher, LiveReturned(f)
  PROVE  FreshTypeOK'
<1>1. HTTPTypeOK' BY ConsumeTyped DEF LiveReturned, FreshTypeOK
<1>2. /\ at' \in [Fetcher -> {"ready", "live", "clock", "lookup", "fetch"}]
      /\ answers' \in [Fetcher -> Seq(FetchAnswer)]
  <2>1. /\ {"live", "failed"} \subseteq How /\ 0 \in Int
        /\ reply[f].rows \in Seq(Page) /\ <<>> \in Seq(Page)
    BY ReplyTyped DEF How
  <2>2. CASE Answered(f, "failed", 0, <<>>) BY <2>1, <2>2, AnsweredTyped
  <2>3. CASE Answered(f, "live", 0, reply[f].rows) BY <2>1, <2>3, AnsweredTyped
  <2>4. QED BY <2>2, <2>3 DEF LiveReturned
<1>3. QED BY <1>1, <1>2 DEF LiveReturned, FreshTypeOK

LEMMA InitTyped == Init => FreshTypeOK
<1> SUFFICES ASSUME Init PROVE FreshTypeOK OBVIOUS
<1>4. HTTPTypeOK BY HTTPInitTyped DEF Init
<1>5. NothingHeld \in Held BY DEF NothingHeld, Held, ETag
<1>6. NewSource \in Flags BY DEF NewSource, Flags
<1>7. sig \in [Fetcher -> Signature]
  <2>1. \E s \in Signature : TRUE BY SourceAssumption, FreshnessAssumption
  <2>2. QED BY <2>1 DEF Init
<1>8. QED BY <1>4, <1>5, <1>6, <1>7 DEF Init, FreshTypeOK

LEMMA NextTyped == FreshTypeOK /\ [Next]_vars => FreshTypeOK'
<1> SUFFICES ASSUME FreshTypeOK, [Next]_vars PROVE FreshTypeOK' OBVIOUS
<1> USE DEF FetchStep
<1>1. ASSUME NEW f \in Fetcher, NEW s \in Signature, Call(f, s)
      PROVE  FreshTypeOK'
  BY <1>1, CallTyped
<1>2. ASSUME NEW f \in Fetcher, FetchStep(f)
      PROVE  FreshTypeOK'
  BY <1>2, ReadClockTyped, HitTyped, MissTyped, FetchFailedTyped,
     FetchRevalidatedTyped, FetchFreshTyped, LiveReturnedTyped
<1>3. ASSUME NEW f \in Fetcher, WireStep(f), UNCHANGED freshVars
      PROVE  FreshTypeOK'
  BY <1>3, WireTyped DEF FreshTypeOK, freshVars, callVars
<1>4. CASE World /\ UNCHANGED <<buckets, wireVars, freshVars>>
  BY <1>4, WorldTyped
  DEF FreshTypeOK, HTTPTypeOK, freshVars, callVars, wireVars
<1>5. CASE UNCHANGED vars
  BY <1>5 DEF vars, httpVars, saasVars, wireVars, freshVars, callVars,
              FreshTypeOK, HTTPTypeOK, SaaSTypeOK
<1>6. QED BY <1>1, <1>2, <1>3, <1>4, <1>5 DEF Next

(* Every variable keeps its type: what a request holds, the cache, the     *)
(* budgets and the answers, whatever the interleaving of fetches.          *)
THEOREM TypeCorrect == Spec => []FreshTypeOK
<1>1. Init => FreshTypeOK BY InitTyped
<1>2. FreshTypeOK /\ [Next]_vars => FreshTypeOK' BY NextTyped
<1>3. QED BY <1>1, <1>2, PTL DEF Spec

----------------------------------------------------------------------------
(* Freshness keeps its staleness budgets: IInv is inductive, and implies   *)
(* the safety properties.  Two assumptions are needed, and are hypotheses  *)
(* of the theorems.  The README, under What does not hold, says what is    *)
(* lost without each of them.                                              *)

(* A version that was current at instant t or later stays so. *)
LEMMA WorldKeepsCurrent ==
  ASSUME SaaSTypeOK, World, NEW c \in Connector, NEW v \in Version,
         NEW t \in Int, CurrentSince(c, v, t)
  PROVE  CurrentSince(c, v, t)'
<1> USE DEF SaaSTypeOK, CurrentSince, CurrentUntil, Version
<1>1. CASE Tick BY <1>1 DEF Tick
<1>2. CASE \E d \in Connector : Change(d)
  <2>1. PICK d \in Connector : Change(d) BY <1>2
  <2>2. CASE d = c BY <2>1, <2>2, BoundAssumption DEF Change
  <2>3. CASE d # c BY <2>1, <2>3 DEF Change
  <2>4. QED BY <2>2, <2>3
<1>3. QED BY <1>1, <1>2 DEF World

LEMMA WorldMovesOn ==
  ASSUME SaaSTypeOK, World, NEW c \in Connector
  PROVE  ver[c] \in Nat /\ ver'[c] \in Nat /\ ver[c] <= ver'[c]
<1>1. ver \in [Connector -> Version] /\ ver' \in [Connector -> Version]
  BY WorldTyped DEF SaaSTypeOK
<1>2. ver[c] <= ver'[c] BY <1>1 DEF World, Tick, Change, Version
<1>3. QED BY <1>1, <1>2 DEF Version

(* A page as fresh as t, as far as an ETag can tell, stays so. *)
LEMMA WorldKeepsFreshness ==
  ASSUME SaaSTypeOK, World, NEW c \in Connector, NEW u, NEW v,
         NEW t \in Int, AsFreshAs(c, u, v, t)
  PROVE  AsFreshAs(c, u, v, t)'
<1>1. CASE Undone(c, u, v)
  <2>1. PICK w \in Version : /\ u < v /\ v < w /\ w <= ver[c]
                             /\ ContentOf[w] = ContentOf[u]
                             /\ ContentOf[v] # ContentOf[u]
    BY <1>1 DEF Undone
  <2>2. w <= ver'[c] BY <2>1, WorldMovesOn DEF Version
  <2>3. Undone(c, u, v)' BY <1>1, <2>1, <2>2 DEF Undone
  <2>4. QED BY <2>3 DEF AsFreshAs
<1>2. CASE ContentCurrentSince(c, v, t)
  <2>1. PICK w \in Version :
          ContentOf[w] = ContentOf[v] /\ CurrentSince(c, w, t)
    BY <1>2 DEF ContentCurrentSince
  <2>2. CurrentSince(c, w, t)' BY <2>1, WorldKeepsCurrent
  <2>3. QED BY <2>1, <2>2 DEF AsFreshAs, ContentCurrentSince
<1>3. QED BY <1>1, <1>2 DEF AsFreshAs

(* What is as fresh as t is as fresh as any instant before. *)
LEMMA AsFreshAsEarlier ==
  ASSUME SaaSTypeOK, NEW c \in Connector, NEW u, NEW v, NEW t \in Int,
         NEW earlier \in Int, earlier <= t, AsFreshAs(c, u, v, t)
  PROVE  AsFreshAs(c, u, v, earlier)
<1>1. CASE ContentCurrentSince(c, v, t)
  <2>1. PICK w \in Version :
          ContentOf[w] = ContentOf[v] /\ CurrentSince(c, w, t)
    BY <1>1 DEF ContentCurrentSince
  <2>2. CurrentSince(c, w, earlier)
    BY <2>1 DEF SaaSTypeOK, CurrentSince, CurrentUntil
  <2>3. QED BY <2>1, <2>2 DEF AsFreshAs, ContentCurrentSince
<1>2. QED BY <1>1 DEF AsFreshAs

(* What holds the current content is as fresh as can be. *)
LEMMA CurrentContent ==
  ASSUME SaaSTypeOK, NEW c \in Connector, NEW u, NEW v, NEW t \in Int,
         t <= clock, ContentOf[v] = ContentOf[ver[c]]
  PROVE  AsFreshAs(c, u, v, t)
<1>1. ver[c] \in Version /\ ver[c] <= ver[c] BY DEF SaaSTypeOK, Version
<1>2. CurrentSince(c, ver[c], t) BY <1>1 DEF CurrentSince, CurrentUntil
<1>3. QED BY <1>1, <1>2 DEF AsFreshAs, ContentCurrentSince

(* A step that leaves the data alone changes nothing about freshness. *)
LEMMA DataUntouched ==
  ASSUME UNCHANGED saasVars
  PROVE  /\ \A c, rows, since :
              RowsCurrent(c, rows, since)' <=> RowsCurrent(c, rows, since)
         /\ \A t, rows, since, e :
              RowsSound(t, rows, since, e)' <=> RowsSound(t, rows, since, e)
<1>1. \A c, v, t : CurrentSince(c, v, t)' <=> CurrentSince(c, v, t)
  BY DEF saasVars, CurrentSince, CurrentUntil
<1>2. \A c, u, v, t : AsFreshAs(c, u, v, t)' <=> AsFreshAs(c, u, v, t)
  BY <1>1 DEF saasVars, AsFreshAs, Undone, ContentCurrentSince
<1>3. \A c, rows, since :
        RowsCurrent(c, rows, since)' <=> RowsCurrent(c, rows, since)
  BY <1>2 DEF RowsCurrent
<1>4. QED BY <1>3 DEF saasVars, RowsSound

LEMMA WorldKeepsRowsCurrent ==
  ASSUME SaaSTypeOK, World, NEW c \in Connector, NEW rows,
         NEW since \in Int, RowsCurrent(c, rows, since)
  PROVE  RowsCurrent(c, rows, since)'
<1> SUFFICES ASSUME NEW i \in DOMAIN rows
             PROVE  AsFreshAs(c, rows[1].ver, rows[i].ver, since)'
  BY DEF RowsCurrent
<1>1. AsFreshAs(c, rows[1].ver, rows[i].ver, since) BY DEF RowsCurrent
<1>2. QED BY <1>1, WorldKeepsFreshness

LEMMA WorldKeepsRows ==
  ASSUME SaaSTypeOK, World, NEW t \in Tag, NEW rows \in Seq(Page),
         NEW since \in Int, NEW e, RowsSound(t, rows, since, e)
  PROVE  RowsSound(t, rows, since, e)'
<1>1. ConnOf[t[2]] \in Connector BY FreshnessAssumption
<1>2. \A i \in DOMAIN rows : rows[i].ver \in Nat
  <2>1. \A i \in DOMAIN rows : rows[i] \in Page OBVIOUS
  <2>2. QED BY <2>1 DEF Page, Version
<1>3. RowsCurrent(ConnOf[t[2]], rows, since)'
  BY <1>1, WorldKeepsRowsCurrent DEF RowsSound
<1>4. \A i \in DOMAIN rows : rows[i].ver <= ver'[ConnOf[t[2]]]
  BY <1>1, <1>2, WorldMovesOn DEF RowsSound
<1>5. QED BY <1>3, <1>4 DEF RowsSound

(* A fetcher whose variables a step leaves alone stays sound. *)
LEMMA UntouchedFetcher ==
  ASSUME NEW g \in Fetcher, FetcherSound(g), UNCHANGED saasVars,
         /\ at'[g] = at[g] /\ who'[g] = who[g] /\ sig'[g] = sig[g]
         /\ now'[g] = now[g] /\ held'[g] = held[g] /\ asked'[g] = asked[g]
         /\ phase'[g] = phase[g] /\ req'[g] = req[g] /\ all'[g] = all[g]
         /\ etag'[g] = etag[g] /\ reply'[g] = reply[g]
  PROVE  FetcherSound(g)'
<1> USE DataUntouched DEF TagOf, ConnFor, Since
<1>1. ClockInOrder(g)' BY DEF FetcherSound, ClockInOrder, saasVars
<1>2. LoopIsOwn(g)' BY DEF FetcherSound, LoopIsOwn
<1>3. PagesSound(g)' BY DEF FetcherSound, PagesSound
<1>4. HeldSound(g)' BY DEF FetcherSound, HeldSound, WholeResult
<1>5. ReplySound(g)' BY DEF FetcherSound, ReplySound, WholeResult
<1>6. QED BY <1>1, <1>2, <1>3, <1>4, <1>5 DEF FetcherSound

(* A step of the page loop that collects or returns nothing new. *)
LEMMA LoopStepSound ==
  ASSUME FreshTypeOK, NEW f \in Fetcher, FetcherSound(f),
         UNCHANGED <<saasVars, freshVars>>, UNCHANGED <<req, all, etag>>,
         at[f] \in {"fetch", "live"},
         \/ phase[f] # "done" /\ phase'[f] \in {"gate", "send", "wait"}
         \/ phase'[f] = "done" /\ reply'[f].err # "none"
  PROVE  FetcherSound(f)'
<1> USE DataUntouched DEF freshVars, callVars, TagOf, ConnFor, Since
<1>1. ClockInOrder(f)' BY DEF FetcherSound, ClockInOrder, saasVars
<1>2. LoopIsOwn(f)' BY DEF FetcherSound, LoopIsOwn
<1>3. PagesSound(f)' BY DEF FetcherSound, PagesSound
<1>4. HeldSound(f)' BY DEF FetcherSound, HeldSound, WholeResult
<1>5. ReplySound(f)' BY DEF FetcherSound, ReplySound, WholeResult
<1>6. QED BY <1>1, <1>2, <1>3, <1>4, <1>5 DEF FetcherSound

(* A page collected now is the request's own, current, and no older than *)
(* the pages before it.                                                  *)
LEMMA PageCollected ==
  ASSUME FreshTypeOK, NEW f \in Fetcher, FetcherSound(f),
         at[f] \in {"fetch", "live"}, phase[f] = "wait",
         NEW pages, pages = Append(all[f], PageServed(req[f], Len(all[f]) + 1))
  PROVE  /\ RowsSound(TagOf(f), pages, Since(f), ETagKept(f))
         /\ \A i \in DOMAIN pages : pages[i].at = i
         /\ \A i \in DOMAIN all[f] : ~pages[i].last
         /\ DOMAIN pages = 1 .. Len(pages) /\ DOMAIN all[f] = 1 .. Len(all[f])
         /\ Len(pages) = Len(all[f]) + 1
<1> DEFINE n == Len(all[f])
           c == ConnFor(f)
           page == PageServed(req[f], n + 1)
<1>1. /\ all[f] \in Seq(Page) /\ n \in Nat
      /\ DOMAIN all[f] = 1 .. n
      /\ page \in Page /\ c \in Connector
      /\ req[f] \in Request
      /\ asked[f] \in Nat /\ now[f] \in Nat /\ clock \in Nat
  BY ServedTyped, TagTyped DEF FreshTypeOK, HTTPTypeOK, SaaSTypeOK
<1>2. /\ req[f].conn = c /\ req[f].tag = TagOf(f)
      /\ Since(f) <= clock
  BY DEF FetcherSound, LoopIsOwn, ClockInOrder, Since
<1>3. /\ RowsSound(TagOf(f), all[f], Since(f), etag[f])
      /\ \A i \in DOMAIN all[f] : all[f][i].at = i /\ ~all[f][i].last
  BY DEF FetcherSound, PagesSound
<1>4. page.tag = TagOf(f) /\ page.ver = ver[c] /\ page.at = n + 1
  BY <1>2 DEF PageServed
<1> HIDE DEF page
<1>5. /\ pages \in Seq(Page) /\ Len(pages) = n + 1
      /\ DOMAIN pages = 1 .. n + 1
      /\ pages[n + 1] = page
      /\ \A i \in 1 .. n : pages[i] = all[f][i]
  BY <1>1 DEF page
<1>6. ver[c] \in Nat /\ ConnOf[TagOf(f)[2]] = c
  BY <1>1, TagTyped DEF FreshTypeOK, HTTPTypeOK, SaaSTypeOK, Version
<1>7. \A u : AsFreshAs(c, u, ver[c], Since(f))
  <2>1. Since(f) \in Int /\ SaaSTypeOK
    BY <1>1 DEF Since, FreshTypeOK, HTTPTypeOK
  <2>2. QED BY <1>1, <1>2, <2>1, CurrentContent
<1>8. ASSUME NEW i \in 1 .. n + 1
      PROVE  /\ pages[i].tag = TagOf(f)
             /\ AsFreshAs(c, pages[1].ver, pages[i].ver, Since(f))
             /\ pages[1].ver <= pages[i].ver /\ pages[i].ver <= ver[c]
             /\ pages[i].at = i
  <2>1. CASE i = n + 1
    <3>1. CASE n = 0 BY <1>1, <1>4, <1>5, <1>6, <1>7, <2>1, <3>1
    <3>2. CASE n # 0
      <4>1. 1 \in 1 .. n BY <1>1, <3>2
      <4>2. pages[1].ver <= ver[c]
        BY <1>1, <1>3, <1>5, <1>6, <4>1 DEF RowsSound
      <4>3. QED BY <1>4, <1>5, <1>6, <1>7, <2>1, <4>2
    <3>3. QED BY <3>1, <3>2
  <2>2. CASE i \in 1 .. n
    <3>1. 1 \in 1 .. n BY <1>1, <2>2
    <3>2. pages[i] = all[f][i] /\ pages[1] = all[f][1] BY <1>5, <2>2, <3>1
    <3>3. QED BY <1>1, <1>3, <1>6, <2>2, <3>2 DEF RowsSound, RowsCurrent
  <2>3. QED BY <1>1, <2>1, <2>2
<1>9. pages # <<>> /\ ETagKept(f) # NoETag => ETagKept(f) = ContentOf[pages[1].ver]
  <2>1. CASE n = 0
    <3>1. all[f] = <<>> BY <1>1, <2>1
    <3>2. pages[1] = page BY <1>5, <2>1
    <3>3. QED BY <1>2, <1>4, <3>1, <3>2 DEF ETagKept, ETagNow
  <2>2. CASE n # 0
    <3>1. all[f] # <<>> /\ pages[1] = all[f][1] BY <1>1, <1>5, <2>2
    <3>2. QED BY <1>3, <3>1 DEF ETagKept, RowsSound
  <2>3. QED BY <2>1, <2>2
<1>10. RowsSound(TagOf(f), pages, Since(f), ETagKept(f))
  BY <1>5, <1>6, <1>8, <1>9 DEF RowsSound, RowsCurrent
<1>11. QED BY <1>1, <1>3, <1>5, <1>8, <1>10

LEMMA AnswerPageSound ==
  ASSUME FreshTypeOK, NEW f \in Fetcher, FetcherSound(f),
         AnswerPage(f), UNCHANGED freshVars
  PROVE  FetcherSound(f)'
<1> DEFINE page == PageServed(req[f], Len(all[f]) + 1)
           pages == Append(all[f], page)
           first == ETagKept(f)
<1>1. /\ phase[f] = "wait" /\ all'[f] = pages /\ etag'[f] = first
      /\ \/ page.last /\ phase'[f] = "done" /\ reply'[f] = Rows(pages, first)
         \/ ~page.last /\ phase'[f] = "gate"
      /\ UNCHANGED <<saasVars, freshVars, req>>
  BY DEF AnswerPage, Return, FreshTypeOK, HTTPTypeOK
<1>2. at[f] \in {"fetch", "live"} BY <1>1 DEF FetcherSound, LoopIsOwn
<1>3. /\ RowsSound(TagOf(f), pages, Since(f), first)
      /\ \A i \in DOMAIN pages : pages[i].at = i
      /\ \A i \in DOMAIN all[f] : ~pages[i].last
      /\ DOMAIN pages = 1 .. Len(pages) /\ DOMAIN all[f] = 1 .. Len(all[f])
      /\ Len(pages) = Len(all[f]) + 1
  BY <1>1, <1>2, PageCollected
<1>4. /\ pages[Len(pages)] = page /\ pages # <<>> /\ Len(all[f]) \in Nat
      /\ page.last \in BOOLEAN
  <2>1. all[f] \in Seq(Page) /\ req[f] \in Request /\ SaaSTypeOK
    BY DEF FreshTypeOK, HTTPTypeOK
  <2>2. page \in Page BY <2>1, ServedTyped
  <2>3. page.last \in BOOLEAN BY <2>2 DEF Page
  <2> HIDE DEF page
  <2>4. QED BY <1>3, <2>1, <2>2, <2>3
<1> HIDE DEF page, pages, first
<1>5. page.last => WholeResult(pages) BY <1>3, <1>4 DEF WholeResult
<1>6. ~page.last => \A i \in DOMAIN pages : ~pages[i].last
  <2> SUFFICES ASSUME ~page.last, NEW i \in DOMAIN pages PROVE ~pages[i].last
    OBVIOUS
  <2>1. i = Len(pages) \/ i \in DOMAIN all[f] BY <1>3, <1>4
  <2>2. QED BY <1>3, <1>4, <2>1
<1>7. /\ at'[f] = at[f] /\ TagOf(f)' = TagOf(f) /\ Since(f)' = Since(f)
      /\ ConnFor(f)' = ConnFor(f)
  BY <1>1 DEF freshVars, callVars, TagOf, Since, ConnFor
<1>8. ClockInOrder(f)'
  BY <1>1 DEF FetcherSound, ClockInOrder, saasVars, freshVars, callVars
<1>9. LoopIsOwn(f)' BY <1>1, <1>2, <1>7 DEF FetcherSound, LoopIsOwn
<1>10. PagesSound(f)'
  <2>1. CASE phase'[f] = "done" BY <2>1 DEF PagesSound
  <2>2. CASE ~page.last
    <3>1. QED BY <1>1, <1>3, <1>6, <1>7, <2>2, DataUntouched DEF PagesSound
  <2>3. QED BY <1>1, <2>1, <2>2
<1>11. HeldSound(f)'
  BY <1>1, DataUntouched
  DEF FetcherSound, HeldSound, WholeResult, freshVars, callVars, TagOf
<1>12. ReplySound(f)'
  <2>1. CASE ~page.last BY <1>1, <2>1 DEF ReplySound
  <2>2. CASE page.last
    <3>1. /\ reply'[f].notModified = FALSE /\ reply'[f].rows = pages
          /\ reply'[f].etag = first
      BY <1>1, <2>2 DEF Rows
    <3>2. QED BY <1>1, <1>3, <1>5, <1>7, <2>2, <3>1, DataUntouched
              DEF ReplySound, WholeResult
  <2>3. QED BY <2>1, <2>2
<1>13. QED BY <1>8, <1>9, <1>10, <1>11, <1>12 DEF FetcherSound

(* A 304 to a request whose ETag is the current one means that every page *)
(* held is as fresh as the data now, as far as an ETag can tell: no later *)
(* page is older than the first, whose content is back.                   *)
LEMMA NotModifiedMeansCurrent ==
  ASSUME FreshTypeOK, HonestSource, NEW f \in Fetcher,
         FetcherSound(f), AnswerNotModified(f)
  PROVE  /\ at[f] = "fetch" /\ held[f].ok
         /\ RowsCurrent(ConnFor(f), held[f].rows, now[f])
<1>1. /\ phase[f] = "wait" /\ req[f].etag # NoETag
      /\ req[f].etag = ETagNow(req[f].conn)
  BY DEF AnswerNotModified, HonestSource, Conditional
<1>2. at[f] = "fetch" BY <1>1 DEF FetcherSound, LoopIsOwn, HeldSound
<1>3. held[f].ok /\ held[f].etag = ETagNow(ConnFor(f)) /\ held[f].etag # NoETag
  BY <1>1, <1>2 DEF FetcherSound, LoopIsOwn, HeldSound
<1>4. RowsSound(TagOf(f), held[f].rows, held[f].fetchedAt, held[f].etag)
      /\ WholeResult(held[f].rows)
  BY <1>2, <1>3 DEF FetcherSound, HeldSound
<1> DEFINE c == ConnFor(f)
           rows == held[f].rows
<1>5. /\ rows \in Seq(Page) /\ c \in Connector /\ SaaSTypeOK
      /\ now[f] \in Int /\ now[f] <= clock
  BY <1>2, TagTyped, ReplyTyped
  DEF FreshTypeOK, HTTPTypeOK, FetcherSound, ClockInOrder
<1>6. \A i \in DOMAIN rows : rows[i].ver \in Version
  <2>1. \A i \in DOMAIN rows : rows[i] \in Page BY <1>5
  <2>2. QED BY <2>1 DEF Page
<1>7. 1 \in DOMAIN rows BY <1>4, <1>5 DEF WholeResult
<1>8. ContentOf[rows[1].ver] = ETagNow(c) /\ ETagNow(c) # NoETag
  BY <1>3, <1>4 DEF RowsSound, WholeResult
<1>9. ASSUME NEW i \in DOMAIN rows
      PROVE  AsFreshAs(c, rows[1].ver, rows[i].ver, now[f])
  <2>1. rows[1].ver <= rows[i].ver /\ rows[i].ver <= ver[c]
    BY <1>4, TagTyped DEF RowsSound
  <2> HIDE DEF c, rows
  <2>2. ContentOf[rows[i].ver] = ContentOf[ver[c]]
          \/ Undone(c, rows[1].ver, rows[i].ver)
    BY <1>5, <1>6, <1>7, <1>8, <1>9, <2>1, PageVouched
  <2>3. CASE ContentOf[rows[i].ver] = ContentOf[ver[c]]
    BY <1>5, <2>3, CurrentContent
  <2>4. CASE Undone(c, rows[1].ver, rows[i].ver) BY <2>4 DEF AsFreshAs
  <2>5. QED BY <2>2, <2>3, <2>4
<1>10. QED BY <1>2, <1>3, <1>9 DEF RowsCurrent

LEMMA AnswerNotModifiedSound ==
  ASSUME FreshTypeOK, HonestSource, NEW f \in Fetcher,
         FetcherSound(f), AnswerNotModified(f), UNCHANGED freshVars
  PROVE  FetcherSound(f)'
<1> USE DataUntouched DEF freshVars, callVars, TagOf, ConnFor, Since
<1>1. /\ phase[f] = "wait" /\ phase'[f] = "done" /\ reply'[f] = NotModified
      /\ UNCHANGED <<saasVars, freshVars, req, all, etag>>
  BY DEF AnswerNotModified, Return, FreshTypeOK, HTTPTypeOK
<1>2. ClockInOrder(f)' BY <1>1 DEF FetcherSound, ClockInOrder, saasVars
<1>3. LoopIsOwn(f)' BY <1>1 DEF FetcherSound, LoopIsOwn
<1>4. PagesSound(f)' BY <1>1 DEF PagesSound
<1>5. HeldSound(f)' BY <1>1 DEF FetcherSound, HeldSound, WholeResult
<1>6. ReplySound(f)'
  BY <1>1, NotModifiedMeansCurrent DEF ReplySound, NotModified
<1>7. QED BY <1>2, <1>3, <1>4, <1>5, <1>6 DEF FetcherSound

(* An empty page is not collected; until the first page is, no ETag counts. *)
LEMMA AnswerEmptySound ==
  ASSUME FreshTypeOK, NEW f \in Fetcher, FetcherSound(f),
         AnswerEmpty(f), UNCHANGED freshVars
  PROVE  FetcherSound(f)'
<1> USE DataUntouched DEF freshVars, callVars, TagOf, ConnFor, Since
<1>1. /\ phase[f] = "wait" /\ phase'[f] = "gate" /\ etag'[f] = ETagKept(f)
      /\ UNCHANGED <<saasVars, freshVars, req, all>>
  BY DEF AnswerEmpty, FreshTypeOK, HTTPTypeOK
<1>2. ClockInOrder(f)' BY <1>1 DEF FetcherSound, ClockInOrder, saasVars
<1>3. LoopIsOwn(f)' BY <1>1 DEF FetcherSound, LoopIsOwn
<1>4. PagesSound(f)'
  <2>1. all[f] # <<>> => etag'[f] = etag[f] BY <1>1 DEF ETagKept
  <2>2. RowsSound(TagOf(f), all[f], Since(f), etag'[f])
        /\ \A i \in DOMAIN all[f] : all[f][i].at = i /\ ~all[f][i].last
    <3>1. at[f] \in {"fetch", "live"} /\ phase[f] # "done"
      BY <1>1 DEF FetcherSound, LoopIsOwn
    <3>2. QED BY <2>1, <3>1 DEF FetcherSound, PagesSound, RowsSound
  <2>3. QED BY <1>1, <2>2 DEF PagesSound
<1>5. HeldSound(f)' BY <1>1 DEF FetcherSound, HeldSound, WholeResult
<1>6. ReplySound(f)' BY <1>1 DEF ReplySound
<1>7. QED BY <1>2, <1>3, <1>4, <1>5, <1>6 DEF FetcherSound

(* The page loop of a fetcher keeps it sound. *)
LEMMA WireSound ==
  ASSUME FreshTypeOK, HonestSource, NEW f \in Fetcher,
         FetcherSound(f), WireStep(f), UNCHANGED freshVars
  PROVE  FetcherSound(f)'
<1> USE DEF FreshTypeOK, HTTPTypeOK
<1>1. phase[f] # "idle" => at[f] \in {"fetch", "live"}
  BY DEF FetcherSound, LoopIsOwn
<1>2. CASE PageGate(f) BY <1>1, <1>2, LoopStepSound DEF PageGate
<1>3. CASE PageRefused(f)
  BY <1>1, <1>3, LoopStepSound DEF PageRefused, Return, Failed
<1>4. CASE SendPage(f) BY <1>1, <1>4, LoopStepSound DEF SendPage
<1>5. CASE ContextHits(f) \/ NotSent(f)
  BY <1>1, <1>5, LoopStepSound
  DEF ContextHits, NotSent, TokenLost, Return, Failed
<1>6. CASE AnswerPage(f) BY <1>6, AnswerPageSound
<1>7. CASE AnswerNotModified(f) BY <1>7, AnswerNotModifiedSound
<1>8. CASE AnswerError(f)
  BY <1>1, <1>8, LoopStepSound, SourceAssumption
  DEF AnswerError, Return, Failed, FetchError
<1>9. CASE ContextEnds(f)
  BY <1>9, UntouchedFetcher DEF ContextEnds, freshVars, callVars
<1>10. CASE AnswerEmpty(f) BY <1>10, AnswerEmptySound
<1>11. QED BY <1>2, <1>3, <1>4, <1>5, <1>6, <1>7, <1>8, <1>9, <1>10
           DEF WireStep, Own, Answer

(* The steps of Source.Fetch up to the page loop. *)
LEMMA CallSound ==
  ASSUME FreshTypeOK, NEW f \in Fetcher, FetcherSound(f),
         NEW s \in Signature, Call(f, s)
  PROVE  FetcherSound(f)'
<1> USE DEF TagOf, ConnFor, Since
<1>1. /\ asked'[f] = clock /\ sig'[f] = s /\ clock' = clock
      /\ UNCHANGED <<who, now, held, saasVars>>
      /\ \/ at'[f] = "clock" /\ UNCHANGED phase
         \/ /\ at'[f] = "live" /\ phase'[f] = "gate"
            /\ req'[f] = [conn |-> ConnOf[s], tag |-> <<who[f], s>>,
                          etag |-> NoETag]
            /\ all'[f] = <<>>
  BY DEF Call, Start, FreshTypeOK, HTTPTypeOK, httpVars, saasVars, wireVars
<1>2. at[f] = "ready" => phase[f] = "idle"
  BY DEF FetcherSound, LoopIsOwn, FreshTypeOK, HTTPTypeOK, SaaSTypeOK
<1>3. phase[f] = "idle" BY <1>2 DEF Call, FetcherSound, LoopIsOwn
<1>4. ClockInOrder(f)'
  BY <1>1 DEF ClockInOrder, FreshTypeOK, HTTPTypeOK, SaaSTypeOK
<1>5. LoopIsOwn(f)' BY <1>1, <1>3 DEF LoopIsOwn
<1>6. PagesSound(f)' BY <1>1 DEF PagesSound, RowsSound, RowsCurrent
<1>7. HeldSound(f)' BY <1>1 DEF HeldSound
<1>8. ReplySound(f)' BY <1>1 DEF ReplySound
<1>9. QED BY <1>4, <1>5, <1>6, <1>7, <1>8 DEF FetcherSound

LEMMA ReadClockSound ==
  ASSUME FreshTypeOK, NEW f \in Fetcher, FetcherSound(f), ReadClock(f)
  PROVE  FetcherSound(f)'
<1>1. /\ now'[f] = clock /\ at[f] = "clock" /\ at'[f] = "lookup"
      /\ UNCHANGED <<asked, saasVars, phase>>
  BY DEF ReadClock, FreshTypeOK, HTTPTypeOK, httpVars, wireVars
<1>2. ClockInOrder(f)'
  BY <1>1 DEF FetcherSound, ClockInOrder, FreshTypeOK, HTTPTypeOK, SaaSTypeOK, saasVars
<1>3. QED BY <1>1, <1>2 DEF FetcherSound, LoopIsOwn, PagesSound, HeldSound, ReplySound

(* A fetch that ends leaves nothing of itself behind. *)
LEMMA EndedSound ==
  ASSUME FreshTypeOK, NEW f \in Fetcher, FetcherSound(f),
         at'[f] = "ready", phase'[f] = "idle", UNCHANGED <<asked, saasVars>>
  PROVE  FetcherSound(f)'
BY DEF FetcherSound, ClockInOrder, LoopIsOwn, PagesSound, HeldSound,
       ReplySound, saasVars

LEMMA MissSound ==
  ASSUME FreshTypeOK, NEW f \in Fetcher, FetcherSound(f), EntriesSound, Miss(f)
  PROVE  FetcherSound(f)'
<1> USE DataUntouched DEF TagOf, ConnFor, Since
<1>1. /\ at[f] = "lookup" /\ at'[f] = "fetch" /\ phase'[f] = "gate"
      /\ held'[f] = Looked(f)
      /\ req'[f] = Asking(f, Looked(f).etag) /\ all'[f] = <<>>
      /\ UNCHANGED <<saasVars, who, sig, now, asked>>
  BY DEF Miss, Start, FreshTypeOK, HTTPTypeOK
<1>2. ClockInOrder(f)' BY <1>1 DEF FetcherSound, ClockInOrder, saasVars
<1>3. LoopIsOwn(f)' BY <1>1 DEF LoopIsOwn, Asking
<1>4. PagesSound(f)' BY <1>1 DEF PagesSound, RowsSound, RowsCurrent
<1>5. HeldSound(f)'
  <2>1. req'[f].etag = Looked(f).etag BY <1>1 DEF Asking
  <2>2. CASE KeyFor(f) \in DOMAIN entries
    <3> DEFINE e == entries[KeyFor(f)]
    <3>1. RowsSound(TagOf(f), e.rows, e.fetchedAt, e.etag) /\ WholeResult(e.rows)
      BY <2>2, TagTyped DEF EntriesSound, KeyFor
    <3>2. /\ Looked(f).ok /\ Looked(f).rows = e.rows /\ Looked(f).etag = e.etag
          /\ Looked(f).fetchedAt = e.fetchedAt
      BY <2>2 DEF Looked
    <3> HIDE DEF e
    <3>3. QED BY <1>1, <2>1, <3>1, <3>2 DEF HeldSound, WholeResult
  <2>3. CASE KeyFor(f) \notin DOMAIN entries
    <3>1. Looked(f) = NothingHeld BY <2>3 DEF Looked
    <3>2. QED BY <1>1, <2>1, <3>1 DEF HeldSound, NothingHeld
  <2>4. QED BY <2>2, <2>3
<1>6. ReplySound(f)' BY <1>1 DEF ReplySound
<1>7. QED BY <1>2, <1>3, <1>4, <1>5, <1>6 DEF FetcherSound

LEMMA FetchStepSound ==
  ASSUME FreshTypeOK, NEW f \in Fetcher, FetcherSound(f), EntriesSound,
         FetchStep(f)
  PROVE  FetcherSound(f)'
<1> USE DEF Consume, Answered, FreshTypeOK, HTTPTypeOK
<1>1. CASE ReadClock(f) BY <1>1, ReadClockSound
<1>2. CASE Hit(f)
  <2>1. phase[f] = "idle" BY <1>2 DEF Hit, FetcherSound, LoopIsOwn
  <2>2. QED BY <1>2, <2>1, EndedSound DEF Hit, httpVars, wireVars
<1>3. CASE Miss(f) BY <1>3, MissSound
<1>4. CASE FetchFailed(f) BY <1>4, EndedSound DEF FetchFailed, Returned
<1>5. CASE FetchRevalidated(f)
  BY <1>5, EndedSound DEF FetchRevalidated, Returned
<1>6. CASE FetchFresh(f) BY <1>6, EndedSound DEF FetchFresh, Returned
<1>7. CASE LiveReturned(f) BY <1>7, EndedSound DEF LiveReturned
<1>8. QED BY <1>1, <1>2, <1>3, <1>4, <1>5, <1>6, <1>7 DEF FetchStep

(* A step of one fetcher leaves the variables of the others alone. *)
LEMMA StepIsOwn ==
  ASSUME FreshTypeOK, NEW f \in Fetcher, NEW g \in Fetcher \ {f},
         \/ \E s \in Signature : Call(f, s)
         \/ FetchStep(f)
         \/ WireStep(f) /\ UNCHANGED freshVars
  PROVE  /\ UNCHANGED <<saasVars, who, staleness>>
         /\ at'[g] = at[g] /\ sig'[g] = sig[g] /\ now'[g] = now[g]
         /\ held'[g] = held[g] /\ asked'[g] = asked[g]
         /\ phase'[g] = phase[g] /\ req'[g] = req[g] /\ all'[g] = all[g]
         /\ etag'[g] = etag[g] /\ reply'[g] = reply[g]
         /\ answers'[g] = answers[g]
<1> USE DEF FreshTypeOK, HTTPTypeOK, httpVars, wireVars, freshVars, callVars
<1>1. CASE \E s \in Signature : Call(f, s) BY <1>1 DEF Call, Start
<1>2. CASE FetchStep(f)
  <2> USE DEF Answered, Returned, Consume
  <2>1. CASE ReadClock(f) BY <2>1 DEF ReadClock
  <2>2. CASE Hit(f) BY <2>2 DEF Hit
  <2>3. CASE Miss(f) BY <2>3 DEF Miss, Start
  <2>4. CASE FetchFailed(f) BY <2>4 DEF FetchFailed
  <2>5. CASE FetchRevalidated(f) BY <2>5 DEF FetchRevalidated
  <2>6. CASE FetchFresh(f) BY <2>6 DEF FetchFresh
  <2>7. CASE LiveReturned(f) BY <2>7 DEF LiveReturned
  <2>8. QED BY <1>2, <2>1, <2>2, <2>3, <2>4, <2>5, <2>6, <2>7 DEF FetchStep
<1>3. CASE WireStep(f) /\ UNCHANGED freshVars
  BY <1>3 DEF WireStep, Own, Answer, PageGate, PageRefused, SendPage,
     NotSent, ContextHits, AnswerPage, AnswerEmpty, AnswerNotModified, AnswerError,
     ContextEnds, Return
<1>4. QED BY <1>1, <1>2, <1>3

(* The entry a fetch publishes is as sound as the rows it publishes. *)
LEMMA PublishSound ==
  ASSUME FreshTypeOK, KeysDistinct, EntriesSound, UNCHANGED saasVars,
         NEW f \in Fetcher, NEW rows \in Seq(Page), NEW e \in ETag,
         RowsSound(TagOf(f), rows, now[f], e), WholeResult(rows),
         Publish(f, rows, e)
  PROVE  EntriesSound'
<1> SUFFICES ASSUME NEW t \in Tag, KeyOf[t] \in DOMAIN entries'
             PROVE  (/\ RowsSound(t, entries[KeyOf[t]].rows,
                                  entries[KeyOf[t]].fetchedAt,
                                  entries[KeyOf[t]].etag)
                     /\ WholeResult(entries[KeyOf[t]].rows))'
  BY DEF EntriesSound
<1> USE DataUntouched DEF WholeResult
<1>1. CASE t = TagOf(f)
  <2>1. entries'[KeyOf[t]] = [rows |-> rows, etag |-> e, fetchedAt |-> now[f]]
    BY <1>1 DEF Publish, KeyFor, FetchedAt
  <2>2. /\ entries'[KeyOf[t]].rows = rows /\ entries'[KeyOf[t]].etag = e
        /\ entries'[KeyOf[t]].fetchedAt = now[f]
    BY <2>1
  <2>3. QED BY <1>1, <2>2
<1>2. CASE t # TagOf(f)
  <2>1. KeyOf[t] # KeyFor(f) BY <1>2, TagTyped DEF KeysDistinct, KeyFor
  <2>2. KeyOf[t] \in DOMAIN entries /\ entries'[KeyOf[t]] = entries[KeyOf[t]]
    BY <2>1 DEF Publish
  <2>3. QED BY <2>2 DEF EntriesSound
<1>3. QED BY <1>1, <1>2

(* The rows a 304 confirms are sound as of the request that confirmed them. *)
LEMMA RevalidatedSound ==
  ASSUME FreshTypeOK, NEW f \in Fetcher, FetcherSound(f), FetchRevalidated(f)
  PROVE  RowsSound(TagOf(f), held[f].rows, now[f], held[f].etag)
         /\ WholeResult(held[f].rows)
<1>1. /\ at[f] = "fetch" /\ phase[f] = "done" /\ reply[f].err = "none"
      /\ reply[f].notModified /\ held[f].ok
  BY DEF FetchRevalidated, Returned
<1>2. RowsSound(TagOf(f), held[f].rows, held[f].fetchedAt, held[f].etag)
      /\ WholeResult(held[f].rows)
  BY <1>1 DEF FetcherSound, HeldSound
<1>3. RowsCurrent(ConnFor(f), held[f].rows, now[f])
  BY <1>1 DEF FetcherSound, ReplySound
<1>4. QED BY <1>2, <1>3, TagTyped DEF RowsSound

LEMMA FreshSound ==
  ASSUME FreshTypeOK, NEW f \in Fetcher, FetcherSound(f), FetchFresh(f)
  PROVE  RowsSound(TagOf(f), reply[f].rows, now[f], reply[f].etag)
         /\ WholeResult(reply[f].rows)
BY DEF FetchFresh, Returned, FetcherSound, ReplySound, Since

LEMMA EntriesKept ==
  ASSUME FreshTypeOK, KeysDistinct, EntriesSound, NEW f \in Fetcher,
         FetcherSound(f), FetchStep(f)
  PROVE  EntriesSound'
<1> USE DEF Consume, Returned, httpVars
<1>0. ASSUME UNCHANGED <<entries, saasVars>> PROVE EntriesSound'
  BY <1>0, DataUntouched DEF EntriesSound, WholeResult
<1>1. CASE ReadClock(f) BY <1>0, <1>1 DEF ReadClock
<1>2. CASE Hit(f) BY <1>0, <1>2 DEF Hit
<1>3. CASE Miss(f) BY <1>0, <1>3 DEF Miss, Start
<1>4. CASE FetchFailed(f) BY <1>0, <1>4 DEF FetchFailed
<1>5. CASE FetchRevalidated(f)
  BY <1>5, RevalidatedSound, ReplyTyped, PublishSound DEF FetchRevalidated
<1>6. CASE FetchFresh(f)
  BY <1>6, FreshSound, ReplyTyped, PublishSound DEF FetchFresh
<1>7. CASE LiveReturned(f) BY <1>0, <1>7 DEF LiveReturned
<1>8. QED BY <1>1, <1>2, <1>3, <1>4, <1>5, <1>6, <1>7 DEF FetchStep

(* What is sound before a step that leaves the data alone is sound after. *)
LEMMA AnswersCarried ==
  ASSUME NEW f, UNCHANGED <<saasVars, who, staleness>>,
         \A i \in DOMAIN answers'[f] : AnswerSound(f, answers'[f][i])
  PROVE  AnswersSound(f)'
BY DataUntouched DEF AnswersSound, AnswerSound, WholeResult

(* An answer made of sound rows dated within the budget and the age. *)
LEMMA AnswerFromRows ==
  ASSUME FreshTypeOK, NEW f \in Fetcher, AnswersSound(f),
         UNCHANGED <<saasVars, who, staleness>>,
         NEW how \in How \ {"failed"}, NEW age \in Int, NEW rows \in Seq(Page),
         Answered(f, how, age, rows), NEW since \in Int, NEW e,
         RowsSound(TagOf(f), rows, since, e), WholeResult(rows),
         asked[f] - staleness[f] <= since, asked[f] - age <= since
  PROVE  AnswersSound(f)'
<1> DEFINE a == [sig |-> sig[f], asked |-> asked[f], how |-> how,
                 age |-> age, rows |-> rows]
<1>1. answers'[f] = Append(answers[f], a) /\ answers[f] \in Seq(FetchAnswer)
  BY DEF Answered, FreshTypeOK
<1>2. /\ a.sig = sig[f] /\ a.asked = asked[f] /\ a.age = age /\ a.rows = rows
      /\ a.how # "failed"
  OBVIOUS
<1>3. asked[f] \in Nat /\ staleness[f] \in Nat /\ ConnFor(f) \in Connector
  BY FreshnessAssumption, TagTyped DEF FreshTypeOK
<1>4. ASSUME NEW j \in DOMAIN rows
      PROVE  /\ rows[j].tag = TagOf(f)
             /\ AsFreshAs(ConnFor(f), rows[1].ver, rows[j].ver,
                          asked[f] - staleness[f])
             /\ AsFreshAs(ConnFor(f), rows[1].ver, rows[j].ver, asked[f] - age)
  <2>1. AsFreshAs(ConnFor(f), rows[1].ver, rows[j].ver, since)
    BY TagTyped DEF RowsSound, RowsCurrent
  <2>2. SaaSTypeOK BY DEF FreshTypeOK, HTTPTypeOK
  <2>3. asked[f] - staleness[f] \in Int /\ asked[f] - age \in Int BY <1>3
  <2>4. QED BY <1>3, <2>1, <2>2, <2>3, AsFreshAsEarlier DEF RowsSound
<1> HIDE DEF a
<1>5. AnswerSound(f, a)
  BY <1>2, <1>4 DEF AnswerSound, RowsCurrent, TagOf, ConnFor
<1>6. ASSUME NEW i \in DOMAIN answers'[f]
      PROVE  AnswerSound(f, answers'[f][i])
  <2>1. answers'[f][i] = a \/ (i \in DOMAIN answers[f] /\ answers'[f][i] = answers[f][i])
    <3>1. \/ i = Len(answers[f]) + 1
          \/ i \in DOMAIN answers[f]
      BY <1>1
    <3>2. QED BY <1>1, <3>1
  <2>2. QED BY <1>5, <2>1 DEF AnswersSound
<1>7. QED BY <1>6, AnswersCarried

(* A fetch that fails answers with no rows to be unsound. *)
LEMMA FailedAnswer ==
  ASSUME FreshTypeOK, NEW f \in Fetcher, AnswersSound(f),
         UNCHANGED <<saasVars, who, staleness>>, Answered(f, "failed", 0, <<>>)
  PROVE  AnswersSound(f)'
<1> DEFINE a == [sig |-> sig[f], asked |-> asked[f], how |-> "failed",
                 age |-> 0, rows |-> <<>>]
<1>1. answers'[f] = Append(answers[f], a) /\ answers[f] \in Seq(FetchAnswer)
  BY DEF Answered, FreshTypeOK
<1>2. AnswerSound(f, a) BY DEF AnswerSound, RowsCurrent
<1> HIDE DEF a
<1>3. ASSUME NEW i \in DOMAIN answers'[f]
      PROVE  AnswerSound(f, answers'[f][i])
  <2>1. answers'[f][i] = a \/ (i \in DOMAIN answers[f] /\ answers'[f][i] = answers[f][i])
    <3>1. i = Len(answers[f]) + 1 \/ i \in DOMAIN answers[f] BY <1>1
    <3>2. QED BY <1>1, <3>1
  <2>2. QED BY <1>2, <2>1 DEF AnswersSound
<1>4. QED BY <1>3, AnswersCarried

LEMMA FetchStepAnswers ==
  ASSUME FreshTypeOK, NEW f \in Fetcher, FetcherSound(f), EntriesSound,
         AnswersSound(f), FetchStep(f)
  PROVE  AnswersSound(f)'
<1>0. ASSUME UNCHANGED <<answers, saasVars, who, staleness>>
      PROVE  AnswersSound(f)'
  BY <1>0, AnswersCarried DEF AnswersSound
<1>t. /\ asked[f] \in Nat /\ now[f] \in Nat /\ staleness[f] \in Nat
      /\ {"hit", "revalidated", "fresh", "live"} \subseteq How \ {"failed"} /\ 0 \in Int
  <2>1. asked[f] \in Nat /\ now[f] \in Nat BY DEF FreshTypeOK
  <2>2. staleness[f] \in MaxStaleness BY DEF FreshTypeOK
  <2>3. staleness[f] \in Nat BY <2>2, FreshnessAssumption
  <2>4. {"hit", "revalidated", "fresh", "live"} \subseteq How \ {"failed"} BY DEF How
  <2>5. QED BY <2>1, <2>3, <2>4
<1>1. CASE ReadClock(f) BY <1>0, <1>1 DEF ReadClock, httpVars
<1>2. CASE Hit(f)
  <2> DEFINE e == entries[KeyFor(f)]
  <2>1. /\ KeyFor(f) \in DOMAIN entries /\ Age(f) <= staleness[f]
        /\ Answered(f, "hit", Age(f), e.rows)
        /\ UNCHANGED <<saasVars, who, staleness>>
    BY <1>2 DEF Hit, WithinBudget, httpVars
  <2>2. RowsSound(TagOf(f), e.rows, e.fetchedAt, e.etag) /\ WholeResult(e.rows)
    BY <2>1, TagTyped DEF EntriesSound, KeyFor
  <2>3. e \in Entry BY <2>1 DEF FreshTypeOK
  <2>4. /\ e.rows \in Seq(Page) /\ e.fetchedAt \in Nat
        /\ Age(f) = now[f] - e.fetchedAt
    BY <2>3 DEF Entry, Age
  <2>5. asked[f] <= now[f] BY <1>2 DEF Hit, FetcherSound, ClockInOrder
  <2> HIDE DEF e
  <2>6. /\ e.fetchedAt \in Int /\ Age(f) \in Int /\ "hit" \in How \ {"failed"}
        /\ asked[f] - staleness[f] <= e.fetchedAt
        /\ asked[f] - Age(f) <= e.fetchedAt
    BY <1>t, <2>1, <2>4, <2>5
  <2>7. QED BY <2>1, <2>2, <2>4, <2>6, AnswerFromRows
<1>3. CASE Miss(f) BY <1>0, <1>3 DEF Miss, Start
<1>4. CASE FetchFailed(f)
  BY <1>4, FailedAnswer DEF FetchFailed, Returned, Consume
<1>5. CASE FetchRevalidated(f)
  <2>1. /\ RowsSound(TagOf(f), held[f].rows, now[f], held[f].etag)
        /\ WholeResult(held[f].rows) /\ held[f].rows \in Seq(Page)
    BY <1>5, RevalidatedSound, ReplyTyped
  <2>2. /\ Answered(f, "revalidated", 0, held[f].rows) /\ at[f] = "fetch"
        /\ UNCHANGED <<saasVars, who, staleness>>
    BY <1>5 DEF FetchRevalidated, Returned, Consume
  <2>3. /\ now[f] \in Int /\ "revalidated" \in How \ {"failed"}
        /\ asked[f] - staleness[f] <= now[f] /\ asked[f] - 0 <= now[f]
    BY <1>t, <2>2 DEF FetcherSound, ClockInOrder
  <2>4. QED BY <1>t, <2>1, <2>2, <2>3, AnswerFromRows
<1>6. CASE FetchFresh(f)
  <2>1. /\ RowsSound(TagOf(f), reply[f].rows, now[f], reply[f].etag)
        /\ WholeResult(reply[f].rows) /\ reply[f].rows \in Seq(Page)
    BY <1>6, FreshSound, ReplyTyped
  <2>2. /\ Answered(f, "fresh", 0, reply[f].rows) /\ at[f] = "fetch"
        /\ UNCHANGED <<saasVars, who, staleness>>
    BY <1>6 DEF FetchFresh, Returned, Consume
  <2>3. /\ now[f] \in Int /\ "fresh" \in How \ {"failed"}
        /\ asked[f] - staleness[f] <= now[f] /\ asked[f] - 0 <= now[f]
    BY <1>t, <2>2 DEF FetcherSound, ClockInOrder
  <2>4. QED BY <1>t, <2>1, <2>2, <2>3, AnswerFromRows
<1>7. CASE LiveReturned(f)
  <2>1. /\ at[f] = "live" /\ phase[f] = "done"
        /\ UNCHANGED <<saasVars, who, staleness>>
    BY <1>7 DEF LiveReturned, Consume
  <2>2. CASE reply[f].err # "none"
    <3>1. Answered(f, "failed", 0, <<>>) BY <1>7, <2>2 DEF LiveReturned
    <3>2. QED BY <2>1, <3>1, FailedAnswer
  <2>3. CASE reply[f].err = "none"
    <3>1. Answered(f, "live", 0, reply[f].rows) BY <1>7, <2>3 DEF LiveReturned
    <3>2. /\ RowsSound(TagOf(f), reply[f].rows, asked[f], reply[f].etag)
          /\ WholeResult(reply[f].rows) /\ reply[f].rows \in Seq(Page)
      BY <2>1, <2>3, ReplyTyped DEF FetcherSound, ReplySound, Since
    <3>3. /\ asked[f] \in Int /\ "live" \in How \ {"failed"}
          /\ asked[f] - staleness[f] <= asked[f] /\ asked[f] - 0 <= asked[f]
      BY <1>t
    <3>4. QED BY <1>t, <2>1, <3>1, <3>2, <3>3, AnswerFromRows
  <2>4. QED BY <2>2, <2>3
<1>8. QED BY <1>1, <1>2, <1>3, <1>4, <1>5, <1>6, <1>7 DEF FetchStep

(* The data changing, or time passing, costs nothing its soundness. *)
LEMMA WorldKeepsFetcher ==
  ASSUME FreshTypeOK, World, UNCHANGED <<buckets, wireVars, freshVars>>,
         NEW f \in Fetcher, FetcherSound(f)
  PROVE  FetcherSound(f)'
<1> USE DEF wireVars, freshVars, callVars
<1>a. /\ SaaSTypeOK /\ TagOf(f) \in Tag /\ clock \in Nat
      /\ all[f] \in Seq(Page) /\ reply[f].rows \in Seq(Page)
  BY TagTyped, ReplyTyped DEF FreshTypeOK, HTTPTypeOK, SaaSTypeOK
<1>b. held[f] \in Held /\ now[f] \in Int /\ asked[f] \in Int
  BY DEF FreshTypeOK
<1>c. held[f].rows \in Seq(Page) /\ held[f].fetchedAt \in Int
  BY <1>b DEF Held
<1>d. Since(f) \in Int BY <1>b DEF Since
<1>1. /\ SaaSTypeOK /\ TagOf(f) \in Tag /\ clock \in Nat
      /\ all[f] \in Seq(Page) /\ held[f].rows \in Seq(Page)
      /\ reply[f].rows \in Seq(Page) /\ held[f].fetchedAt \in Int
      /\ Since(f) \in Int /\ now[f] \in Int /\ asked[f] \in Int
  BY <1>a, <1>b, <1>c, <1>d
<1>2. clock <= clock'
  BY <1>1 DEF World, Tick, Change
<1>3. ClockInOrder(f)'
  <2>1. clock' \in Nat BY <1>1, WorldTyped DEF SaaSTypeOK
  <2>2. QED BY <1>1, <1>2, <2>1 DEF FetcherSound, ClockInOrder
<1>4. LoopIsOwn(f)' BY DEF FetcherSound, LoopIsOwn, ConnFor, TagOf
<1>5. \A e : \A t \in Tag, rows \in Seq(Page), since \in Int :
        RowsSound(t, rows, since, e) => RowsSound(t, rows, since, e)'
  BY <1>1, WorldKeepsRows
<1>6. PagesSound(f)'
  BY <1>1, <1>5 DEF FetcherSound, PagesSound, Since, TagOf
<1>7. HeldSound(f)'
  BY <1>1, <1>5 DEF FetcherSound, HeldSound, TagOf, WholeResult
<1>8. ReplySound(f)'
  <2>1. \A rows : \A c \in Connector, since \in Int :
          RowsCurrent(c, rows, since) => RowsCurrent(c, rows, since)'
    BY <1>1, WorldKeepsRowsCurrent
  <2>2. QED BY <1>1, <1>5, <2>1, TagTyped
            DEF FetcherSound, ReplySound, WholeResult, Since, TagOf, ConnFor
<1>9. QED BY <1>3, <1>4, <1>6, <1>7, <1>8 DEF FetcherSound

LEMMA WorldKeepsEntries ==
  ASSUME FreshTypeOK, World, UNCHANGED <<buckets, wireVars, freshVars>>,
         EntriesSound
  PROVE  EntriesSound'
<1>1. \A e : \A t \in Tag, rows \in Seq(Page), since \in Int :
        RowsSound(t, rows, since, e) => RowsSound(t, rows, since, e)'
  BY WorldKeepsRows DEF FreshTypeOK, HTTPTypeOK
<1>2. \A k \in DOMAIN entries : /\ entries[k].rows \in Seq(Page)
                                /\ entries[k].fetchedAt \in Int
  <2>1. \A k \in DOMAIN entries : entries[k] \in Entry BY DEF FreshTypeOK
  <2>2. QED BY <2>1 DEF Entry
<1>3. QED BY <1>1, <1>2 DEF EntriesSound, WholeResult, freshVars

LEMMA WorldKeepsAnswers ==
  ASSUME FreshTypeOK, World, UNCHANGED <<buckets, wireVars, freshVars>>,
         NEW f \in Fetcher, AnswersSound(f)
  PROVE  AnswersSound(f)'
<1>1. \A rows : \A c \in Connector, since \in Int :
        RowsCurrent(c, rows, since) => RowsCurrent(c, rows, since)'
  BY WorldKeepsRowsCurrent DEF FreshTypeOK, HTTPTypeOK
<1>2. ASSUME NEW i \in DOMAIN answers[f]
      PROVE  /\ ConnOf[answers[f][i].sig] \in Connector
             /\ answers[f][i].asked - staleness[f] \in Int
             /\ answers[f][i].asked - answers[f][i].age \in Int
  <2>1. answers[f][i] \in FetchAnswer BY DEF FreshTypeOK
  <2>2. /\ answers[f][i].sig \in Signature /\ answers[f][i].asked \in Nat
        /\ answers[f][i].age \in Int
    BY <2>1 DEF FetchAnswer
  <2>3. staleness[f] \in Nat BY FreshnessAssumption DEF FreshTypeOK
  <2>4. QED BY <2>2, <2>3, FreshnessAssumption
<1>3. QED BY <1>1, <1>2 DEF AnswersSound, AnswerSound, WholeResult, freshVars

(* The fetchers that do not take a step stay sound through it. *)
LEMMA OthersSound ==
  ASSUME FreshTypeOK, IInv, NEW f \in Fetcher, NEW g \in Fetcher \ {f},
         \/ \E s \in Signature : Call(f, s)
         \/ FetchStep(f)
         \/ WireStep(f) /\ UNCHANGED freshVars
  PROVE  FetcherSound(g)' /\ AnswersSound(g)'
<1>1. FetcherSound(g) /\ AnswersSound(g) BY DEF IInv
<1>2. FetcherSound(g)' BY <1>1, StepIsOwn, UntouchedFetcher
<1>3. AnswersSound(g)' BY <1>1, StepIsOwn, AnswersCarried DEF AnswersSound
<1>4. QED BY <1>2, <1>3

LEMMA InitSound == Init => IInv
<1> SUFFICES ASSUME Init PROVE IInv OBVIOUS
<1>1. ASSUME NEW f \in Fetcher PROVE FetcherSound(f)
  BY DEF Init, HTTPInit, SaaSInit, FetcherSound, ClockInOrder, LoopIsOwn,
         PagesSound, HeldSound, ReplySound
<1>2. \A f \in Fetcher : AnswersSound(f) BY DEF Init, AnswersSound
<1>3. EntriesSound BY DEF Init, EntriesSound
<1>4. QED BY <1>1, <1>2, <1>3 DEF IInv

LEMMA NextSound ==
  ASSUME KeysDistinct, HonestSource
  PROVE  FreshTypeOK /\ IInv /\ [Next]_vars => IInv'
<1> SUFFICES ASSUME FreshTypeOK, IInv, [Next]_vars PROVE IInv' OBVIOUS
<1> DEFINE Step(f) == \/ \E s \in Signature : Call(f, s)
                      \/ FetchStep(f)
                      \/ WireStep(f) /\ UNCHANGED freshVars
<1>1. ASSUME NEW f \in Fetcher, Step(f) PROVE IInv'
  <2>1. FetcherSound(f) /\ AnswersSound(f) /\ EntriesSound BY DEF IInv
  <2>2. CASE \E s \in Signature : Call(f, s)
    <3>1. /\ UNCHANGED <<entries, answers, who, staleness, saasVars>>
      BY <2>2 DEF Call, Start, httpVars
    <3>2. FetcherSound(f)' BY <2>1, <2>2, CallSound
    <3>3. EntriesSound' BY <2>1, <3>1, DataUntouched DEF EntriesSound, WholeResult
    <3>4. AnswersSound(f)' BY <2>1, <3>1, AnswersCarried DEF AnswersSound
    <3>5. \A g \in Fetcher \ {f} : FetcherSound(g)' /\ AnswersSound(g)'
      BY <1>1, OthersSound
    <3>6. QED BY <3>2, <3>3, <3>4, <3>5 DEF IInv
  <2>3. CASE FetchStep(f)
    <3>1. FetcherSound(f)' /\ EntriesSound' /\ AnswersSound(f)'
      BY <2>1, <2>3, FetchStepSound, EntriesKept, FetchStepAnswers
    <3>2. \A g \in Fetcher \ {f} : FetcherSound(g)' /\ AnswersSound(g)'
      BY <1>1, OthersSound
    <3>3. QED BY <3>1, <3>2 DEF IInv
  <2>4. CASE WireStep(f) /\ UNCHANGED freshVars
    <3>1. UNCHANGED <<entries, answers, who, staleness>> BY <2>4 DEF freshVars
    <3>2. UNCHANGED saasVars
      BY <2>4 DEF WireStep, Own, Answer, PageGate, PageRefused, SendPage,
         NotSent, ContextHits, AnswerPage, AnswerEmpty, AnswerNotModified, AnswerError,
         ContextEnds
    <3>3. FetcherSound(f)' BY <2>1, <2>4, WireSound
    <3>4. EntriesSound'
      BY <2>1, <3>1, <3>2, DataUntouched DEF EntriesSound, WholeResult
    <3>5. AnswersSound(f)' BY <2>1, <3>1, <3>2, AnswersCarried DEF AnswersSound
    <3>6. \A g \in Fetcher \ {f} : FetcherSound(g)' /\ AnswersSound(g)'
      BY <1>1, OthersSound
    <3>7. QED BY <3>3, <3>4, <3>5, <3>6 DEF IInv
  <2>5. QED BY <1>1, <2>2, <2>3, <2>4
<1>2. CASE World /\ UNCHANGED <<buckets, wireVars, freshVars>>
  BY <1>2, WorldKeepsFetcher, WorldKeepsEntries, WorldKeepsAnswers DEF IInv
<1>3. CASE UNCHANGED vars
  <2>1. \A f \in Fetcher : FetcherSound(f)'
    BY <1>3, UntouchedFetcher DEF IInv, vars, httpVars, wireVars, freshVars, callVars
  <2>2. \A f \in Fetcher : AnswersSound(f)'
    BY <1>3, AnswersCarried DEF IInv, AnswersSound, vars, httpVars, freshVars
  <2>3. EntriesSound'
    BY <1>3, DataUntouched
    DEF IInv, EntriesSound, WholeResult, vars, httpVars, freshVars
  <2>4. QED BY <2>1, <2>2, <2>3 DEF IInv
<1>4. QED BY <1>1, <1>2, <1>3 DEF Next

(* The inductive invariant: what every fetch in progress, every entry and  *)
(* every answer may be relied on for, whatever the others do meanwhile.    *)
THEOREM InvariantHolds ==
  ASSUME KeysDistinct, HonestSource
  PROVE  Spec => [](FreshTypeOK /\ IInv)
<1>1. Init => FreshTypeOK /\ IInv BY InitTyped, InitSound
<1>2. FreshTypeOK /\ IInv /\ [Next]_vars => (FreshTypeOK /\ IInv)'
  BY NextTyped, NextSound
<1>3. QED BY <1>1, <1>2, PTL DEF Spec

(* What the invariant says of an answer, page by page. *)
LEMMA AnswerMeans ==
  ASSUME FreshTypeOK, IInv, NEW f \in Fetcher, NEW i \in DOMAIN answers[f],
         Served(f, i), NEW j \in DOMAIN answers[f][i].rows
  PROVE  LET a == answers[f][i]
         IN /\ a.rows[j].tag = <<who[f], a.sig>>
            /\ AsFreshAs(ConnOf[a.sig], a.rows[1].ver, a.rows[j].ver,
                         a.asked - staleness[f])
            /\ AsFreshAs(ConnOf[a.sig], a.rows[1].ver, a.rows[j].ver,
                         a.asked - a.age)
<1>1. AnswerSound(f, answers[f][i]) BY DEF IInv, AnswersSound
<1>2. QED BY <1>1 DEF AnswerSound, RowsCurrent

(* Slow fetches overwrite the entries of faster ones, and what the cache   *)
(* holds still never overstates its date.                                  *)
THEOREM EntriesAreHonest ==
  ASSUME KeysDistinct, HonestSource
  PROVE  Spec => []EntriesHonest
<1>1. FreshTypeOK /\ IInv => EntriesHonest
  <2> SUFFICES ASSUME FreshTypeOK, IInv, NEW k \in DOMAIN entries,
                      NEW j \in DOMAIN entries[k].rows
               PROVE  LET rows == entries[k].rows
                      IN AsFreshAs(ConnOf[rows[j].tag[2]], rows[1].ver,
                                   rows[j].ver, entries[k].fetchedAt)
    BY DEF EntriesHonest
  <2>1. PICK t \in Tag : k = KeyOf[t] BY DEF FreshTypeOK, Key
  <2>2. RowsSound(t, entries[k].rows, entries[k].fetchedAt, entries[k].etag)
    BY <2>1 DEF IInv, EntriesSound
  <2>3. QED BY <2>2 DEF RowsSound, RowsCurrent
<1>2. QED BY <1>1, InvariantHolds, PTL

(* However requests interleave, whatever changes at the source meanwhile   *)
(* and however many entries are overwritten, a fetch never returns rows    *)
(* staler than its request's max_staleness.                                *)
THEOREM StalenessBounded ==
  ASSUME KeysDistinct, HonestSource
  PROVE  Spec => []StalenessBound
<1>1. FreshTypeOK /\ IInv => StalenessBound
  BY AnswerMeans DEF StalenessBound
<1>2. QED BY <1>1, InvariantHolds, PTL

(* Contents do not come back, so that an ETag names one version. *)
ContentsDistinct ==
  \A v, w \in Version : ContentOf[v] = ContentOf[w] => v = w

(* The pages to which the exception does not apply: every first page, and  *)
(* all of them where there is no ETag or an ETag names one version.        *)
Exact(c, j) == j = 1 \/ c \notin SendsETag \/ ContentsDistinct

ExactBound ==
  \A f \in Fetcher : \A i \in DOMAIN answers[f] :
    LET a == answers[f][i]
        c == ConnOf[a.sig]
    IN Served(f, i) =>
         \A j \in DOMAIN a.rows : Exact(c, j) =>
           ContentCurrentSince(c, a.rows[j].ver, a.asked - staleness[f])

(* Where an ETag cannot confuse a page with its past, the budget is kept   *)
(* to the letter: on the first page always, so on a result of one page; on *)
(* every page of a connector without ETags; and on every page of any       *)
(* connector if no content ever comes back.                                *)
THEOREM ExactlyBounded ==
  ASSUME KeysDistinct, HonestSource
  PROVE  Spec => []ExactBound
<1>1. ASSUME NEW c, NEW rows \in Seq(Page), NEW j \in DOMAIN rows, Exact(c, j)
      PROVE  ~Undone(c, rows[1].ver, rows[j].ver)
  <2>1. \A k \in DOMAIN rows : rows[k] \in Page OBVIOUS
  <2>2. 1 \in DOMAIN rows OBVIOUS
  <2>3. rows[1].ver \in Version /\ rows[j].ver \in Version
    BY <2>1, <2>2 DEF Page
  <2>4. QED BY <1>1, <2>3 DEF Exact, Undone, ContentsDistinct, Version
<1>2. FreshTypeOK /\ IInv => ExactBound
  <2> SUFFICES ASSUME FreshTypeOK, IInv, NEW f \in Fetcher,
                      NEW i \in DOMAIN answers[f], Served(f, i),
                      NEW j \in DOMAIN answers[f][i].rows,
                      Exact(ConnOf[answers[f][i].sig], j)
               PROVE  LET a == answers[f][i]
                      IN ContentCurrentSince(ConnOf[a.sig], a.rows[j].ver,
                                             a.asked - staleness[f])
    BY DEF ExactBound
  <2>1. answers[f][i] \in FetchAnswer BY DEF FreshTypeOK
  <2>2. answers[f][i].rows \in Seq(Page) BY <2>1 DEF FetchAnswer
  <2>3. ~Undone(ConnOf[answers[f][i].sig], answers[f][i].rows[1].ver,
                answers[f][i].rows[j].ver)
    BY <1>1, <2>2
  <2>4. QED BY <2>3, AnswerMeans DEF AsFreshAs
<1>3. QED BY <1>2, InvariantHolds, PTL

(* The freshness_ms of a hit never makes its rows look fresher than they   *)
(* are, although the age may have been measured against an entry that a    *)
(* slower or a faster fetch published.                                     *)
THEOREM AgesAreHonest ==
  ASSUME KeysDistinct, HonestSource
  PROVE  Spec => []AgeIsHonest
<1>1. FreshTypeOK /\ IInv => AgeIsHonest BY AnswerMeans DEF AgeIsHonest
<1>2. QED BY <1>1, InvariantHolds, PTL

----------------------------------------------------------------------------
(* Whose rows a fetch returns, and that they are all of them: OwnInv is    *)
(* inductive whatever the sources answer, and however their data changes.  *)

(* A fetcher whose variables a step leaves alone keeps what is its own. *)
LEMMA OwnUntouched ==
  ASSUME NEW g \in Fetcher, LoopOwn(g), HeldOwn(g), AnswersOwn(g), ver' = ver,
         /\ at'[g] = at[g] /\ who' = who /\ sig'[g] = sig[g]
         /\ held'[g] = held[g] /\ answers'[g] = answers[g]
         /\ phase'[g] = phase[g] /\ req'[g] = req[g] /\ all'[g] = all[g]
         /\ etag'[g] = etag[g] /\ reply'[g] = reply[g]
  PROVE  LoopOwn(g)' /\ HeldOwn(g)' /\ AnswersOwn(g)'
<1> USE DEF TagOf, ConnFor, SentFor, KnownFor, Seen
<1>1. LoopIsOwn(g)' BY DEF LoopOwn, LoopIsOwn
<1>2. LoopSound(g)' BY LoopUntouched DEF LoopOwn
<1>3. LoopOwn(g)' BY <1>1, <1>2 DEF LoopOwn
<1>4. HeldOwn(g)' BY DEF HeldOwn, WholeResult
<1>5. AnswersOwn(g)' BY DEF AnswersOwn, AnswerOwn, WholeResult
<1>6. QED BY <1>3, <1>4, <1>5

(* A step of the page loop that collects nothing. *)
LEMMA LoopStepOwn ==
  ASSUME FreshTypeOK, NEW f \in Fetcher, LoopOwn(f), LoopSound(f)',
         UNCHANGED <<freshVars, req, all>>, phase[f] # "idle",
         \/ phase[f] # "done" /\ phase'[f] \in {"gate", "send", "wait"}
         \/ /\ phase'[f] = "done" /\ reply'[f].rows = <<>>
            /\ at[f] = "live" /\ reply'[f].notModified => Unasked304
  PROVE  LoopOwn(f)'
<1> USE DEF TagOf, ConnFor, SentFor, freshVars, callVars
<1>1. LoopIsOwn(f)' BY DEF LoopOwn, LoopIsOwn
<1>2. QED BY <1>1 DEF LoopOwn, LoopIsOwn, FreshTypeOK, HTTPTypeOK, Phase

LEMMA AnswerPageOwn ==
  ASSUME FreshTypeOK, NEW f \in Fetcher, LoopOwn(f), LoopSound(f)',
         AnswerPage(f), UNCHANGED freshVars
  PROVE  LoopOwn(f)'
<1> DEFINE page == PageServed(req[f], Len(all[f]) + 1)
           pages == Append(all[f], page)
<1>1. /\ phase[f] = "wait" /\ all'[f] = pages /\ UNCHANGED req
      /\ \/ /\ phase'[f] = "done" /\ reply'[f].rows = pages
            /\ reply'[f].notModified = FALSE
         \/ phase'[f] = "gate"
  BY DEF AnswerPage, Return, Rows, FreshTypeOK, HTTPTypeOK
<1>2. at[f] \in {"fetch", "live"} /\ page.tag = TagOf(f)
  BY <1>1 DEF LoopOwn, LoopIsOwn, PageServed
<1>3. all[f] \in Seq(Page) /\ SentFor(TagOf(f), all[f])
  BY <1>1 DEF LoopOwn, FreshTypeOK, HTTPTypeOK
<1> HIDE DEF page
<1>4. SentFor(TagOf(f), pages) BY <1>2, <1>3 DEF SentFor
<1> HIDE DEF pages
<1>5. LoopIsOwn(f)'
  BY <1>1, <1>2 DEF LoopOwn, LoopIsOwn, freshVars, callVars, TagOf, ConnFor
<1>6. QED BY <1>1, <1>4, <1>5
          DEF LoopOwn, SentFor, TagOf, freshVars, callVars

(* The page loop keeps what is its own. *)
LEMMA WireOwn ==
  ASSUME FreshTypeOK, NEW f \in Fetcher, LoopOwn(f), WireStep(f),
         UNCHANGED freshVars
  PROVE  LoopOwn(f)'
<1> USE DEF FreshTypeOK, HTTPTypeOK, Return
<1>0. LoopSound(f)' BY WireKeepsLoop DEF LoopOwn
<1>1. CASE PageGate(f) BY <1>0, <1>1, LoopStepOwn DEF PageGate
<1>2. CASE PageRefused(f) BY <1>0, <1>2, LoopStepOwn DEF PageRefused, Failed
<1>3. CASE SendPage(f) BY <1>0, <1>3, LoopStepOwn DEF SendPage
<1>4. CASE ContextHits(f) \/ NotSent(f)
  <2>1. PICK e \in {"context", "transport"} : Return(f, Failed(e))
    BY <1>4 DEF ContextHits, NotSent
  <2>2. /\ UNCHANGED <<req, all>> /\ phase[f] \in {"send", "wait"}
        /\ phase'[f] = "done"
        /\ reply'[f].rows = <<>> /\ ~reply'[f].notModified
    BY <1>4, <2>1 DEF ContextHits, NotSent, TokenLost, Failed
  <2>3. QED BY <1>0, <2>2, LoopStepOwn
<1>5. CASE AnswerPage(f) BY <1>0, <1>5, AnswerPageOwn
<1>6. CASE AnswerEmpty(f) BY <1>0, <1>6, LoopStepOwn DEF AnswerEmpty
<1>7. CASE AnswerNotModified(f)
  <2>1. at[f] = "live" => Unasked304
    BY <1>7 DEF AnswerNotModified, Conditional, LoopOwn
  <2>2. QED BY <1>0, <1>7, <2>1, LoopStepOwn DEF AnswerNotModified, NotModified
<1>8. CASE AnswerError(f)
  BY <1>0, <1>8, LoopStepOwn DEF AnswerError, Failed
<1>9. CASE ContextEnds(f)
  BY <1>0, <1>9 DEF ContextEnds, LoopOwn, LoopIsOwn, SentFor, TagOf, ConnFor,
                    freshVars, callVars
<1>10. QED BY <1>1, <1>2, <1>3, <1>4, <1>5, <1>6, <1>7, <1>8, <1>9
           DEF WireStep, Own, Answer

(* The steps of Source.Fetch itself. *)
LEMMA CallOwn ==
  ASSUME FreshTypeOK, NEW f \in Fetcher, LoopOwn(f), NEW s \in Signature,
         Call(f, s)
  PROVE  LoopOwn(f)' /\ HeldOwn(f)'
<1>1. /\ sig'[f] = s /\ UNCHANGED <<who, ver>>
      /\ phase[f] = "idle"
      /\ \/ at'[f] = "clock" /\ phase'[f] = "idle"
         \/ /\ at'[f] = "live" /\ phase'[f] = "gate"
            /\ req'[f] = [conn |-> ConnOf[s], tag |-> <<who[f], s>>,
                          etag |-> NoETag]
            /\ all'[f] = <<>>
  BY DEF Call, Start, LoopOwn, LoopIsOwn, FreshTypeOK, HTTPTypeOK, httpVars,
         saasVars, wireVars
<1>2. LoopSound(f)' BY <1>1 DEF LoopSound, Collected
<1>3. LoopIsOwn(f)' BY <1>1 DEF LoopIsOwn, TagOf, ConnFor
<1>4. QED BY <1>1, <1>2, <1>3 DEF LoopOwn, HeldOwn, SentFor

LEMMA MissOwn ==
  ASSUME FreshTypeOK, EntriesOwn, NEW f \in Fetcher, Miss(f)
  PROVE  LoopOwn(f)' /\ HeldOwn(f)'
<1>1. /\ at'[f] = "fetch" /\ phase'[f] = "gate" /\ held'[f] = Looked(f)
      /\ req'[f] = Asking(f, Looked(f).etag) /\ all'[f] = <<>>
      /\ UNCHANGED <<who, sig, ver>>
  BY DEF Miss, Start, FreshTypeOK, HTTPTypeOK, saasVars
<1>2. LoopSound(f)' BY <1>1 DEF LoopSound, Collected
<1>3. LoopIsOwn(f)' BY <1>1 DEF LoopIsOwn, Asking, TagOf, ConnFor
<1>4. LoopOwn(f)' BY <1>1, <1>2, <1>3 DEF LoopOwn, SentFor
<1>5. HeldOwn(f)'
  <2>1. CASE KeyFor(f) \in DOMAIN entries
    <3>1. /\ Looked(f).rows = entries[KeyFor(f)].rows
          /\ Looked(f).etag = entries[KeyFor(f)].etag
      BY <2>1 DEF Looked
    <3>2. /\ SentFor(TagOf(f), entries[KeyFor(f)].rows)
          /\ WholeResult(entries[KeyFor(f)].rows)
          /\ KnownFor(TagOf(f), entries[KeyFor(f)].etag)
      BY <2>1, TagTyped DEF EntriesOwn, KeyFor
    <3>3. QED BY <1>1, <3>1, <3>2
              DEF HeldOwn, SentFor, WholeResult, KnownFor, Seen, TagOf
  <2>2. CASE KeyFor(f) \notin DOMAIN entries
    BY <1>1, <2>2 DEF Looked, NothingHeld, HeldOwn
  <2>3. QED BY <2>1, <2>2
<1>6. QED BY <1>4, <1>5

(* A fetch that is not under way has nothing to keep. *)
LEMMA IdleOwn ==
  ASSUME NEW f \in Fetcher, phase'[f] = "idle",
         at'[f] \in {"ready", "lookup"}
  PROVE  LoopOwn(f)' /\ HeldOwn(f)'
BY DEF LoopOwn, HeldOwn, LoopIsOwn, LoopSound

LEMMA FetchStepOwn ==
  ASSUME FreshTypeOK, EntriesOwn, NEW f \in Fetcher, LoopOwn(f), FetchStep(f)
  PROVE  LoopOwn(f)' /\ HeldOwn(f)'
<1> USE DEF Consume, Answered, FreshTypeOK, HTTPTypeOK
<1>0. at[f] \in {"clock", "lookup"} => phase[f] = "idle"
  BY DEF LoopOwn, LoopIsOwn
<1>1. CASE ReadClock(f)
  BY <1>0, <1>1, IdleOwn DEF ReadClock, httpVars, wireVars
<1>2. CASE Hit(f) BY <1>0, <1>2, IdleOwn DEF Hit, httpVars, wireVars
<1>3. CASE Miss(f) BY <1>3, MissOwn
<1>4. CASE FetchFailed(f) BY <1>4, IdleOwn DEF FetchFailed, Returned
<1>5. CASE FetchRevalidated(f) BY <1>5, IdleOwn DEF FetchRevalidated, Returned
<1>6. CASE FetchFresh(f) BY <1>6, IdleOwn DEF FetchFresh, Returned
<1>7. CASE LiveReturned(f) BY <1>7, IdleOwn DEF LiveReturned
<1>8. QED BY <1>1, <1>2, <1>3, <1>4, <1>5, <1>6, <1>7 DEF FetchStep

(* What a source returned for the fetch in progress. *)
LEMMA ReplyOwn ==
  ASSUME FreshTypeOK, NEW f \in Fetcher, LoopOwn(f), phase[f] = "done",
         reply[f].err = "none"
  PROVE  /\ SentFor(TagOf(f), reply[f].rows)
         /\ ~reply[f].notModified =>
              /\ WholeResult(reply[f].rows)
              /\ KnownFor(TagOf(f), reply[f].etag)
         /\ at[f] = "live" /\ ~Unasked304 => WholeResult(reply[f].rows)
<1> DEFINE rows == reply[f].rows
<1>1. /\ SentFor(TagOf(f), rows)
      /\ ~reply[f].notModified => WholeResult(rows)
      /\ at[f] = "live" /\ ~Unasked304 => WholeResult(rows)
      /\ Collected(rows, reply[f].etag, req[f].conn)
      /\ req[f].conn = ConnFor(f)
  BY DEF LoopOwn, LoopIsOwn, LoopSound, AllOrNothing
<1>2. ASSUME WholeResult(rows) PROVE KnownFor(TagOf(f), reply[f].etag)
  <2>1. rows \in Seq(Page) /\ rows # <<>> BY <1>2, ReplyTyped DEF WholeResult
  <2>2. 1 \in DOMAIN rows /\ rows[1] \in Page BY <2>1
  <2>3. rows[1].ver \in Nat /\ rows[1].ver <= ver[ConnFor(f)]
    BY <1>1, <2>2 DEF Page, Version, Collected
  <2>4. ver[ConnFor(f)] \in Nat
    BY TagTyped DEF FreshTypeOK, HTTPTypeOK, SaaSTypeOK, Version
  <2>5. rows[1].ver \in 0 .. ver[ConnFor(f)] BY <2>3, <2>4
  <2>6. reply[f].etag # NoETag => reply[f].etag = ContentOf[rows[1].ver]
    BY <1>1, <2>1 DEF Collected
  <2>7. QED BY <2>5, <2>6, TagTyped DEF KnownFor, Seen
<1>3. QED BY <1>1, <1>2

(* An entry holds the rows of the request that published it. *)
LEMMA PublishOwn ==
  ASSUME FreshTypeOK, EntriesOwn, NEW f \in Fetcher, NEW rows, NEW e,
         SentFor(TagOf(f), rows), WholeResult(rows), KnownFor(TagOf(f), e),
         Publish(f, rows, e), ver' = ver
  PROVE  EntriesOwn'
<1> SUFFICES ASSUME NEW t \in Tag, KeyOf[t] \in DOMAIN entries'
             PROVE  /\ SentFor(t, entries'[KeyOf[t]].rows)
                    /\ WholeResult(entries'[KeyOf[t]].rows)
                    /\ KnownFor(t, entries'[KeyOf[t]].etag)
  BY DEF EntriesOwn, SentFor, WholeResult, KnownFor, Seen
<1>1. CASE KeyOf[t] = KeyFor(f)
  <2>1. entries'[KeyOf[t]].rows = rows /\ entries'[KeyOf[t]].etag = e
    BY <1>1 DEF Publish
  <2>2. KeysDistinct => t = TagOf(f) BY <1>1, TagTyped DEF KeysDistinct, KeyFor
  <2>3. QED BY <2>1, <2>2 DEF SentFor, KnownFor
<1>2. CASE KeyOf[t] # KeyFor(f)
  <2>1. KeyOf[t] \in DOMAIN entries /\ entries'[KeyOf[t]] = entries[KeyOf[t]]
    BY <1>2 DEF Publish
  <2>2. QED BY <2>1 DEF EntriesOwn
<1>3. QED BY <1>1, <1>2

LEMMA EntriesStayOwn ==
  ASSUME FreshTypeOK, EntriesOwn, NEW f \in Fetcher, LoopOwn(f), HeldOwn(f),
         FetchStep(f)
  PROVE  EntriesOwn'
<1> USE DEF saasVars, httpVars, Returned, Consume
<1>0. ASSUME UNCHANGED <<entries, ver>> PROVE EntriesOwn'
  BY <1>0 DEF EntriesOwn, SentFor, WholeResult, KnownFor, Seen
<1>1. CASE ReadClock(f) BY <1>0, <1>1 DEF ReadClock
<1>2. CASE Hit(f) BY <1>0, <1>2 DEF Hit
<1>3. CASE Miss(f) BY <1>0, <1>3 DEF Miss, Start
<1>4. CASE FetchFailed(f) BY <1>0, <1>4 DEF FetchFailed
<1>5. CASE FetchRevalidated(f)
  <2>1. /\ SentFor(TagOf(f), held[f].rows) /\ WholeResult(held[f].rows)
        /\ KnownFor(TagOf(f), held[f].etag)
    BY <1>5 DEF FetchRevalidated, HeldOwn
  <2>2. Publish(f, held[f].rows, held[f].etag) /\ ver' = ver
    BY <1>5 DEF FetchRevalidated
  <2>3. QED BY <2>1, <2>2, PublishOwn
<1>6. CASE FetchFresh(f)
  <2>1. /\ SentFor(TagOf(f), reply[f].rows) /\ WholeResult(reply[f].rows)
        /\ KnownFor(TagOf(f), reply[f].etag)
    BY <1>6, ReplyOwn DEF FetchFresh
  <2>2. Publish(f, reply[f].rows, reply[f].etag) /\ ver' = ver
    BY <1>6 DEF FetchFresh
  <2>3. QED BY <2>1, <2>2, PublishOwn
<1>7. CASE LiveReturned(f) BY <1>0, <1>7 DEF LiveReturned
<1>8. QED BY <1>1, <1>2, <1>3, <1>4, <1>5, <1>6, <1>7 DEF FetchStep

(* One more answer: failed, whole, or what an unasked 304 passes for. *)
LEMMA AnsweredOwn ==
  ASSUME FreshTypeOK, NEW f \in Fetcher, AnswersOwn(f), UNCHANGED who,
         NEW how, NEW age, NEW rows, Answered(f, how, age, rows),
         SentFor(TagOf(f), rows),
         how # "failed" /\ ~(Unasked304 /\ how = "live") => WholeResult(rows)
  PROVE  AnswersOwn(f)'
<1> DEFINE a == [sig |-> sig[f], asked |-> asked[f], how |-> how,
                 age |-> age, rows |-> rows]
<1>1. answers'[f] = Append(answers[f], a) /\ answers[f] \in Seq(FetchAnswer)
  BY DEF Answered, FreshTypeOK
<1>2. a.sig = sig[f] /\ a.how = how /\ a.rows = rows OBVIOUS
<1> HIDE DEF a
<1>3. AnswerOwn(f, a) BY <1>2 DEF AnswerOwn, TagOf
<1>4. ASSUME NEW i \in DOMAIN answers'[f]
      PROVE  AnswerOwn(f, answers'[f][i])
  <2>1. \/ i = Len(answers[f]) + 1 /\ answers'[f][i] = a
        \/ i \in DOMAIN answers[f] /\ answers'[f][i] = answers[f][i]
    BY <1>1
  <2>2. QED BY <1>3, <2>1 DEF AnswersOwn
<1>5. QED BY <1>4 DEF AnswersOwn, AnswerOwn, SentFor, WholeResult

LEMMA FetchStepAnswersOwn ==
  ASSUME FreshTypeOK, EntriesOwn, NEW f \in Fetcher, LoopOwn(f), HeldOwn(f),
         AnswersOwn(f), FetchStep(f)
  PROVE  AnswersOwn(f)'
<1> USE DEF Returned
<1>0. ASSUME UNCHANGED <<answers, who>> PROVE AnswersOwn(f)'
  BY <1>0 DEF AnswersOwn, AnswerOwn, SentFor, WholeResult
<1>1. CASE ReadClock(f) BY <1>0, <1>1 DEF ReadClock
<1>2. CASE Hit(f)
  <2>1. KeyFor(f) \in DOMAIN entries BY <1>2 DEF Hit, WithinBudget
  <2>2. /\ SentFor(TagOf(f), entries[KeyFor(f)].rows)
        /\ WholeResult(entries[KeyFor(f)].rows)
    BY <2>1, TagTyped DEF EntriesOwn, KeyFor
  <2>3. Answered(f, "hit", Age(f), entries[KeyFor(f)].rows) /\ UNCHANGED who
    BY <1>2 DEF Hit
  <2>4. QED BY <2>2, <2>3, AnsweredOwn
<1>3. CASE Miss(f) BY <1>0, <1>3 DEF Miss
<1>4. CASE FetchFailed(f)
  <2>1. Answered(f, "failed", 0, <<>>) /\ UNCHANGED who
    BY <1>4 DEF FetchFailed
  <2>2. SentFor(TagOf(f), <<>>) BY DEF SentFor
  <2>3. QED BY <2>1, <2>2, AnsweredOwn
<1>5. CASE FetchRevalidated(f)
  <2>1. SentFor(TagOf(f), held[f].rows) /\ WholeResult(held[f].rows)
    BY <1>5 DEF FetchRevalidated, HeldOwn
  <2>2. Answered(f, "revalidated", 0, held[f].rows) /\ UNCHANGED who
    BY <1>5 DEF FetchRevalidated
  <2>3. QED BY <2>1, <2>2, AnsweredOwn
<1>6. CASE FetchFresh(f)
  <2>1. SentFor(TagOf(f), reply[f].rows) /\ WholeResult(reply[f].rows)
    BY <1>6, ReplyOwn DEF FetchFresh
  <2>2. Answered(f, "fresh", 0, reply[f].rows) /\ UNCHANGED who
    BY <1>6 DEF FetchFresh
  <2>3. QED BY <2>1, <2>2, AnsweredOwn
<1>7. CASE LiveReturned(f)
  <2>1. at[f] = "live" /\ phase[f] = "done" /\ UNCHANGED who
    BY <1>7 DEF LiveReturned
  <2>2. CASE reply[f].err # "none"
    <3>1. Answered(f, "failed", 0, <<>>) BY <1>7, <2>2 DEF LiveReturned
    <3>2. SentFor(TagOf(f), <<>>) BY DEF SentFor
    <3>3. QED BY <2>1, <3>1, <3>2, AnsweredOwn
  <2>3. CASE reply[f].err = "none"
    <3>1. Answered(f, "live", 0, reply[f].rows) BY <1>7, <2>3 DEF LiveReturned
    <3>2. /\ SentFor(TagOf(f), reply[f].rows)
          /\ ~Unasked304 => WholeResult(reply[f].rows)
      BY <2>1, <2>3, ReplyOwn
    <3>3. QED BY <2>1, <3>1, <3>2, AnsweredOwn
  <2>4. QED BY <2>2, <2>3
<1>8. QED BY <1>1, <1>2, <1>3, <1>4, <1>5, <1>6, <1>7 DEF FetchStep

LEMMA InitOwn == Init => OwnInv
<1> SUFFICES ASSUME Init PROVE OwnInv OBVIOUS
<1>1. \A f \in Fetcher : LoopOwn(f) /\ HeldOwn(f) /\ AnswersOwn(f)
  BY DEF Init, HTTPInit, LoopOwn, HeldOwn, LoopIsOwn, LoopSound, AnswersOwn
<1>2. EntriesOwn BY DEF Init, EntriesOwn
<1>3. QED BY <1>1, <1>2 DEF OwnInv

(* The versions of a source follow one another. *)
LEMMA VersionsOnlyGrow ==
  ASSUME FreshTypeOK, [Next]_vars
  PROVE  /\ \A t \in Tag : ConnOf[t[2]] \in Connector
         /\ \A c \in Connector :
              ver[c] \in Nat /\ ver'[c] \in Nat /\ ver[c] <= ver'[c]
<1>1. \A t \in Tag : ConnOf[t[2]] \in Connector BY FreshnessAssumption
<1>2. ver \in [Connector -> Version] /\ ver' \in [Connector -> Version]
  BY NextTyped DEF FreshTypeOK, HTTPTypeOK, SaaSTypeOK
<1>3. ver' = ver \/ World
  <2> USE DEF httpVars, saasVars
  <2>1. ASSUME NEW f \in Fetcher
        PROVE  /\ \A s \in Signature : Call(f, s) => UNCHANGED ver
               /\ FetchStep(f) => UNCHANGED ver
               /\ WireStep(f) => UNCHANGED ver
    <3>1. \A s \in Signature : Call(f, s) => UNCHANGED ver BY DEF Call, Start
    <3>2. FetchStep(f) => UNCHANGED ver
      BY DEF FetchStep, ReadClock, Hit, Miss, Start, FetchFailed,
             FetchRevalidated, FetchFresh, LiveReturned, Returned, Consume
    <3>3. WireStep(f) => UNCHANGED ver
      BY DEF WireStep, Own, Answer, PageGate, PageRefused, SendPage,
             NotSent, ContextHits, AnswerPage, AnswerEmpty, AnswerNotModified,
             AnswerError, ContextEnds
    <3>4. QED BY <3>1, <3>2, <3>3
  <2>2. CASE UNCHANGED vars BY <2>2 DEF vars
  <2>3. CASE Next BY <2>1, <2>3 DEF Next
  <2>4. QED BY <2>2, <2>3
<1>4. World => \A c \in Connector : ver[c] <= ver'[c]
  BY <1>2 DEF World, Tick, Change, Version
<1>5. QED BY <1>1, <1>2, <1>3, <1>4 DEF Version

LEMMA NextOwn == FreshTypeOK /\ OwnInv /\ [Next]_vars => OwnInv'
<1> SUFFICES ASSUME FreshTypeOK, OwnInv, [Next]_vars PROVE OwnInv' OBVIOUS
<1> DEFINE OwnOf(f) == LoopOwn(f) /\ HeldOwn(f) /\ AnswersOwn(f)
           Step(f) == \/ \E s \in Signature : Call(f, s)
                      \/ FetchStep(f)
                      \/ WireStep(f) /\ UNCHANGED freshVars
<1>0. EntriesOwn /\ \A f \in Fetcher : LoopOwn(f) /\ HeldOwn(f) /\ AnswersOwn(f)
  BY DEF OwnInv
<1>v. \A t \in Tag : \A e : KnownFor(t, e) => KnownFor(t, e)'
  BY VersionsOnlyGrow DEF KnownFor, Seen
<1>e. ASSUME UNCHANGED entries PROVE EntriesOwn'
  BY <1>0, <1>e, <1>v DEF EntriesOwn, SentFor, WholeResult
<1>a. ASSUME UNCHANGED <<answers, who>>, NEW f \in Fetcher PROVE AnswersOwn(f)'
  BY <1>0, <1>a DEF AnswersOwn, AnswerOwn, SentFor, WholeResult
<1>1. ASSUME NEW f \in Fetcher, Step(f) PROVE OwnInv'
  <2>1. \A g \in Fetcher \ {f} : OwnOf(g)'
    <3> SUFFICES ASSUME NEW g \in Fetcher \ {f} PROVE OwnOf(g)' OBVIOUS
    <3>1. QED BY <1>0, <1>1, StepIsOwn, OwnUntouched DEF saasVars
  <2>2. EntriesOwn' /\ OwnOf(f)'
    <3>1. CASE \E s \in Signature : Call(f, s)
      <4>1. UNCHANGED <<entries, answers, who>> BY <3>1 DEF Call
      <4>2. LoopOwn(f)' /\ HeldOwn(f)' BY <1>0, <3>1, CallOwn
      <4>3. QED BY <1>e, <1>a, <4>1, <4>2
    <3>2. CASE FetchStep(f)
      BY <1>0, <3>2, FetchStepOwn, EntriesStayOwn, FetchStepAnswersOwn
    <3>3. CASE WireStep(f) /\ UNCHANGED freshVars
      <4>1. UNCHANGED <<entries, answers, who, at, sig, held>>
        BY <3>3 DEF freshVars, callVars
      <4>2. LoopOwn(f)' BY <1>0, <3>3, WireOwn
      <4>3. HeldOwn(f)'
        BY <1>0, <1>v, <4>1, TagTyped DEF HeldOwn, SentFor, WholeResult, TagOf
      <4>4. QED BY <1>e, <1>a, <4>1, <4>2, <4>3
    <3>4. QED BY <1>1, <3>1, <3>2, <3>3
  <2>3. QED BY <2>1, <2>2 DEF OwnInv
<1>2. CASE World /\ UNCHANGED <<buckets, wireVars, freshVars>>
  <2>1. UNCHANGED <<entries, answers, who, at, sig, held>> /\ UNCHANGED wireVars
    BY <1>2 DEF freshVars, callVars
  <2>2. ASSUME NEW f \in Fetcher PROVE LoopOwn(f)' /\ HeldOwn(f)'
    <3>1. LoopSound(f)'
      BY <1>0, <1>2, WorldKeepsLoop DEF LoopOwn, FreshTypeOK
    <3>2. LoopOwn(f)'
      BY <1>0, <2>1, <3>1
      DEF LoopOwn, LoopIsOwn, SentFor, TagOf, ConnFor, wireVars
    <3>3. HeldOwn(f)'
      BY <1>0, <1>v, <2>1, TagTyped DEF HeldOwn, SentFor, WholeResult, TagOf
    <3>4. QED BY <3>2, <3>3
  <2>3. QED BY <1>e, <1>a, <2>1, <2>2 DEF OwnInv
<1>3. CASE UNCHANGED vars
  <2>1. UNCHANGED <<entries, answers, who, at, sig, held, phase, req, all, etag,
                    reply, ver>>
    BY <1>3 DEF vars, httpVars, saasVars, wireVars, freshVars, callVars
  <2>2. QED BY <1>0, <1>e, <2>1, OwnUntouched DEF OwnInv
<1>4. QED BY <1>1, <1>2, <1>3 DEF Next

(* The inductive invariant of the rows: nothing is assumed of the sources, *)
(* which may send a 304 that nobody asked for, nor of their data; and what *)
(* it says of whose the rows are, it says where the keys are distinct.     *)
THEOREM OwnershipHolds == Spec => [](FreshTypeOK /\ OwnInv)
<1>1. Init => FreshTypeOK /\ OwnInv BY InitTyped, InitOwn
<1>2. FreshTypeOK /\ OwnInv /\ [Next]_vars => (FreshTypeOK /\ OwnInv)'
  BY NextTyped, NextOwn
<1>3. QED BY <1>1, <1>2, PTL DEF Spec

(* Through the cache, the page loops of all requests run as HTTPSource     *)
(* describes, and only ever ask about ETags that their source once sent:   *)
(* every theorem of HTTPSourceProofs holds of the process that shares the  *)
(* cache.                                                                  *)
THEOREM LoopsRunAsDescribed ==
  ASSUME KeysDistinct
  PROVE  Spec => HTTPSpec
<1>1. Init => HTTPInit BY DEF Init
<1>2. FreshTypeOK /\ OwnInv /\ [Next]_vars => [HTTPNext]_httpVars
  <2> SUFFICES ASSUME FreshTypeOK, OwnInv, [Next]_vars
               PROVE  HTTPNext \/ UNCHANGED httpVars
    OBVIOUS
  <2>1. ASSUME NEW f \in Fetcher, NEW s \in Signature, Call(f, s)
        PROVE  HTTPNext \/ UNCHANGED httpVars
    <3> DEFINE q == [conn |-> ConnOf[s], tag |-> <<who[f], s>>, etag |-> NoETag]
    <3>1. Start(f, q) \/ UNCHANGED httpVars BY <2>1 DEF Call
    <3>2. q \in Request /\ Seen(q)
      BY FreshnessAssumption DEF FreshTypeOK, Request, ETag, Seen
    <3>3. QED BY <3>1, <3>2 DEF HTTPNext
  <2>2. ASSUME NEW f \in Fetcher, FetchStep(f)
        PROVE  HTTPNext \/ UNCHANGED httpVars
    <3>1. CASE Miss(f)
      <4> DEFINE q == Asking(f, Looked(f).etag)
      <4>1. Start(f, q) BY <3>1 DEF Miss
      <4>2. q \in Request
        BY HeldTyped, TagTyped DEF Asking, Request, Held
      <4>3. Seen(q)
        <5>1. CASE KeyFor(f) \in DOMAIN entries
          <6>1. KnownFor(TagOf(f), entries[KeyFor(f)].etag)
            BY <5>1, TagTyped DEF OwnInv, EntriesOwn, KeyFor
          <6>2. Looked(f).etag = entries[KeyFor(f)].etag BY <5>1 DEF Looked
          <6>3. QED BY <6>1, <6>2, TagTyped DEF KnownFor, Seen, Asking
        <5>2. CASE KeyFor(f) \notin DOMAIN entries
          BY <5>2 DEF Looked, NothingHeld, Asking, Seen
        <5>3. QED BY <5>1, <5>2
      <4> HIDE DEF q
      <4>4. QED BY <4>1, <4>2, <4>3 DEF HTTPNext
    <3>2. CASE Consume(f) BY <3>2 DEF HTTPNext
    <3>3. QED BY <2>2, <3>1, <3>2
              DEF FetchStep, ReadClock, Hit, FetchFailed, FetchRevalidated,
                  FetchFresh, Returned, LiveReturned
  <2>3. QED BY <2>1, <2>2 DEF Next, HTTPNext, vars
<1>3. QED BY <1>1, <1>2, OwnershipHolds, PTL DEF Spec, HTTPSpec

(* The budgets hold for the whole process: however many requests miss,     *)
(* revalidate or bypass the cache at once, no connector gets more calls.   *)
THEOREM CachedBudgetKept ==
  ASSUME KeysDistinct
  PROVE  Spec => []BudgetHolds
BY LoopsRunAsDescribed, BudgetKept, PTL

(* No principal is ever served rows that were fetched for another, or for  *)
(* another request signature: the cache is no way around source-side       *)
(* sharing rules, as long as its keys tell the requests apart.             *)
THEOREM RowsAreOwn ==
  ASSUME KeysDistinct
  PROVE  Spec => []OwnRows
<1>1. FreshTypeOK /\ OwnInv => OwnRows
  BY DEF OwnInv, AnswersOwn, AnswerOwn, SentFor, OwnRows
<1>2. QED BY <1>1, OwnershipHolds, PTL

(* A fetch that succeeds returns the source's whole result: no error path, *)
(* exhausted budget, cached entry or 304 out of turn ever truncates it,    *)
(* but for the 304 that the uncached path takes for an empty result.       *)
THEOREM AnswersAreWhole == Spec => []AnswerIsWhole
<1>1. OwnInv => AnswerIsWhole
  BY DEF OwnInv, AnswersOwn, AnswerOwn, AnswerIsWhole, Served
<1>2. QED BY <1>1, OwnershipHolds, PTL
=============================================================================
