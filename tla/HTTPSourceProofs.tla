-------------------------- MODULE HTTPSourceProofs --------------------------
(***************************************************************************)
(* Proofs about HTTPSource: for every number of fetchers, connectors,      *)
(* tags, pages and versions, and for every budget.                         *)
(***************************************************************************)
EXTENDS HTTPSource, FiniteSetTheorems, TLAPS

(* A 304 answers a conditional request whose ETag is the current one. *)
HonestSource == ~Unasked304

(* There is a request for a fetcher to be without. *)
LEMMA AnyRequestInRequest == AnyRequest \in Request
<1>1. \E c \in Connector, t \in Tag : [conn |-> c, tag |-> t, etag |-> NoETag] \in Request
  BY SourceAssumption DEF Request, ETag
<1>2. QED BY <1>1 DEF AnyRequest

(* What a connector answers now is an ETag, and the page it serves a page. *)
LEMMA ServedTyped ==
  ASSUME SaaSTypeOK, NEW q \in Request, NEW n \in Nat \ {0}
  PROVE  ETagNow(q.conn) \in ETag /\ PageServed(q, n) \in Page
<1>1. q.conn \in Connector /\ q.tag \in Tag BY DEF Request
<1>2. ver[q.conn] \in Version BY <1>1 DEF SaaSTypeOK
<1>3. ETagNow(q.conn) \in ETag BY <1>2 DEF ETagNow, ETag
<1>4. (n >= PageCount[ver[q.conn]]) \in BOOLEAN OBVIOUS
<1>5. QED BY <1>1, <1>2, <1>3, <1>4 DEF PageServed, Page

(* The steps that change the data or the clock keep their types. *)
LEMMA WorldTyped == SaaSTypeOK /\ World => SaaSTypeOK'
<1> SUFFICES ASSUME SaaSTypeOK, World PROVE SaaSTypeOK' OBVIOUS
<1>1. CASE Tick BY <1>1 DEF Tick, SaaSTypeOK
<1>2. CASE \E c \in Connector : Change(c)
  <2>1. PICK c \in Connector : Change(c) BY <1>2
  <2>2. ver[c] + 1 \in Version BY <2>1, BoundAssumption DEF Change, SaaSTypeOK, Version
  <2>3. QED BY <2>1, <2>2 DEF Change, SaaSTypeOK
<1>3. QED BY <1>1, <1>2 DEF World

LEMMA AllowTyped ==
  ASSUME NEW D, buckets \in [D -> Bucket], NEW c, Allow(c)
  PROVE  buckets' \in [D -> Bucket]
<1>1. CASE Limited(c)
  <2>1. c \in D /\ buckets[c] \in Bucket BY <1>1 DEF Limited
  <2>2. [buckets[c] EXCEPT !.used = buckets[c].used + 1] \in Bucket
    BY <2>1 DEF Bucket
  <2>3. buckets' = [buckets EXCEPT ![c] =
                      [buckets[c] EXCEPT !.used = buckets[c].used + 1]]
    BY <1>1 DEF Allow
  <2>4. QED BY <2>1, <2>2, <2>3
<1>2. CASE ~Limited(c) BY <1>2 DEF Allow
<1>3. QED BY <1>1, <1>2

(* The page loop keeps its types. *)
LEMMA StartTyped ==
  ASSUME HTTPTypeOK, NEW f \in Fetcher, NEW q \in Request, Start(f, q)
  PROVE  HTTPTypeOK'
BY DEF HTTPTypeOK, SaaSTypeOK, Start, saasVars, Phase, ETag

LEMMA ConsumeTyped ==
  ASSUME HTTPTypeOK, NEW f \in Fetcher, Consume(f)
  PROVE  HTTPTypeOK'
<1>1. Failed("status") \in Reply BY DEF Failed, Reply, FetchError, ETag
<1>2. QED BY <1>1, AnyRequestInRequest
          DEF HTTPTypeOK, SaaSTypeOK, Consume, saasVars, Phase, ETag

LEMMA WireTyped ==
  ASSUME HTTPTypeOK, NEW f \in Fetcher, WireStep(f)
  PROVE  HTTPTypeOK'
<1>r. \A e \in FetchError \cup {"exhausted", "context"} : Failed(e) \in Reply
  BY DEF Failed, Reply, ETag
<1>q. req[f] \in Request /\ req[f].conn \in Connector BY DEF HTTPTypeOK, Request
<1>1. CASE PageGate(f)
  <2>1. buckets' \in [DOMAIN Budget -> Bucket]
    BY <1>1, AllowTyped DEF PageGate, HTTPTypeOK
  <2>2. QED BY <1>1, <2>1 DEF PageGate, HTTPTypeOK, SaaSTypeOK, saasVars, Phase
<1>2. CASE PageRefused(f)
  BY <1>2, <1>r DEF PageRefused, Return, HTTPTypeOK, SaaSTypeOK, saasVars, Phase
<1>3. CASE SendPage(f)
  BY <1>3, <1>q DEF SendPage, HTTPTypeOK, SaaSTypeOK, saasVars, Phase
<1>4. CASE ContextHits(f) \/ NotSent(f)
  <2>1. PICK e \in FetchError \cup {"context"} : Return(f, Failed(e))
    BY <1>4 DEF ContextHits, NotSent, FetchError
  <2>2. reply' \in [Fetcher -> Reply] /\ phase' \in [Fetcher -> Phase]
    BY <1>r, <2>1 DEF Return, HTTPTypeOK, Phase
  <2>3. lost' \in [Connector -> Nat]
    BY <1>4, <1>q DEF ContextHits, NotSent, TokenLost, HTTPTypeOK
  <2>4. QED BY <1>4, <2>2, <2>3
            DEF ContextHits, NotSent, HTTPTypeOK, SaaSTypeOK, saasVars
<1>5. CASE AnswerPage(f)
  <2> DEFINE page == PageServed(req[f], Len(all[f]) + 1)
             first == ETagKept(f)
             pages == Append(all[f], page)
  <2>1. all[f] \in Seq(Page) /\ etag[f] \in ETag BY DEF HTTPTypeOK
  <2>2. page \in Page /\ first \in ETag
    <3>1. Len(all[f]) + 1 \in Nat \ {0} BY <2>1
    <3>2. QED BY <2>1, <3>1, <1>q, ServedTyped DEF ETagKept, HTTPTypeOK
  <2>3. pages \in Seq(Page) BY <2>1, <2>2
  <2>4. Rows(pages, first) \in Reply BY <2>2, <2>3 DEF Rows, Reply
  <2>5. /\ all' = [all EXCEPT ![f] = pages]
        /\ etag' = [etag EXCEPT ![f] = first]
        /\ phase' \in [Fetcher -> Phase]
        /\ reply' \in [Fetcher -> Reply]
        /\ UNCHANGED <<saasVars, buckets, req, over, sent, lost>>
    BY <1>5, <2>4 DEF AnswerPage, Return, HTTPTypeOK, Phase
  <2> HIDE DEF page, first, pages
  <2>6. QED BY <2>2, <2>3, <2>5 DEF HTTPTypeOK, SaaSTypeOK, saasVars
<1>6. CASE AnswerNotModified(f)
  <2>1. NotModified \in Reply BY DEF NotModified, Reply, ETag
  <2>2. QED BY <1>6, <2>1
            DEF AnswerNotModified, Return, HTTPTypeOK, SaaSTypeOK, saasVars, Phase
<1>7. CASE AnswerError(f)
  BY <1>7, <1>r, SourceAssumption
  DEF AnswerError, Return, HTTPTypeOK, SaaSTypeOK, saasVars, Phase
<1>8. CASE ContextEnds(f)
  BY <1>8 DEF ContextEnds, HTTPTypeOK, SaaSTypeOK, saasVars
<1>9. CASE AnswerEmpty(f)
  <2>1. ETagKept(f) \in ETag
    BY <1>q, ServedTyped DEF ETagKept, HTTPTypeOK
  <2>2. QED BY <1>9, <2>1
            DEF AnswerEmpty, HTTPTypeOK, SaaSTypeOK, saasVars, Phase
<1>10. QED BY <1>1, <1>2, <1>3, <1>4, <1>5, <1>6, <1>7, <1>8, <1>9
           DEF WireStep, Own, Answer

LEMMA HTTPInitTyped == HTTPInit => HTTPTypeOK
<1> SUFFICES ASSUME HTTPInit PROVE HTTPTypeOK OBVIOUS
<1>1. SaaSTypeOK BY BoundAssumption DEF HTTPInit, SaaSInit, SaaSTypeOK, Version
<1>2. buckets \in [DOMAIN Budget -> Bucket]
  BY BudgetAssumption DEF HTTPInit, RateLimitInit, SetLimits, Bucket
<1>3. Failed("status") \in Reply BY DEF Failed, Reply, FetchError, ETag
<1>4. QED BY <1>1, <1>2, <1>3, AnyRequestInRequest
          DEF HTTPInit, HTTPTypeOK, Phase, ETag

LEMMA HTTPNextTyped == HTTPTypeOK /\ [HTTPNext]_httpVars => HTTPTypeOK'
<1> SUFFICES ASSUME HTTPTypeOK, [HTTPNext]_httpVars PROVE HTTPTypeOK' OBVIOUS
<1>1. CASE \E f \in Fetcher : \/ \E q \in Request : Seen(q) /\ Start(f, q)
                             \/ WireStep(f)
                             \/ Consume(f)
  BY <1>1, StartTyped, WireTyped, ConsumeTyped
<1>2. CASE World /\ UNCHANGED <<buckets, wireVars>>
  BY <1>2, WorldTyped DEF HTTPTypeOK, wireVars
<1>3. CASE UNCHANGED httpVars
  BY <1>3 DEF httpVars, wireVars, saasVars, HTTPTypeOK, SaaSTypeOK
<1>4. QED BY <1>1, <1>2, <1>3 DEF HTTPNext

(* Every variable of the page loop keeps its type, whatever the            *)
(* interleaving of fetches and answers.                                    *)
THEOREM HTTPTypeCorrect == HTTPSpec => []HTTPTypeOK
<1>1. HTTPInit => HTTPTypeOK BY HTTPInitTyped
<1>2. HTTPTypeOK /\ [HTTPNext]_httpVars => HTTPTypeOK' BY HTTPNextTyped
<1>3. QED BY <1>1, <1>2, PTL DEF HTTPSpec

----------------------------------------------------------------------------
(* The pages of one fetch. *)

(* A fetcher whose variables a step leaves alone stays sound. *)
LEMMA LoopUntouched ==
  ASSUME NEW f \in Fetcher, LoopSound(f), ver' = ver,
         /\ phase'[f] = phase[f] /\ req'[f] = req[f] /\ all'[f] = all[f]
         /\ etag'[f] = etag[f] /\ reply'[f] = reply[f]
  PROVE  LoopSound(f)'
BY DEF LoopSound, Collected, AllOrNothing, WholeResult

(* New data at the source does not touch the pages that were collected. *)
LEMMA WorldKeepsLoop ==
  ASSUME HTTPTypeOK, World, UNCHANGED wireVars, NEW f \in Fetcher, LoopSound(f)
  PROVE  LoopSound(f)'
<1>1. \A c \in Connector : ver[c] <= ver'[c] /\ ver[c] \in Nat /\ ver'[c] \in Nat
  <2>1. ver \in [Connector -> Version] BY DEF HTTPTypeOK, SaaSTypeOK
  <2>2. CASE Tick BY <2>1, <2>2, BoundAssumption DEF Tick, Version
  <2>3. CASE \E c \in Connector : Change(c)
    BY <2>1, <2>3, BoundAssumption DEF Change, Version
  <2>4. QED BY <2>2, <2>3 DEF World
<1>2. req[f].conn \in Connector BY DEF HTTPTypeOK, Request
<1>3. \A rows \in Seq(Page) : \A i \in DOMAIN rows : rows[i].ver \in Nat
  <2>1. \A rows \in Seq(Page) : \A i \in DOMAIN rows : rows[i] \in Page OBVIOUS
  <2>2. QED BY <2>1 DEF Page, Version
<1>4. all[f] \in Seq(Page) /\ reply[f].rows \in Seq(Page)
  BY DEF HTTPTypeOK, Reply
<1>5. ASSUME NEW rows \in Seq(Page), NEW e, Collected(rows, e, req[f].conn)
      PROVE  Collected(rows, e, req[f].conn)'
  <2> DEFINE c == req[f].conn
  <2>1. \A i \in DOMAIN rows :
          rows[i].ver \in Nat /\ rows[i].ver <= ver[c]
    BY <1>3, <1>5 DEF Collected
  <2>2. \A i \in DOMAIN rows : rows[i].ver <= ver'[c] BY <1>1, <1>2, <2>1
  <2>3. req' = req BY DEF wireVars
  <2>4. QED BY <1>5, <2>2, <2>3 DEF Collected
<1>6. QED BY <1>4, <1>5 DEF LoopSound, AllOrNothing, WholeResult, wireVars

(* A step of the page loop that collects or returns no pages. *)
LEMMA NoPageCollected ==
  ASSUME HTTPTypeOK, NEW f \in Fetcher, LoopSound(f),
         UNCHANGED <<saasVars, req, all>>,
         phase[f] \in {"gate", "send", "wait"},
         all[f] # <<>> => etag'[f] = etag[f],
         \/ phase'[f] \in {"gate", "send", "wait"}
         \/ /\ phase'[f] = "done"
            /\ \/ \E e \in FetchError \cup {"exhausted", "context"} :
                    reply'[f] = Failed(e)
               \/ reply'[f] = NotModified
  PROVE  LoopSound(f)'
<1>1. CASE phase'[f] \in {"gate", "send", "wait"}
  <2>1. Collected(all[f], etag'[f], req[f].conn) BY DEF LoopSound, Collected
  <2>2. QED BY <1>1, <2>1 DEF LoopSound, Collected, saasVars
<1>2. CASE phase'[f] = "done"
  <2>1. /\ reply'[f].rows = <<>>
        /\ reply'[f].err # "none" \/ reply'[f].notModified
    BY <1>2 DEF Failed, NotModified, FetchError
  <2>2. QED BY <1>2, <2>1 DEF LoopSound, Collected, AllOrNothing
<1>3. QED BY <1>1, <1>2

(* The page that a source serves now goes with the pages before it. *)
LEMMA PageGoesWithOthers ==
  ASSUME HTTPTypeOK, NEW f \in Fetcher, LoopSound(f), phase[f] = "wait",
         NEW pages, pages = Append(all[f], PageServed(req[f], Len(all[f]) + 1))
  PROVE  /\ Collected(pages, ETagKept(f), req[f].conn)
         /\ \A i \in DOMAIN all[f] : ~pages[i].last
         /\ DOMAIN pages = 1 .. Len(pages) /\ DOMAIN all[f] = 1 .. Len(all[f])
         /\ Len(pages) = Len(all[f]) + 1
<1> DEFINE n == Len(all[f])
           c == req[f].conn
           page == PageServed(req[f], n + 1)
<1>1. /\ all[f] \in Seq(Page) /\ n \in Nat
      /\ DOMAIN all[f] = 1 .. n
      /\ page \in Page
      /\ c \in Connector /\ ver[c] \in Nat
  BY ServedTyped DEF HTTPTypeOK, SaaSTypeOK, Request, Version
<1>2. /\ Collected(all[f], etag[f], c)
      /\ \A i \in DOMAIN all[f] : ~all[f][i].last
  BY DEF LoopSound
<1>3. page.ver = ver[c] /\ page.at = n + 1 BY DEF PageServed
<1> HIDE DEF page
<1>4. /\ pages \in Seq(Page) /\ Len(pages) = n + 1
      /\ DOMAIN pages = 1 .. n + 1
      /\ pages[n + 1] = page
      /\ \A i \in 1 .. n : pages[i] = all[f][i]
  BY <1>1 DEF page
<1>5. ASSUME NEW i \in 1 .. n + 1
      PROVE  /\ pages[i].at = i
             /\ pages[1].ver <= pages[i].ver /\ pages[i].ver <= ver[c]
  <2>1. CASE i = n + 1
    <3>1. CASE n = 0 BY <1>1, <1>3, <1>4, <2>1, <3>1
    <3>2. CASE n # 0
      <4>1. 1 \in 1 .. n BY <1>1, <3>2
      <4>2. all[f][1].ver <= ver[c] /\ pages[1] = all[f][1]
        BY <1>1, <1>2, <1>4, <4>1 DEF Collected
      <4>3. QED BY <1>1, <1>3, <1>4, <2>1, <4>2
    <3>3. QED BY <3>1, <3>2
  <2>2. CASE i \in 1 .. n
    <3>1. 1 \in 1 .. n BY <1>1, <2>2
    <3>2. pages[i] = all[f][i] /\ pages[1] = all[f][1] BY <1>4, <2>2, <3>1
    <3>3. QED BY <1>1, <1>2, <2>2, <3>2 DEF Collected
  <2>3. QED BY <1>1, <2>1, <2>2
<1>6. ETagKept(f) # NoETag => ETagKept(f) = ContentOf[pages[1].ver]
  <2>1. CASE n = 0
    <3>1. all[f] = <<>> /\ pages[1] = page BY <1>1, <1>4, <2>1
    <3>2. QED BY <1>3, <3>1 DEF ETagKept, ETagNow
  <2>2. CASE n # 0
    <3>1. all[f] # <<>> /\ pages[1] = all[f][1] BY <1>1, <1>4, <2>2
    <3>2. QED BY <1>2, <3>1 DEF ETagKept, Collected
  <2>3. QED BY <2>1, <2>2
<1>7. Collected(pages, ETagKept(f), c) BY <1>4, <1>5, <1>6 DEF Collected
<1>8. QED BY <1>1, <1>2, <1>4, <1>7

LEMMA AnswerPageKeepsLoop ==
  ASSUME HTTPTypeOK, NEW f \in Fetcher, LoopSound(f), AnswerPage(f)
  PROVE  LoopSound(f)'
<1> DEFINE page == PageServed(req[f], Len(all[f]) + 1)
           pages == Append(all[f], page)
           first == ETagKept(f)
<1>1. /\ phase[f] = "wait" /\ all'[f] = pages /\ etag'[f] = first
      /\ \/ page.last /\ phase'[f] = "done" /\ reply'[f] = Rows(pages, first)
         \/ ~page.last /\ phase'[f] = "gate"
      /\ UNCHANGED <<saasVars, req>>
  BY DEF AnswerPage, Return, HTTPTypeOK
<1>2. /\ Collected(pages, first, req[f].conn)
      /\ \A i \in DOMAIN all[f] : ~pages[i].last
      /\ DOMAIN pages = 1 .. Len(pages) /\ DOMAIN all[f] = 1 .. Len(all[f])
      /\ Len(pages) = Len(all[f]) + 1
  BY <1>1, PageGoesWithOthers
<1>3. /\ pages[Len(pages)] = page /\ pages # <<>> /\ Len(all[f]) \in Nat
      /\ page.last \in BOOLEAN
  <2>1. all[f] \in Seq(Page) /\ req[f] \in Request /\ SaaSTypeOK
    BY DEF HTTPTypeOK
  <2>2. page \in Page BY <2>1, ServedTyped
  <2>3. page.last \in BOOLEAN BY <2>2 DEF Page
  <2> HIDE DEF page
  <2>4. QED BY <1>2, <2>1, <2>2, <2>3
<1> HIDE DEF page, pages, first
<1>4. page.last => WholeResult(pages)
  BY <1>2, <1>3 DEF WholeResult, Collected
<1>5. ~page.last => \A i \in DOMAIN pages : ~pages[i].last
  <2> SUFFICES ASSUME ~page.last, NEW i \in DOMAIN pages PROVE ~pages[i].last
    OBVIOUS
  <2>1. i = Len(pages) \/ i \in DOMAIN all[f] BY <1>2, <1>3
  <2>2. QED BY <1>2, <1>3, <2>1
<1>6. CASE page.last
  <2>1. reply'[f].rows = pages /\ reply'[f].etag = first /\ phase'[f] = "done"
    BY <1>1, <1>6 DEF Rows
  <2>2. QED BY <1>1, <1>2, <1>4, <1>6, <2>1
            DEF LoopSound, Collected, AllOrNothing, WholeResult, saasVars
<1>7. CASE ~page.last
  BY <1>1, <1>2, <1>5, <1>7 DEF LoopSound, Collected, saasVars
<1>8. QED BY <1>6, <1>7

(* The page loop keeps what it has collected sound. *)
LEMMA WireKeepsLoop ==
  ASSUME HTTPTypeOK, NEW f \in Fetcher, LoopSound(f), WireStep(f)
  PROVE  LoopSound(f)'
<1> USE DEF HTTPTypeOK, Return
<1>1. CASE PageGate(f) BY <1>1, NoPageCollected DEF PageGate
<1>2. CASE PageRefused(f) BY <1>2, NoPageCollected DEF PageRefused
<1>3. CASE SendPage(f) BY <1>3, NoPageCollected DEF SendPage
<1>4. CASE ContextHits(f) \/ NotSent(f)
  BY <1>4, NoPageCollected DEF ContextHits, NotSent, TokenLost, FetchError
<1>5. CASE AnswerPage(f) BY <1>5, AnswerPageKeepsLoop
<1>6. CASE AnswerEmpty(f) BY <1>6, NoPageCollected DEF AnswerEmpty, ETagKept
<1>7. CASE AnswerNotModified(f)
  BY <1>7, NoPageCollected DEF AnswerNotModified
<1>8. CASE AnswerError(f)
  BY <1>8, NoPageCollected, SourceAssumption DEF AnswerError
<1>9. CASE ContextEnds(f) BY <1>9, LoopUntouched DEF ContextEnds, saasVars
<1>10. QED BY <1>1, <1>2, <1>3, <1>4, <1>5, <1>6, <1>7, <1>8, <1>9
           DEF WireStep, Own, Answer

(* A fetch starts with no pages, and ends with none. *)
LEMMA StartsAndEndsEmpty ==
  ASSUME HTTPTypeOK, NEW f \in Fetcher,
         (\E q \in Request : Start(f, q)) \/ Consume(f)
  PROVE  LoopSound(f)'
BY DEF HTTPTypeOK, Start, Consume, LoopSound, Collected

(* A step of one fetcher leaves the variables of the others alone. *)
LEMMA FetcherStepIsOwn ==
  ASSUME HTTPTypeOK, NEW f \in Fetcher, NEW g \in Fetcher \ {f},
         (\E q \in Request : Start(f, q)) \/ WireStep(f) \/ Consume(f)
  PROVE  /\ ver' = ver
         /\ phase'[g] = phase[g] /\ req'[g] = req[g] /\ all'[g] = all[g]
         /\ etag'[g] = etag[g] /\ reply'[g] = reply[g]
<1> USE DEF HTTPTypeOK, saasVars, Return
<1>1. CASE \E q \in Request : Start(f, q) BY <1>1 DEF Start
<1>2. CASE WireStep(f)
  <2>1. CASE Own(f) BY <2>1 DEF Own, PageGate, PageRefused, SendPage, NotSent, ContextHits
  <2>2. CASE Answer(f)
    BY <2>2 DEF Answer, AnswerPage, AnswerEmpty, AnswerNotModified, AnswerError
  <2>3. CASE ContextEnds(f) BY <2>3 DEF ContextEnds
  <2>4. QED BY <1>2, <2>1, <2>2, <2>3 DEF WireStep
<1>3. CASE Consume(f) BY <1>3 DEF Consume
<1>4. QED BY <1>1, <1>2, <1>3

LEMMA LoopKept ==
  HTTPTypeOK /\ (\A f \in Fetcher : LoopSound(f)) /\ [HTTPNext]_httpVars
    => (\A f \in Fetcher : LoopSound(f))'
<1> SUFFICES ASSUME HTTPTypeOK, \A f \in Fetcher : LoopSound(f),
                    [HTTPNext]_httpVars, NEW g \in Fetcher
             PROVE  LoopSound(g)'
  OBVIOUS
<1>1. ASSUME NEW f \in Fetcher,
             (\E q \in Request : Start(f, q)) \/ WireStep(f) \/ Consume(f)
      PROVE  LoopSound(g)'
  <2>1. CASE g = f BY <1>1, <2>1, StartsAndEndsEmpty, WireKeepsLoop
  <2>2. CASE g # f
    <3>1. g \in Fetcher \ {f} BY <2>2
    <3>2. QED BY <1>1, <3>1, FetcherStepIsOwn, LoopUntouched
  <2>3. QED BY <2>1, <2>2
<1>2. CASE World /\ UNCHANGED <<buckets, wireVars>> BY <1>2, WorldKeepsLoop
<1>3. CASE UNCHANGED httpVars
  BY <1>3, LoopUntouched DEF httpVars, wireVars, saasVars
<1>4. QED BY <1>1, <1>2, <1>3 DEF HTTPNext

----------------------------------------------------------------------------
(* The tokens of a budget. *)

TokensCounted(c) ==
  Limited(c) =>
    /\ BucketSound(c)
    /\ sent[c] + Cardinality(HoldingToken(c)) + lost[c] = buckets[c].used
    /\ lost[c] > 0 =>
         "transport" \in SourceErrors \/ \E f \in Fetcher : over[f]

LEMMA TokensOf ==
  HTTPInv <=> /\ \A f \in Fetcher : LoopSound(f)
              /\ \A c \in Connector : TokensCounted(c)
BY DEF HTTPInv, TokensCounted, SpentBuysCall

LEMMA Counted ==
  ASSUME HTTPTypeOK, NEW c \in Connector, Limited(c)
  PROVE  /\ c \in DOMAIN Budget /\ buckets[c] \in Bucket
         /\ buckets[c].used \in Nat /\ buckets[c].limit \in Nat
         /\ sent[c] \in Nat /\ lost[c] \in Nat
BY DEF HTTPTypeOK, Limited, Bucket

(* Who holds a token of connector c after a step of fetcher f. *)
LEMMA HoldersAfter ==
  ASSUME HTTPTypeOK, NEW f \in Fetcher, NEW c \in Connector,
         \A g \in Fetcher \ {f} : phase'[g] = phase[g] /\ req'[g] = req[g]
  PROVE  HoldingToken(c)' = IF phase'[f] = "send" /\ req'[f].conn = c
                            THEN HoldingToken(c) \cup {f}
                            ELSE HoldingToken(c) \ {f}
BY DEF HoldingToken

(* A step that neither spends a token nor uses one. *)
LEMMA NoTokenMoved ==
  ASSUME HTTPTypeOK, NEW c \in Connector, TokensCounted(c),
         HoldingToken(c)' = HoldingToken(c),
         Limited(c) => buckets'[c] = buckets[c], DOMAIN buckets' = DOMAIN buckets,
         sent'[c] = sent[c], lost'[c] = lost[c],
         \A f \in Fetcher : over[f] => over'[f]
  PROVE  TokensCounted(c)'
<1> SUFFICES ASSUME Limited(c)' PROVE TokensCounted(c)' BY DEF TokensCounted
<1>1. Limited(c) BY DEF Limited
<1>2. QED BY <1>1 DEF TokensCounted, BucketSound

LEMMA GateCounts ==
  ASSUME HTTPTypeOK, NEW f \in Fetcher, PageGate(f),
         NEW c \in Connector, TokensCounted(c)
  PROVE  TokensCounted(c)'
<1> SUFFICES ASSUME Limited(c)' PROVE TokensCounted(c)' BY DEF TokensCounted
<1>1. /\ phase[f] = "gate" /\ phase'[f] = "send"
      /\ UNCHANGED <<req, sent, lost, over>>
      /\ \A g \in Fetcher \ {f} : phase'[g] = phase[g]
  BY DEF PageGate, HTTPTypeOK
<1>2. DOMAIN buckets' = DOMAIN buckets
  BY AllowTyped DEF PageGate, HTTPTypeOK
<1>3. Limited(c) BY <1>2 DEF Limited
<1>4. f \notin HoldingToken(c) BY <1>1 DEF HoldingToken
<1>5. CASE req[f].conn = c
  <2>1. HoldingToken(c)' = HoldingToken(c) \cup {f}
    BY <1>1, <1>5, HoldersAfter
  <2>2. /\ buckets[c].used < buckets[c].limit
        /\ buckets'[c].used = buckets[c].used + 1
        /\ buckets'[c].limit = buckets[c].limit
    BY <1>3, <1>5, Counted DEF PageGate, Allow, Exhausted, HTTPTypeOK, Limited, Bucket
  <2>3. IsFiniteSet(HoldingToken(c)) BY <1>3 DEF TokensCounted, BucketSound
  <2>4. /\ IsFiniteSet(HoldingToken(c)')
        /\ Cardinality(HoldingToken(c)') = Cardinality(HoldingToken(c)) + 1
        /\ Cardinality(HoldingToken(c)) \in Nat
    BY <1>4, <2>1, <2>3, FS_AddElement, FS_CardinalityType
  <2>5. BucketSound(c)'
    BY <1>3, <2>2, <2>4, Counted DEF TokensCounted, BucketSound
  <2>6. QED BY <1>1, <1>3, <2>2, <2>4, <2>5, Counted DEF TokensCounted
<1>6. CASE req[f].conn # c
  <2>1. HoldingToken(c)' = HoldingToken(c)
    BY <1>1, <1>4, <1>6, HoldersAfter
  <2>2. buckets'[c] = buckets[c]
    BY <1>3, <1>6 DEF PageGate, Allow, HTTPTypeOK, Limited
  <2>3. QED BY <1>1, <1>2, <2>1, <2>2, NoTokenMoved
<1>7. QED BY <1>5, <1>6

(* Leaving with a token, losing it, or giving up in flight. *)
LEMMA TokenGivenUp ==
  ASSUME HTTPTypeOK, NEW f \in Fetcher,
         SendPage(f) \/ NotSent(f) \/ ContextHits(f),
         NEW c \in Connector, TokensCounted(c)
  PROVE  TokensCounted(c)'
<1> SUFFICES ASSUME Limited(c)' PROVE TokensCounted(c)' BY DEF TokensCounted
<1>1. /\ phase'[f] # "send"
      /\ UNCHANGED <<req, buckets, over>>
      /\ \A g \in Fetcher \ {f} : phase'[g] = phase[g]
  BY DEF SendPage, NotSent, ContextHits, Return, HTTPTypeOK
<1>2. Limited(c) BY <1>1 DEF Limited
<1>3. HoldingToken(c)' = HoldingToken(c) \ {f} BY <1>1, HoldersAfter
<1>4. IsFiniteSet(HoldingToken(c)) BY <1>2 DEF TokensCounted, BucketSound
<1>5. /\ IsFiniteSet(HoldingToken(c)')
      /\ Cardinality(HoldingToken(c)) \in Nat
      /\ Cardinality(HoldingToken(c)') =
           IF f \in HoldingToken(c) THEN Cardinality(HoldingToken(c)) - 1
           ELSE Cardinality(HoldingToken(c))
  BY <1>3, <1>4, FS_RemoveElement, FS_CardinalityType
<1>6. BucketSound(c)' BY <1>1, <1>2, <1>5 DEF TokensCounted, BucketSound
<1>7. CASE SendPage(f)
  <2>1. /\ phase[f] = "send"
        /\ sent'[c] = IF req[f].conn = c THEN sent[c] + 1 ELSE sent[c]
        /\ lost' = lost
    BY <1>7 DEF SendPage, HTTPTypeOK
  <2>2. f \in HoldingToken(c) <=> req[f].conn = c BY <2>1 DEF HoldingToken
  <2>3. QED BY <1>1, <1>2, <1>5, <1>6, <2>1, <2>2, Counted DEF TokensCounted
<1>8. CASE TokenLost(f) /\ sent' = sent
            /\ ("transport" \in SourceErrors \/ over[f])
  <2>1. /\ phase[f] = "send"
        /\ lost'[c] = IF req[f].conn = c THEN lost[c] + 1 ELSE lost[c]
    BY <1>8 DEF TokenLost, HTTPTypeOK
  <2>2. f \in HoldingToken(c) <=> req[f].conn = c BY <2>1 DEF HoldingToken
  <2>3. sent'[c] + Cardinality(HoldingToken(c)') + lost'[c] = buckets'[c].used
    BY <1>1, <1>2, <1>5, <1>8, <2>1, <2>2, Counted DEF TokensCounted
  <2>4. "transport" \in SourceErrors \/ \E g \in Fetcher : over'[g]
    BY <1>1, <1>8
  <2>5. QED BY <1>6, <2>3, <2>4 DEF TokensCounted
<1>9. CASE phase[f] = "wait" /\ UNCHANGED <<sent, lost>>
  <2>1. f \notin HoldingToken(c) BY <1>9 DEF HoldingToken
  <2>2. HoldingToken(c)' = HoldingToken(c) BY <1>3, <2>1
  <2>3. QED BY <1>1, <1>9, <2>2, NoTokenMoved
<1>10. QED BY <1>7, <1>8, <1>9 DEF NotSent, ContextHits

(* No other step of a fetcher has to do with tokens. *)
LEMMA OtherStepsCount ==
  ASSUME HTTPTypeOK, NEW f \in Fetcher,
         \/ (\E q \in Request : Start(f, q)) \/ PageRefused(f) \/ Answer(f)
         \/ ContextEnds(f) \/ Consume(f),
         NEW c \in Connector, TokensCounted(c)
  PROVE  TokensCounted(c)'
<1> USE DEF HTTPTypeOK
<1>1. /\ UNCHANGED <<buckets, sent, lost>>
      /\ \A g \in Fetcher : over[g] => over'[g]
      /\ \A g \in Fetcher \ {f} : phase'[g] = phase[g] /\ req'[g] = req[g]
      /\ \/ phase[f] # "send" /\ phase'[f] # "send"
         \/ phase'[f] = phase[f] /\ req'[f] = req[f]
  <2>1. CASE \E q \in Request : Start(f, q) BY <2>1 DEF Start
  <2>2. CASE PageRefused(f) BY <2>2 DEF PageRefused, Return
  <2>3. CASE Answer(f)
    <3>1. CASE AnswerPage(f) BY <3>1 DEF AnswerPage, Return
    <3>2. CASE AnswerEmpty(f) BY <3>2 DEF AnswerEmpty
    <3>3. CASE AnswerNotModified(f) BY <3>3 DEF AnswerNotModified, Return
    <3>4. CASE AnswerError(f) BY <3>4 DEF AnswerError, Return
    <3>5. QED BY <2>3, <3>1, <3>2, <3>3, <3>4 DEF Answer
  <2>4. CASE ContextEnds(f) BY <2>4 DEF ContextEnds
  <2>5. CASE Consume(f) BY <2>5 DEF Consume
  <2>6. QED BY <2>1, <2>2, <2>3, <2>4, <2>5
<1>2. HoldingToken(c)' = HoldingToken(c)
  <2>1. CASE phase[f] # "send" /\ phase'[f] # "send"
    <3>1. f \notin HoldingToken(c) BY <2>1 DEF HoldingToken
    <3>2. HoldingToken(c)' = HoldingToken(c) \ {f} BY <1>1, <2>1, HoldersAfter
    <3>3. QED BY <3>1, <3>2
  <2>2. CASE phase'[f] = phase[f] /\ req'[f] = req[f]
    BY <1>1, <2>2 DEF HoldingToken
  <2>3. QED BY <1>1, <2>1, <2>2
<1>3. QED BY <1>1, <1>2, NoTokenMoved

LEMMA TokensKept ==
  ASSUME HTTPTypeOK, [HTTPNext]_httpVars, NEW c \in Connector, TokensCounted(c)
  PROVE  TokensCounted(c)'
<1>1. CASE \E f \in Fetcher : \/ \E q \in Request : Seen(q) /\ Start(f, q)
                             \/ WireStep(f)
                             \/ Consume(f)
  BY <1>1, GateCounts, TokenGivenUp, OtherStepsCount DEF WireStep, Own
<1>2. CASE (World /\ UNCHANGED <<buckets, wireVars>>) \/ UNCHANGED httpVars
  <2>1. UNCHANGED <<buckets, phase, req, sent, lost, over>>
    BY <1>2 DEF wireVars, httpVars
  <2>2. HoldingToken(c)' = HoldingToken(c) BY <2>1 DEF HoldingToken
  <2>3. QED BY <2>1, <2>2, NoTokenMoved
<1>3. QED BY <1>1, <1>2 DEF HTTPNext

LEMMA HTTPInitSound == HTTPInit => HTTPInv
<1> SUFFICES ASSUME HTTPInit PROVE HTTPInv OBVIOUS
<1>1. ASSUME NEW f \in Fetcher PROVE LoopSound(f)
  BY DEF HTTPInit, LoopSound
<1>2. ASSUME NEW c \in Connector PROVE TokensCounted(c)
  <2> SUFFICES ASSUME Limited(c) PROVE TokensCounted(c) BY DEF TokensCounted
  <2>1. HoldingToken(c) = {} BY DEF HTTPInit, HoldingToken
  <2>2. IsFiniteSet(HoldingToken(c)) /\ Cardinality(HoldingToken(c)) = 0
    BY <2>1, FS_EmptySet
  <2>3. /\ c \in DOMAIN Budget /\ buckets[c].used = 0
        /\ buckets[c].limit = Budget[c] /\ sent[c] = 0 /\ lost[c] = 0
    BY DEF HTTPInit, RateLimitInit, SetLimits, Limited
  <2>4. QED BY <2>2, <2>3, BudgetAssumption DEF TokensCounted, BucketSound
<1>3. QED BY <1>1, <1>2, TokensOf

(* HTTPInv and the types are inductive. *)
THEOREM HTTPInvariant == HTTPSpec => [](HTTPTypeOK /\ HTTPInv)
<1>1. HTTPInit => HTTPTypeOK /\ HTTPInv BY HTTPInitTyped, HTTPInitSound
<1>2. HTTPTypeOK /\ HTTPInv /\ [HTTPNext]_httpVars => (HTTPTypeOK /\ HTTPInv)'
  <2> SUFFICES ASSUME HTTPTypeOK, HTTPInv, [HTTPNext]_httpVars
               PROVE  HTTPTypeOK' /\ HTTPInv'
    OBVIOUS
  <2>1. HTTPTypeOK' BY HTTPNextTyped
  <2>2. \A f \in Fetcher : LoopSound(f)' BY LoopKept, TokensOf
  <2>3. \A c \in Connector : TokensCounted(c)' BY TokensKept, TokensOf
  <2>4. SpentBuysCall' BY <2>3 DEF TokensCounted, SpentBuysCall
  <2>5. QED BY <2>1, <2>2, <2>3, <2>4 DEF HTTPInv, TokensCounted
<1>3. QED BY <1>1, <1>2, PTL DEF HTTPSpec

(* However the fetchers interleave, no more requests reach a connector     *)
(* than its budget: every page is paid for before it is asked for.         *)
THEOREM BudgetKept == HTTPSpec => []BudgetHolds
<1>1. HTTPTypeOK /\ HTTPInv => BudgetHolds
  <2> SUFFICES ASSUME HTTPTypeOK, HTTPInv, NEW c \in Connector, Limited(c)
               PROVE  sent[c] <= Budget[c]
    BY DEF BudgetHolds
  <2>1. /\ BucketSound(c)
        /\ sent[c] + Cardinality(HoldingToken(c)) + lost[c] = buckets[c].used
    BY DEF HTTPInv, SpentBuysCall
  <2>2. Cardinality(HoldingToken(c)) \in Nat
    BY <2>1, FS_CardinalityType DEF BucketSound
  <2>3. QED BY <2>1, <2>2, Counted DEF BucketSound
<1>2. QED BY <1>1, HTTPInvariant, PTL

(* The accounting of tokens is exact for any number of fetchers: each one  *)
(* spent bought a call, is in hand, or is lost with a request that could   *)
(* not leave, for which a context ended or the transport failed.           *)
THEOREM TokensBuyCalls == HTTPSpec => []SpentBuysCall
<1>1. HTTPInv => SpentBuysCall BY DEF HTTPInv
<1>2. QED BY <1>1, HTTPInvariant, PTL

(* A fetch returns the whole result or nothing: no refusal, error or       *)
(* end of its context between two pages truncates it.                      *)
THEOREM NothingTruncated == HTTPSpec => []NoPartialResult
<1>1. HTTPInv => NoPartialResult BY DEF HTTPInv, LoopSound, NoPartialResult
<1>2. QED BY <1>1, HTTPInvariant, PTL

(* A source that only answers 304 to a conditional request never makes the *)
(* loop drop pages that it has collected.                                  *)
THEOREM NotModifiedReplacesNothing ==
  ASSUME HonestSource
  PROVE  HTTPSpec => []NotModifiedIsWhole
<1>1. HTTPInit => NotModifiedIsWhole BY DEF HTTPInit, NotModifiedIsWhole
<1>2. HTTPTypeOK /\ NotModifiedIsWhole /\ [HTTPNext]_httpVars
        => NotModifiedIsWhole'
  <2> SUFFICES ASSUME HTTPTypeOK, NotModifiedIsWhole, [HTTPNext]_httpVars,
                      NEW g \in Fetcher, phase'[g] = "done",
                      reply'[g].notModified
               PROVE  all'[g] = <<>>
    BY DEF NotModifiedIsWhole
  <2> DEFINE Same == /\ phase'[g] = phase[g] /\ all'[g] = all[g]
                     /\ reply'[g] = reply[g]
  <2>1. CASE Same BY <2>1 DEF NotModifiedIsWhole
  <2>2. ASSUME NEW f \in Fetcher,
               (\E q \in Request : Start(f, q)) \/ WireStep(f) \/ Consume(f)
        PROVE  all'[g] = <<>>
    <3>1. CASE g # f
      <4>1. g \in Fetcher \ {f} BY <3>1
      <4>2. QED BY <2>1, <2>2, <4>1, FetcherStepIsOwn
    <3>2. CASE g = f
      <4> USE DEF HTTPTypeOK, Return
      <4>1. CASE AnswerNotModified(f)
        BY <3>2, <4>1 DEF AnswerNotModified, HonestSource, Conditional
      <4>2. CASE AnswerPage(f)
        BY <3>2, <4>2 DEF AnswerPage, Rows
      <4>3. CASE \/ PageRefused(f) \/ NotSent(f) \/ ContextHits(f)
                 \/ AnswerError(f)
        BY <3>2, <4>3 DEF PageRefused, NotSent, ContextHits, AnswerError, Failed
      <4>4. CASE ContextEnds(f) BY <2>1, <4>4 DEF ContextEnds
      <4>5. CASE \/ (\E q \in Request : Start(f, q)) \/ Consume(f)
                 \/ PageGate(f) \/ SendPage(f) \/ AnswerEmpty(f)
        BY <3>2, <4>5 DEF Start, Consume, PageGate, SendPage, AnswerEmpty
      <4>6. QED BY <2>2, <4>1, <4>2, <4>3, <4>4, <4>5
                DEF WireStep, Own, Answer
    <3>3. QED BY <3>1, <3>2
  <2>3. CASE World /\ UNCHANGED <<buckets, wireVars>>
    BY <2>1, <2>3 DEF wireVars
  <2>4. CASE UNCHANGED httpVars BY <2>1, <2>4 DEF httpVars, wireVars
  <2>5. QED BY <2>2, <2>3, <2>4 DEF HTTPNext
<1>3. QED BY <1>1, <1>2, HTTPTypeCorrect, PTL DEF HTTPSpec

(* What a current ETag says of a page read at version v, under the ETag of *)
(* a first page read at version u.                                         *)
LEMMA PageVouched ==
  ASSUME SaaSTypeOK, NEW c \in Connector, NEW u \in Version, NEW v \in Version,
         u <= v, v <= ver[c],
         ETagNow(c) # NoETag, ContentOf[u] = ETagNow(c)
  PROVE  ContentOf[v] = ContentOf[ver[c]] \/ Undone(c, u, v)
<1>1. c \in SendsETag /\ ContentOf[u] = ContentOf[ver[c]] BY DEF ETagNow
<1>2. ver[c] \in Version BY DEF SaaSTypeOK
<1>3. SUFFICES ASSUME ContentOf[v] # ContentOf[ver[c]] PROVE Undone(c, u, v)
  OBVIOUS
<1>4. u # v /\ v # ver[c] BY <1>1, <1>3
<1>5. u < v /\ v < ver[c] /\ ver[c] <= ver[c] BY <1>2, <1>4 DEF Version
<1>6. QED BY <1>1, <1>2, <1>3, <1>5 DEF Undone

(* Rows are never returned under an ETag that is current, or current       *)
(* again, unless their pages hold the current content or show an edit that *)
(* has been undone since they were read.                                   *)
THEOREM EtagsVouch == HTTPSpec => []EtagVouches
<1>1. HTTPTypeOK /\ HTTPInv => EtagVouches
  <2> SUFFICES ASSUME HTTPTypeOK, HTTPInv, NEW f \in Fetcher,
                      phase[f] = "done", reply[f].rows # <<>>,
                      reply[f].etag # NoETag,
                      reply[f].etag = ETagNow(req[f].conn),
                      NEW i \in DOMAIN reply[f].rows
               PROVE  \/ ContentOf[reply[f].rows[i].ver] = reply[f].etag
                      \/ Undone(req[f].conn, reply[f].rows[1].ver,
                                reply[f].rows[i].ver)
    BY DEF EtagVouches
  <2> DEFINE c == req[f].conn
             rows == reply[f].rows
  <2>1. Collected(rows, reply[f].etag, c) BY DEF HTTPInv, LoopSound
  <2>2. rows \in Seq(Page) /\ c \in Connector /\ SaaSTypeOK
    BY DEF HTTPTypeOK, Reply, Request
  <2>3. \A j \in DOMAIN rows : rows[j] \in Page BY <2>2
  <2>4. 1 \in DOMAIN rows BY <2>2
  <2>5. rows[1].ver \in Version /\ rows[i].ver \in Version
    BY <2>3, <2>4 DEF Page
  <2>6. /\ ContentOf[rows[1].ver] = ETagNow(c) /\ ETagNow(c) # NoETag
        /\ rows[1].ver <= rows[i].ver /\ rows[i].ver <= ver[c]
    BY <2>1 DEF Collected
  <2>7. ETagNow(c) = ContentOf[ver[c]] BY <2>6 DEF ETagNow
  <2> HIDE DEF c, rows
  <2>8. ContentOf[rows[i].ver] = ContentOf[ver[c]]
          \/ Undone(c, rows[1].ver, rows[i].ver)
    BY <2>2, <2>5, <2>6, PageVouched
  <2>9. QED BY <2>7, <2>8 DEF c, rows
<1>2. QED BY <1>1, HTTPInvariant, PTL
=============================================================================
