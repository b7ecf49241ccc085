----------------------------- MODULE HTTPSource -----------------------------
(***************************************************************************)
(* internal/connector/httpsource.go: HTTPSource.Fetch, the page loop, run  *)
(* by any number of goroutines at once over one shared source per          *)
(* connector.  The steps are the points where the loop touches something   *)
(* shared: the page gate (internal/ratelimit, wired by server.New), the    *)
(* request leaving or failing to, and the source answering it.             *)
(*                                                                         *)
(* A request is [conn, tag, etag]: the connector, whose data is asked for  *)
(* (principal and signature, which the rows of the answer carry), and the  *)
(* ETag of FetchRequest.  A page with rows is collected; a page without is *)
(* not, so offset = 0 exactly when no page has been collected.             *)
(***************************************************************************)
EXTENDS SaaS, RateLimit, Sequences, FiniteSets

CONSTANTS
  Fetcher,        \* the goroutines that call Fetch
  Tag,            \* what identifies the data asked for
  Deadlined,      \* the fetchers whose context has a deadline
  Attended,       \* those under r.Context(): their client may go away
  SourceErrors,   \* how a source may fail: subset of FetchError
  Unasked304,     \* may a source answer 304 to an unconditional request?
  EmptyPages      \* may a source send a page without rows and say has_more?

FetchError == {"unavailable", "rateLimited", "status", "transport"}

ASSUME SourceAssumption ==
  /\ Connector # {} /\ Tag # {}
  /\ Deadlined \subseteq Fetcher /\ Attended \subseteq Fetcher
  /\ SourceErrors \subseteq FetchError
  /\ Unasked304 \in BOOLEAN
  /\ EmptyPages \in BOOLEAN

VARIABLES
  phase,      \* where the page loop of a fetcher is
  req,        \* its FetchRequest
  all,        \* the pages collected so far
  etag,       \* the ETag of the first page
  reply,      \* what Fetch returned
  over,       \* is the fetcher's context done?
  sent,       \* history: connector -> requests that left for the source
  lost        \* history: connector -> pages let through, never asked for

wireVars == <<phase, req, all, etag, reply, over, sent, lost>>
httpVars == <<saasVars, buckets, wireVars>>

ETag == {ContentOf[v] : v \in Version} \cup {NoETag}
Phase == {"idle", "gate", "send", "wait", "done"}
Request == [conn : Connector, tag : Tag, etag : ETag]
Page == [tag : Tag, ver : Version, at : Nat \ {0}, last : BOOLEAN]
Reply == [err : FetchError \cup {"none", "exhausted", "context"},
          notModified : BOOLEAN, rows : Seq(Page), etag : ETag]

Rows(pages, tagOfFirst) ==
  [err |-> "none", notModified |-> FALSE, rows |-> pages, etag |-> tagOfFirst]
NotModified ==
  [err |-> "none", notModified |-> TRUE, rows |-> <<>>, etag |-> NoETag]
Failed(e) ==
  [err |-> e, notModified |-> FALSE, rows |-> <<>>, etag |-> NoETag]

(* What a fetcher that has not fetched yet holds: nothing reads it. *)
AnyRequest == CHOOSE q \in Request : TRUE

HTTPInit ==
  /\ SaaSInit
  /\ RateLimitInit
  /\ phase = [f \in Fetcher |-> "idle"]
  /\ req = [f \in Fetcher |-> AnyRequest]
  /\ all = [f \in Fetcher |-> <<>>]
  /\ etag = [f \in Fetcher |-> NoETag]
  /\ reply = [f \in Fetcher |-> Failed("status")]
  /\ over = [f \in Fetcher |-> FALSE]
  /\ sent = [c \in Connector |-> 0]
  /\ lost = [c \in Connector |-> 0]

----------------------------------------------------------------------------

(* Fetch is called: all := nil, offset := 0, etag := "". *)
Start(f, q) ==
  /\ phase[f] = "idle"
  /\ phase' = [phase EXCEPT ![f] = "gate"]
  /\ req' = [req EXCEPT ![f] = q]
  /\ all' = [all EXCEPT ![f] = <<>>]
  /\ etag' = [etag EXCEPT ![f] = NoETag]
  /\ UNCHANGED <<saasVars, buckets, reply, over, sent, lost>>

Return(f, answer) ==
  /\ phase' = [phase EXCEPT ![f] = "done"]
  /\ reply' = [reply EXCEPT ![f] = answer]

(* Variant: only the first page of a Fetch is counted. *)
GateFirstPageOnly(f) ==
  /\ phase[f] = "gate"
  /\ IF all[f] = <<>> THEN Allow(req[f].conn) ELSE UNCHANGED buckets
  /\ phase' = [phase EXCEPT ![f] = "send"]
  /\ UNCHANGED <<saasVars, req, all, etag, reply, over, sent, lost>>

(* The gate before every page spends a token ... *)
PageGate(f) ==
  /\ phase[f] = "gate"
  /\ Allow(req[f].conn)
  /\ phase' = [phase EXCEPT ![f] = "send"]
  /\ UNCHANGED <<saasVars, req, all, etag, reply, over, sent, lost>>

(* Variant: the pages collected before the refusal are returned. *)
RefusedWithPages(f) ==
  /\ phase[f] = "gate"
  /\ Exhausted(req[f].conn)
  /\ Return(f, Rows(all[f], etag[f]))
  /\ UNCHANGED <<saasVars, buckets, req, all, etag, over, sent, lost>>

(* ... or fails the whole fetch, whatever pages were already collected. *)
PageRefused(f) ==
  /\ phase[f] = "gate"
  /\ Exhausted(req[f].conn)
  /\ Return(f, Failed("exhausted"))
  /\ UNCHANGED <<saasVars, buckets, req, all, etag, over, sent, lost>>

(* client.Do on a live context: the request leaves. *)
SendPage(f) ==
  /\ phase[f] = "send"
  /\ ~over[f]
  /\ phase' = [phase EXCEPT ![f] = "wait"]
  /\ sent' = [sent EXCEPT ![req[f].conn] = @ + 1]
  /\ UNCHANGED <<saasVars, buckets, req, all, etag, reply, over, lost>>

(* The request does not leave: the token of its page is gone all the same. *)
TokenLost(f) ==
  /\ phase[f] = "send"
  /\ lost' = [lost EXCEPT ![req[f].conn] = @ + 1]

(* The request cannot be built, or client.Do fails before it leaves: no    *)
(* connection, no name, no TLS.                                            *)
NotSent(f) ==
  /\ "transport" \in SourceErrors
  /\ TokenLost(f)
  /\ Return(f, Failed("transport"))
  /\ UNCHANGED <<saasVars, buckets, req, all, etag, over, sent>>

(* Variant: the outbound request does not carry the context. *)
ContextBeforeSendOnly(f) ==
  /\ over[f]
  /\ TokenLost(f)
  /\ Return(f, Failed("context"))
  /\ UNCHANGED <<saasVars, buckets, req, all, etag, over, sent>>

(* client.Do on a context that is done, or that ends in flight. *)
ContextHits(f) ==
  /\ over[f]
  /\ \/ TokenLost(f)
     \/ phase[f] = "wait" /\ UNCHANGED lost
  /\ Return(f, Failed("context"))
  /\ UNCHANGED <<saasVars, buckets, req, all, etag, over, sent>>

(* Variant: If-None-Match goes out with every page. *)
ConditionalAlways(f) == req[f].etag # NoETag

(* If-None-Match goes out with the first page only. *)
Conditional(f) == all[f] = <<>> /\ req[f].etag # NoETag

(* Variant: the offset of the page before. *)
PageBefore(q, n) ==
  [tag |-> q.tag, ver |-> ver[q.conn], at |-> n - 1,
   last |-> n >= PageCount[ver[q.conn]]]

(* The page a source serves for request q at place n, from its data now. *)
PageServed(q, n) ==
  [tag |-> q.tag, ver |-> ver[q.conn], at |-> n,
   last |-> n >= PageCount[ver[q.conn]]]

(* Variant: the ETag of the last page is kept. *)
ETagOfLast(f) == ETagNow(req[f].conn)

(* The ETag of the first page is kept, the others are dropped. *)
ETagKept(f) == IF all[f] = <<>> THEN ETagNow(req[f].conn) ELSE etag[f]

(* 200: collect the page, go on to the next or return them all. *)
AnswerPage(f) ==
  LET page == PageServed(req[f], Len(all[f]) + 1)
      first == ETagKept(f)
      pages == Append(all[f], page)
  IN /\ phase[f] = "wait"
     /\ all' = [all EXCEPT ![f] = pages]
     /\ etag' = [etag EXCEPT ![f] = first]
     /\ \/ /\ page.last
           /\ Return(f, Rows(pages, first))
        \/ /\ ~page.last
           /\ phase' = [phase EXCEPT ![f] = "gate"]
           /\ UNCHANGED reply
     /\ UNCHANGED <<saasVars, buckets, req, over, sent, lost>>

(* 200 without rows and has_more: the same offset is asked for again,      *)
(* through the gate.                                                       *)
AnswerEmpty(f) ==
  /\ EmptyPages
  /\ phase[f] = "wait"
  /\ phase' = [phase EXCEPT ![f] = "gate"]
  /\ etag' = [etag EXCEPT ![f] = ETagKept(f)]
  /\ UNCHANGED <<saasVars, buckets, req, all, reply, over, sent, lost>>

(* 304: the ETag asked about still matches, or the source is wrong. *)
AnswerNotModified(f) ==
  /\ phase[f] = "wait"
  /\ \/ Conditional(f) /\ req[f].etag = ETagNow(req[f].conn)
     \/ Unasked304 /\ ~Conditional(f)
  /\ Return(f, NotModified)
  /\ UNCHANGED <<saasVars, buckets, req, all, etag, over, sent, lost>>

(* 422, 429 or any other status; or the connection breaks, or what comes   *)
(* cannot be decoded.                                                      *)
AnswerError(f) ==
  /\ phase[f] = "wait"
  /\ \E e \in SourceErrors : Return(f, Failed(e))
  /\ UNCHANGED <<saasVars, buckets, req, all, etag, over, sent, lost>>

(* The deadline of the context passes, or the client goes away (r.Context  *)
(* is the context of all but jobs), at any moment.                         *)
ContextEnds(f) ==
  /\ f \in Deadlined \cup Attended
  /\ ~over[f]
  /\ over' = [over EXCEPT ![f] = TRUE]
  /\ UNCHANGED <<saasVars, buckets, phase, req, all, etag, reply, sent, lost>>

(* The caller has the reply, and the locals of Fetch are gone. *)
Consume(f) ==
  /\ phase[f] = "done"
  /\ phase' = [phase EXCEPT ![f] = "idle"]
  /\ req' = [req EXCEPT ![f] = AnyRequest]
  /\ all' = [all EXCEPT ![f] = <<>>]
  /\ etag' = [etag EXCEPT ![f] = NoETag]
  /\ reply' = [reply EXCEPT ![f] = Failed("status")]
  /\ UNCHANGED <<saasVars, buckets, over, sent, lost>>

Answer(f) ==
  AnswerPage(f) \/ AnswerEmpty(f) \/ AnswerNotModified(f) \/ AnswerError(f)
Own(f) ==
  \/ PageGate(f) \/ PageRefused(f) \/ SendPage(f) \/ NotSent(f)
  \/ ContextHits(f)
WireStep(f) == Own(f) \/ Answer(f) \/ ContextEnds(f)

(* A caller only has ETags that the source sent in the past. *)
Seen(q) ==
  q.etag = NoETag \/ \E v \in 0 .. ver[q.conn] : q.etag = ContentOf[v]

World == Tick \/ \E c \in Connector : Change(c)

HTTPNext ==
  \/ \E f \in Fetcher :
       \/ \E q \in Request : Seen(q) /\ Start(f, q)
       \/ WireStep(f)
       \/ Consume(f)
  \/ World /\ UNCHANGED <<buckets, wireVars>>

HTTPSpec == HTTPInit /\ [][HTTPNext]_httpVars

----------------------------------------------------------------------------

HTTPTypeOK ==
  /\ SaaSTypeOK
  /\ buckets \in [DOMAIN Budget -> Bucket]
  /\ phase \in [Fetcher -> Phase]
  /\ req \in [Fetcher -> Request]
  /\ all \in [Fetcher -> Seq(Page)]
  /\ etag \in [Fetcher -> ETag]
  /\ reply \in [Fetcher -> Reply]
  /\ over \in [Fetcher -> BOOLEAN]
  /\ sent \in [Connector -> Nat]
  /\ lost \in [Connector -> Nat]

(* However the fetchers interleave, no more requests reach a connector     *)
(* than its budget: ADR-006 counts every page, not every Fetch.            *)
BudgetHolds ==
  \A c \in Connector : Limited(c) => sent[c] <= Budget[c]

(* The fetchers that hold a token they have not used yet. *)
HoldingToken(c) == {f \in Fetcher : phase[f] = "send" /\ req[f].conn = c}

(* Every token is accounted for, however the fetchers interleave: it       *)
(* bought a call (httpsource.go:59-60), or is in the hand of a fetcher     *)
(* about to send, or is lost because the request of that fetcher never     *)
(* left.  No call is made without one, none is spent twice or given back,  *)
(* and none is lost while contexts last and the transport works.           *)
SpentBuysCall ==
  \A c \in Connector : Limited(c) =>
    /\ sent[c] + Cardinality(HoldingToken(c)) + lost[c] = buckets[c].used
    /\ lost[c] > 0 =>
         "transport" \in SourceErrors \/ \E f \in Fetcher : over[f]

(* A full result: pages 1..n in order, and the n-th is the last. *)
WholeResult(pages) ==
  /\ pages # <<>>
  /\ \A i \in DOMAIN pages :
       pages[i].at = i /\ (pages[i].last <=> i = Len(pages))

AllOrNothing(r) ==
  \/ /\ r.err # "none" \/ r.notModified
     /\ r.rows = <<>>
  \/ WholeResult(r.rows)

(* A fetch returns the whole result or nothing at all: running out of      *)
(* budget, failing or timing out between pages never truncates the rows.   *)
NoPartialResult ==
  \A f \in Fetcher : phase[f] = "done" => AllOrNothing(reply[f])

(* A 304 stands for a whole result: it never replaces pages of this fetch  *)
(* that were already collected, because only the first is conditional.     *)
NotModifiedIsWhole ==
  \A f \in Fetcher :
    phase[f] = "done" /\ reply[f].notModified => all[f] = <<>>

(* The ETag a fetch returns with its rows never vouches for rows that were *)
(* replaced while the later pages were read: if it is the current one,     *)
(* every page holds the current content, or shows an edit made between two *)
(* pages and undone since.  (connector.go:37-38 takes a 304 for "the       *)
(* caller already has the current data"; README, What does not hold.)      *)
EtagVouches ==
  \A f \in Fetcher :
    LET r == reply[f]
        c == req[f].conn
    IN /\ phase[f] = "done" /\ r.rows # <<>>
       /\ r.etag # NoETag /\ r.etag = ETagNow(c)
       => \A i \in DOMAIN r.rows :
            \/ ContentOf[r.rows[i].ver] = r.etag
            \/ Undone(c, r.rows[1].ver, r.rows[i].ver)

----------------------------------------------------------------------------

(* Pages read one after the other: in their places, from versions that     *)
(* followed each other, and under the ETag of the first of them, if any.   *)
Collected(pages, e, c) ==
  /\ \A i \in DOMAIN pages :
       /\ pages[i].at = i
       /\ pages[1].ver <= pages[i].ver /\ pages[i].ver <= ver[c]
  /\ pages # <<>> /\ e # NoETag => e = ContentOf[pages[1].ver]

LoopSound(f) ==
  /\ phase[f] \in {"gate", "send", "wait"} =>
       /\ Collected(all[f], etag[f], req[f].conn)
       /\ \A i \in DOMAIN all[f] : ~all[f][i].last
  /\ phase[f] = "done" =>
       /\ Collected(reply[f].rows, reply[f].etag, req[f].conn)
       /\ AllOrNothing(reply[f])

(* Tokens are only ever spent on a budget that had one left. *)
BucketSound(c) ==
  /\ buckets[c].limit = Budget[c]
  /\ buckets[c].used <= buckets[c].limit
  /\ IsFiniteSet(HoldingToken(c))

(* The inductive invariant behind the properties above: a fetch that is    *)
(* under way holds the first pages of one result, none of them the last.   *)
HTTPInv ==
  /\ \A f \in Fetcher : LoopSound(f)
  /\ \A c \in Connector : Limited(c) => BucketSound(c)
  /\ SpentBuysCall
=============================================================================
