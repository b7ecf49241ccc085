----------------------------- MODULE Freshness ------------------------------
(***************************************************************************)
(* internal/freshness/freshness.go: Source.Fetch over the Cache that every *)
(* request of the process shares.  A fetcher is one request: it has a      *)
(* principal and a max_staleness, holds one Source per connector, and      *)
(* exec runs its fetches one after the other.                              *)
(*                                                                         *)
(* The steps of a Fetch are those at which another request can come in     *)
(* between: the call, the clock reading, the lookup under the lock, the    *)
(* page loop of HTTPSource, and what is done with its reply.               *)
(***************************************************************************)
EXTENDS HTTPSource

CONSTANTS
  Principal,      \* tenant|sub, Source.Principal
  Signature,      \* table + columns + bound filter values of a request
  ConnOf,         \* signature -> the connector of its table
  KeyOf,          \* cacheKey: <<principal, signature>> -> cache key
  MaxStaleness,   \* the budgets a request may name, 0 for none
  MaxFetches      \* bound on the fetches of one request

ASSUME FreshnessAssumption ==
  /\ Tag = Principal \X Signature
  /\ ConnOf \in [Signature -> Connector]
  /\ DOMAIN KeyOf = Tag
  /\ MaxStaleness \subseteq Nat
  /\ MaxFetches \in Nat

VARIABLES
  at,         \* where Source.Fetch of a fetcher is
  who,        \* its principal
  staleness,  \* its max_staleness
  sig,        \* the signature it is fetching
  now,        \* its reading of the clock
  held,       \* ok, rows, etag, fetchedAt: the entry copied under the lock
  entries,    \* Cache.entries
  source,     \* fetcher -> connector -> CacheHit, Revalidated, AgeMS
  asked,      \* history: when the current Fetch was called
  answers     \* history: what the fetches of a fetcher returned

callVars == <<at, sig, now, held, asked>>
freshVars == <<callVars, who, staleness, entries, source, answers>>
vars == <<httpVars, freshVars>>

Key == {KeyOf[t] : t \in Tag}
Entry == [rows : Seq(Page), etag : ETag, fetchedAt : Nat]
Held == [ok : BOOLEAN, rows : Seq(Page), etag : ETag, fetchedAt : Nat]
Flags == [cacheHit : BOOLEAN, revalidated : BOOLEAN, ageMS : Int]
How == {"hit", "revalidated", "fresh", "live", "failed"}
FetchAnswer == [sig : Signature, asked : Nat, how : How, age : Int,
                rows : Seq(Page)]

NothingHeld == [ok |-> FALSE, rows |-> <<>>, etag |-> NoETag, fetchedAt |-> 0]
NewSource == [cacheHit |-> FALSE, revalidated |-> FALSE, ageMS |-> 0]

Init ==
  /\ HTTPInit
  /\ at = [f \in Fetcher |-> "ready"]
  /\ who \in [Fetcher -> Principal]
  /\ staleness \in [Fetcher -> MaxStaleness]
  /\ sig \in [Fetcher -> {CHOOSE s \in Signature : TRUE}]
  /\ now = [f \in Fetcher |-> 0]
  /\ held = [f \in Fetcher |-> NothingHeld]
  /\ entries = [k \in {} |-> NothingHeld]
  /\ source = [f \in Fetcher |-> [c \in Connector |-> NewSource]]
  /\ asked = [f \in Fetcher |-> 0]
  /\ answers = [f \in Fetcher |-> <<>>]

----------------------------------------------------------------------------

TagOf(f) == <<who[f], sig[f]>>
KeyFor(f) == KeyOf[TagOf(f)]
ConnFor(f) == ConnOf[sig[f]]

Asking(f, e) == [conn |-> ConnFor(f), tag |-> TagOf(f), etag |-> e]

(* Fetch is called.  Without a budget it goes straight to the connector. *)
Call(f, s) ==
  /\ at[f] = "ready"
  /\ Len(answers[f]) < MaxFetches
  /\ sig' = [sig EXCEPT ![f] = s]
  /\ asked' = [asked EXCEPT ![f] = clock]
  /\ UNCHANGED <<who, staleness, now, held, entries, source, answers>>
  /\ \/ /\ staleness[f] <= 0
        /\ at' = [at EXCEPT ![f] = "live"]
        /\ Start(f, [conn |-> ConnOf[s], tag |-> <<who[f], s>>,
                     etag |-> NoETag])
     \/ /\ staleness[f] > 0
        /\ at' = [at EXCEPT ![f] = "clock"]
        /\ UNCHANGED httpVars

(* now := s.Cache.now(), before the entries are locked. *)
ReadClock(f) ==
  /\ at[f] = "clock"
  /\ now' = [now EXCEPT ![f] = clock]
  /\ at' = [at EXCEPT ![f] = "lookup"]
  /\ UNCHANGED <<httpVars, sig, held, asked, who, staleness, entries, source,
                 answers>>

(* Variant: a hit's age is not measured. *)
AgeZero(f) == 0

(* now.Sub(fetchedAt): negative when the entry was published by a fetch *)
(* that read the clock after this one.                                  *)
Age(f) == now[f] - entries[KeyFor(f)].fetchedAt

(* Variant: an entry a little over the budget is still served. *)
AlmostWithinBudget(f) ==
  KeyFor(f) \in DOMAIN entries /\ Age(f) <= staleness[f] + 1

WithinBudget(f) ==
  KeyFor(f) \in DOMAIN entries /\ Age(f) <= staleness[f]

(* Fetch returns to exec. *)
Answered(f, how, age, rows) ==
  /\ at' = [at EXCEPT ![f] = "ready"]
  /\ answers' = [answers EXCEPT ![f] = Append(@,
       [sig |-> sig[f], asked |-> asked[f], how |-> how, age |-> age,
        rows |-> rows])]

Hit(f) ==
  /\ at[f] = "lookup"
  /\ WithinBudget(f)
  /\ source' = [source EXCEPT ![f][ConnFor(f)] =
                   [@ EXCEPT !.cacheHit = TRUE, !.ageMS = Age(f)]]
  /\ Answered(f, "hit", Age(f), entries[KeyFor(f)].rows)
  /\ UNCHANGED <<httpVars, sig, now, held, asked, who, staleness, entries>>

(* The entry under the key, if any, is copied out; its ETag makes the      *)
(* request conditional.                                                    *)
Looked(f) ==
  LET k == KeyFor(f)
  IN IF k \in DOMAIN entries
     THEN [ok |-> TRUE, rows |-> entries[k].rows, etag |-> entries[k].etag,
           fetchedAt |-> entries[k].fetchedAt]
     ELSE NothingHeld

Miss(f) ==
  /\ at[f] = "lookup"
  /\ ~WithinBudget(f)
  /\ held' = [held EXCEPT ![f] = Looked(f)]
  /\ Start(f, Asking(f, Looked(f).etag))
  /\ at' = [at EXCEPT ![f] = "fetch"]
  /\ UNCHANGED <<sig, now, asked, who, staleness, entries, source, answers>>

(* Variant: an entry is dated when it is published. *)
DatedAtPublish(f) == clock

(* An entry is dated by the clock reading taken before the request. *)
FetchedAt(f) == now[f]

Publish(f, rows, tagOfRows) ==
  LET e == [rows |-> rows, etag |-> tagOfRows, fetchedAt |-> FetchedAt(f)]
  IN entries' = [k \in DOMAIN entries \cup {KeyFor(f)} |->
                   IF k = KeyFor(f) THEN e ELSE entries[k]]

Returned(f) ==
  /\ at[f] = "fetch"
  /\ phase[f] = "done"
  /\ Consume(f)
  /\ held' = [held EXCEPT ![f] = NothingHeld]
  /\ UNCHANGED <<sig, now, asked, who, staleness>>

(* An error, or a 304 with no entry to serve, is the caller's error. *)
FetchFailed(f) ==
  /\ Returned(f)
  /\ reply[f].err # "none" \/ (reply[f].notModified /\ ~held[f].ok)
  /\ Answered(f, "failed", 0, <<>>)
  /\ UNCHANGED <<entries, source>>

(* 304: the entry that was looked up is good for another budget. *)
FetchRevalidated(f) ==
  /\ Returned(f)
  /\ reply[f].err = "none" /\ reply[f].notModified /\ held[f].ok
  /\ source' = [source EXCEPT ![f][ConnFor(f)] =
                   [@ EXCEPT !.revalidated = TRUE, !.ageMS = 0]]
  /\ Publish(f, held[f].rows, held[f].etag)
  /\ Answered(f, "revalidated", 0, held[f].rows)

FetchFresh(f) ==
  /\ Returned(f)
  /\ reply[f].err = "none" /\ ~reply[f].notModified
  /\ source' = [source EXCEPT ![f][ConnFor(f)] = [@ EXCEPT !.ageMS = 0]]
  /\ Publish(f, reply[f].rows, reply[f].etag)
  /\ Answered(f, "fresh", 0, reply[f].rows)

(* The uncached path hands on what the connector returned, 304 included; *)
(* exec does not look at FetchMeta.                                      *)
LiveReturned(f) ==
  /\ at[f] = "live"
  /\ phase[f] = "done"
  /\ Consume(f)
  /\ IF reply[f].err # "none"
     THEN Answered(f, "failed", 0, <<>>)
     ELSE Answered(f, "live", 0, reply[f].rows)
  /\ UNCHANGED <<sig, now, asked, who, staleness, held, entries, source>>

FetchStep(f) ==
  \/ ReadClock(f)
  \/ Hit(f)
  \/ Miss(f)
  \/ FetchFailed(f)
  \/ FetchRevalidated(f)
  \/ FetchFresh(f)
  \/ LiveReturned(f)

Next ==
  \/ \E f \in Fetcher :
       \/ \E s \in Signature : Call(f, s)
       \/ FetchStep(f)
       \/ WireStep(f) /\ UNCHANGED freshVars
  \/ World /\ UNCHANGED <<buckets, wireVars, freshVars>>

Spec == Init /\ [][Next]_vars

(* Goroutines run on, and a timer that was set fires.  Only a fetcher      *)
(* without a deadline relies on its sources to answer what they are sent.  *)
FairSpec ==
  Spec /\ \A f \in Fetcher :
            /\ WF_vars(FetchStep(f))
            /\ WF_vars(Own(f) /\ UNCHANGED freshVars)
            /\ IF f \in Deadlined
               THEN WF_vars(ContextEnds(f) /\ UNCHANGED freshVars)
               ELSE WF_vars(Answer(f) /\ UNCHANGED freshVars)

----------------------------------------------------------------------------

FreshTypeOK ==
  /\ HTTPTypeOK
  /\ at \in [Fetcher -> {"ready", "live", "clock", "lookup", "fetch"}]
  /\ who \in [Fetcher -> Principal]
  /\ staleness \in [Fetcher -> MaxStaleness]
  /\ sig \in [Fetcher -> Signature]
  /\ now \in [Fetcher -> Nat]
  /\ held \in [Fetcher -> Held]
  /\ DOMAIN entries \subseteq Key
  /\ \A k \in DOMAIN entries : entries[k] \in Entry
  /\ source \in [Fetcher -> [Connector -> Flags]]
  /\ asked \in [Fetcher -> Nat]
  /\ answers \in [Fetcher -> Seq(FetchAnswer)]

(* The answers with rows that the fetches of the process returned. *)
Served(f, i) == answers[f][i].how # "failed"

(* The staleness budget is kept: every page a fetch returns holds content  *)
(* that was the source's no longer ago than max_staleness before the fetch *)
(* was called, whoever fetched it and whatever changed, was published or   *)
(* was revalidated meanwhile (ADR-005).  The one exception is a page that  *)
(* was read between an edit and its undoing, behind a first page read      *)
(* before: the ETag of the first page vouches for it again.                *)
StalenessBound ==
  \A f \in Fetcher : \A i \in DOMAIN answers[f] :
    LET a == answers[f][i]
    IN Served(f, i) =>
         \A j \in DOMAIN a.rows :
           AsFreshAs(ConnOf[a.sig], a.rows[1].ver, a.rows[j].ver,
                     a.asked - staleness[f])

(* No leak through the cache (Cache's comment): the rows a fetch returns   *)
(* were sent for its own principal and its own signature.                  *)
OwnRows ==
  \A f \in Fetcher : \A i \in DOMAIN answers[f] :
    \A j \in DOMAIN answers[f][i].rows :
      answers[f][i].rows[j].tag = <<who[f], answers[f][i].sig>>

(* A fetch that succeeds returns a whole result, from the cache or not.    *)
(* Through the cache this holds although a source sends a 304 that nobody  *)
(* asked for: it is the entry that was looked up, or an error.  Without a  *)
(* budget such a 304 passes for an empty result.                           *)
AnswerIsWhole ==
  \A f \in Fetcher : \A i \in DOMAIN answers[f] :
    Served(f, i) /\ ~(Unasked304 /\ answers[f][i].how = "live")
      => WholeResult(answers[f][i].rows)

(* The age a hit reports (freshness_ms) never makes its rows look fresher  *)
(* than they are, with the same exception.                                 *)
AgeIsHonest ==
  \A f \in Fetcher : \A i \in DOMAIN answers[f] :
    LET a == answers[f][i]
    IN Served(f, i) =>
         \A j \in DOMAIN a.rows :
           AsFreshAs(ConnOf[a.sig], a.rows[1].ver, a.rows[j].ver,
                     a.asked - a.age)

(* What the cache holds never overstates its date, although slow fetches   *)
(* overwrite the entries of faster ones: a page of an entry was the        *)
(* source's content at fetchedAt or later, with the same exception.        *)
EntriesHonest ==
  \A k \in DOMAIN entries : \A j \in DOMAIN entries[k].rows :
    LET rows == entries[k].rows
    IN AsFreshAs(ConnOf[rows[j].tag[2]], rows[1].ver, rows[j].ver,
                 entries[k].fetchedAt)

(* Every fetch that is called is answered: by its source, or else by its   *)
(* deadline even if the source stays silent (ADR-009).                     *)
EveryFetchAnswered ==
  \A f \in Fetcher : at[f] # "ready" ~> at[f] = "ready"

----------------------------------------------------------------------------

(* The inductive invariant behind the properties above.  Since(f) is the   *)
(* instant the fetch of f in progress may be dated at.                     *)
Since(f) == IF at[f] = "fetch" THEN now[f] ELSE asked[f]

(* The pages hold what was the data at instant since or later, as far as   *)
(* the ETag of the first can tell.                                         *)
RowsCurrent(c, rows, since) ==
  \A i \in DOMAIN rows : AsFreshAs(c, rows[1].ver, rows[i].ver, since)

(* Pages of tag t, current at instant since or later, under the ETag e of  *)
(* the first, which no later page is older than.                           *)
RowsSound(t, rows, since, e) ==
  /\ RowsCurrent(ConnOf[t[2]], rows, since)
  /\ \A i \in DOMAIN rows :
       /\ rows[i].tag = t
       /\ rows[1].ver <= rows[i].ver /\ rows[i].ver <= ver[ConnOf[t[2]]]
  /\ rows # <<>> /\ e # NoETag => e = ContentOf[rows[1].ver]

(* The readings of the clock are in order. *)
ClockInOrder(f) ==
  /\ asked[f] <= clock
  /\ at[f] \in {"lookup", "fetch"} => asked[f] <= now[f] /\ now[f] <= clock

(* The page loop runs for the fetch in progress, and only then. *)
LoopIsOwn(f) ==
  IF at[f] \in {"fetch", "live"}
  THEN /\ phase[f] # "idle"
       /\ req[f].conn = ConnFor(f)
       /\ req[f].tag = TagOf(f)
  ELSE phase[f] = "idle"

(* The pages collected so far are sound, and none of them is the last. *)
PagesSound(f) ==
  at[f] \in {"fetch", "live"} /\ phase[f] # "done" =>
    /\ RowsSound(TagOf(f), all[f], Since(f), etag[f])
    /\ \A i \in DOMAIN all[f] : all[f][i].at = i /\ ~all[f][i].last

(* What was copied under the lock is what its ETag goes out for. *)
HeldSound(f) ==
  /\ at[f] = "live" => req[f].etag = NoETag
  /\ at[f] = "fetch" =>
       /\ req[f].etag = held[f].etag
       /\ ~held[f].ok => held[f].etag = NoETag
       /\ held[f].ok =>
            /\ RowsSound(TagOf(f), held[f].rows, held[f].fetchedAt,
                         held[f].etag)
            /\ WholeResult(held[f].rows)

(* A reply is a sound whole result, or vouches for the rows held. *)
ReplySound(f) ==
  at[f] \in {"fetch", "live"} /\ phase[f] = "done" /\ reply[f].err = "none" =>
    IF reply[f].notModified
    THEN /\ at[f] = "fetch" /\ held[f].ok
         /\ RowsCurrent(ConnFor(f), held[f].rows, now[f])
    ELSE /\ RowsSound(TagOf(f), reply[f].rows, Since(f), reply[f].etag)
         /\ WholeResult(reply[f].rows)

EntriesSound ==
  \A t \in Tag : KeyOf[t] \in DOMAIN entries =>
    LET e == entries[KeyOf[t]]
    IN RowsSound(t, e.rows, e.fetchedAt, e.etag) /\ WholeResult(e.rows)

AnswerSound(f, a) ==
  /\ a.how = "failed" => a.rows = <<>>
  /\ a.how # "failed" => WholeResult(a.rows)
  /\ \A j \in DOMAIN a.rows : a.rows[j].tag = <<who[f], a.sig>>
  /\ RowsCurrent(ConnOf[a.sig], a.rows, a.asked - staleness[f])
  /\ RowsCurrent(ConnOf[a.sig], a.rows, a.asked - a.age)

FetcherSound(f) ==
  /\ ClockInOrder(f)
  /\ LoopIsOwn(f)
  /\ PagesSound(f)
  /\ HeldSound(f)
  /\ ReplySound(f)

AnswersSound(f) ==
  \A i \in DOMAIN answers[f] : AnswerSound(f, answers[f][i])

IInv ==
  /\ \A f \in Fetcher : FetcherSound(f) /\ AnswersSound(f)
  /\ EntriesSound

----------------------------------------------------------------------------

(* What does not depend on the sources being honest: whose rows a fetch,   *)
(* an entry or an answer holds, and that they are all of them.             *)

(* Distinct requests have distinct cache keys. *)
KeysDistinct == \A t, u \in Tag : KeyOf[t] = KeyOf[u] => t = u

(* The pages were sent for t, if the cache does not confuse its requests. *)
SentFor(t, rows) == KeysDistinct => \A i \in DOMAIN rows : rows[i].tag = t

(* The ETag is one that the source of t sent some time. *)
KnownFor(t, e) == KeysDistinct => Seen([conn |-> ConnOf[t[2]], etag |-> e])

(* The loop collects the pages of the request, and a 304 without an ETag *)
(* to confirm is the source's doing.                                      *)
LoopOwn(f) ==
  /\ LoopIsOwn(f)
  /\ LoopSound(f)
  /\ phase[f] \in {"gate", "send", "wait"} => SentFor(TagOf(f), all[f])
  /\ phase[f] = "done" => SentFor(TagOf(f), reply[f].rows)
  /\ at[f] = "live" =>
       /\ req[f].etag = NoETag
       /\ phase[f] = "done" /\ reply[f].notModified => Unasked304

HeldOwn(f) ==
  at[f] = "fetch" /\ held[f].ok =>
    /\ SentFor(TagOf(f), held[f].rows)
    /\ WholeResult(held[f].rows)
    /\ KnownFor(TagOf(f), held[f].etag)

EntriesOwn ==
  \A t \in Tag : KeyOf[t] \in DOMAIN entries =>
    LET e == entries[KeyOf[t]]
    IN SentFor(t, e.rows) /\ WholeResult(e.rows) /\ KnownFor(t, e.etag)

AnswerOwn(f, a) ==
  /\ SentFor(<<who[f], a.sig>>, a.rows)
  /\ a.how # "failed" /\ ~(Unasked304 /\ a.how = "live")
       => WholeResult(a.rows)

AnswersOwn(f) == \A i \in DOMAIN answers[f] : AnswerOwn(f, answers[f][i])

(* The inductive invariant behind OwnRows and AnswerIsWhole. *)
OwnInv ==
  /\ \A f \in Fetcher : LoopOwn(f) /\ HeldOwn(f) /\ AnswersOwn(f)
  /\ EntriesOwn

----------------------------------------------------------------------------

(* What a fetcher last got, for the specification of what a cache owes. *)
Got(f) ==
  IF answers[f] = <<>>
  THEN [ok |-> FALSE, rows |-> <<>>]
  ELSE LET a == answers[f][Len(answers[f])]
       IN [ok |-> a.how # "failed", rows |-> a.rows]

Promise == INSTANCE BoundedStaleness WITH
  ask <- [f \in Fetcher |->
            [open |-> at[f] # "ready", tag |-> TagOf(f), since |-> asked[f],
             budget |-> staleness[f]]],
  got <- [f \in Fetcher |-> Got(f)]

(* The cache keeps the promise of BoundedStaleness. *)
KeepsPromise == Promise!Spec
=============================================================================
