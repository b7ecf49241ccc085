------------------------ MODULE FreshnessRefinement -------------------------
(***************************************************************************)
(* Freshness implements BoundedStaleness: its initial states map to        *)
(* initial states, and each of its steps to a step or to a stutter.        *)
(***************************************************************************)
EXTENDS FreshnessProofs

AskOf(f) ==
  [open |-> at[f] # "ready", tag |-> TagOf(f), since |-> asked[f],
   budget |-> staleness[f]]

LEMMA InitRefines == Init => Promise!Init
<1> SUFFICES ASSUME Init PROVE Promise!Init OBVIOUS
<1>1. Promise!SaaSInit
  BY DEF Init, HTTPInit, SaaSInit, Promise!SaaSInit, Version, Promise!Version
<1>2. QED BY <1>1 DEF Init, Promise!Init, Got

LEMMA WorldRefines ==
  ASSUME World, UNCHANGED <<buckets, wireVars, freshVars>>
  PROVE  Promise!Next
<1>1. Promise!World
  BY DEF World, Promise!World, Tick, Promise!Tick, Change, Promise!Change
<1>2. UNCHANGED <<[f \in Fetcher |-> AskOf(f)], [f \in Fetcher |-> Got(f)]>>
  BY DEF freshVars, callVars, AskOf, Got, TagOf
<1>3. QED BY <1>1, <1>2 DEF Promise!Next, AskOf

(* A step that neither asks nor answers is a stutter. *)
LEMMA StutterRefines ==
  ASSUME UNCHANGED <<saasVars, who, staleness, sig, asked, answers>>,
         \A f \in Fetcher : (at'[f] # "ready") = (at[f] # "ready")
  PROVE  UNCHANGED Promise!promiseVars
BY DEF Promise!promiseVars, Promise!saasVars, saasVars, Got, TagOf

LEMMA CallRefines ==
  ASSUME FreshTypeOK, NEW f \in Fetcher, NEW s \in Signature, Call(f, s)
  PROVE  Promise!Next
<1>1. /\ at[f] = "ready" /\ at'[f] # "ready" /\ asked'[f] = clock
      /\ sig'[f] = s /\ UNCHANGED <<saasVars, who, staleness, answers>>
      /\ \A g \in Fetcher \ {f} : /\ at'[g] = at[g] /\ asked'[g] = asked[g]
                                  /\ sig'[g] = sig[g]
  BY DEF Call, Start, FreshTypeOK, httpVars
<1>2. TagOf(f)' \in Tag BY <1>1, FreshnessAssumption DEF TagOf, FreshTypeOK
<1>3. Promise!Ask(f)
  BY <1>1, <1>2 DEF Promise!Ask, Promise!saasVars, saasVars, Got, TagOf
<1>4. QED BY <1>3 DEF Promise!Next

(* What answering does to the abstract state. *)
LEMMA AnsweredMeans ==
  ASSUME FreshTypeOK, NEW f \in Fetcher, NEW how, NEW age, NEW rows,
         Answered(f, how, age, rows), at[f] # "ready",
         UNCHANGED <<saasVars, who, staleness, sig, asked>>
  PROVE  /\ Promise!Closed(f)
         /\ how # "failed" => Got(f)' = [ok |-> TRUE, rows |-> rows]
         /\ how = "failed" => Got(f)' = [ok |-> FALSE, rows |-> rows]
         /\ \A g \in Fetcher \ {f} : Got(g)' = Got(g)
         /\ answers'[f] # <<>>
         /\ answers'[f][Len(answers'[f])].rows = rows
         /\ answers'[f][Len(answers'[f])].how = how
         /\ answers'[f][Len(answers'[f])].sig = sig[f]
         /\ answers'[f][Len(answers'[f])].asked = asked[f]
         /\ Len(answers'[f]) \in DOMAIN answers'[f]
<1> DEFINE a == [sig |-> sig[f], asked |-> asked[f], how |-> how,
                 age |-> age, rows |-> rows]
           n == Len(answers[f])
<1>1. /\ answers' = [answers EXCEPT ![f] = Append(answers[f], a)]
      /\ at' = [at EXCEPT ![f] = "ready"]
  BY DEF Answered
<1>2. answers[f] \in Seq(FetchAnswer) /\ n \in Nat BY DEF FreshTypeOK
<1>3. /\ answers'[f] = Append(answers[f], a)
      /\ \A g \in Fetcher \ {f} : answers'[g] = answers[g]
  BY <1>1 DEF FreshTypeOK
<1>4. a.rows = rows /\ a.how = how /\ a.sig = sig[f] /\ a.asked = asked[f]
  OBVIOUS
<1> HIDE DEF a
<1>5. /\ Len(answers'[f]) = n + 1 /\ answers'[f][n + 1] = a
      /\ answers'[f] # <<>> /\ n + 1 \in DOMAIN answers'[f]
  BY <1>2, <1>3
<1>6. Got(f)' = [ok |-> how # "failed", rows |-> rows]
  BY <1>4, <1>5 DEF Got
<1>6a. how # "failed" => Got(f)' = [ok |-> TRUE, rows |-> rows]
  <2>1. how # "failed" => (how # "failed") = TRUE OBVIOUS
  <2>2. QED BY <1>6, <2>1, Zenon
<1>6b. how = "failed" => Got(f)' = [ok |-> FALSE, rows |-> rows]
  <2>1. how = "failed" => (how # "failed") = FALSE OBVIOUS
  <2>2. QED BY <1>6, <2>1, Zenon
<1>7. \A g \in Fetcher \ {f} : Got(g)' = Got(g) BY <1>3 DEF Got
<1>8. Promise!Closed(f)
  BY <1>1 DEF Promise!Closed, Promise!saasVars, saasVars, TagOf, FreshTypeOK
<1>9. QED BY <1>4, <1>5, <1>6a, <1>6b, <1>7, <1>8

(* An answer with rows serves what was asked. *)
LEMMA ServeRefines ==
  ASSUME FreshTypeOK, FreshTypeOK', NEW f \in Fetcher, AnswersSound(f)',
         NEW how \in How \ {"failed"}, NEW age, NEW rows,
         Answered(f, how, age, rows), at[f] # "ready",
         UNCHANGED <<saasVars, who, staleness, sig, asked>>
  PROVE  Promise!Next
<1> DEFINE a == answers'[f][Len(answers'[f])]
<1>1. /\ Promise!Closed(f)
      /\ Got(f)' = [ok |-> TRUE, rows |-> rows]
      /\ \A g \in Fetcher \ {f} : Got(g)' = Got(g)
      /\ a.rows = rows /\ a.how # "failed" /\ a.sig = sig[f]
      /\ a.asked = asked[f] /\ Len(answers'[f]) \in DOMAIN answers'[f]
  BY AnsweredMeans
<1>2. /\ WholeResult(rows)
      /\ \A j \in DOMAIN rows :
           /\ rows[j].tag = TagOf(f)
           /\ AsFreshAs(ConnFor(f), rows[1].ver, rows[j].ver,
                        asked[f] - staleness[f])
  <2>1. /\ WholeResult(rows)
        /\ \A j \in DOMAIN rows : rows[j].tag = TagOf(f)
        /\ RowsCurrent(ConnFor(f), rows, asked[f] - staleness[f])
    BY <1>1, DataUntouched
    DEF AnswersSound, AnswerSound, TagOf, ConnFor, WholeResult
  <2>2. QED BY <2>1 DEF RowsCurrent
<1>3. Promise!Acceptable(AskOf(f), rows)
  <2>1. AskOf(f).tag = TagOf(f) /\ AskOf(f).since = asked[f]
        /\ AskOf(f).budget = staleness[f]
    BY DEF AskOf
  <2>2. \A c, u, v, t : Promise!AsFreshAs(c, u, v, t) <=> AsFreshAs(c, u, v, t)
    BY DEF Promise!AsFreshAs, AsFreshAs, Promise!Undone, Undone,
           Promise!ContentCurrentSince, ContentCurrentSince,
           Promise!CurrentSince, CurrentSince, Promise!CurrentUntil,
           CurrentUntil, Promise!Version, Version
  <2>3. QED BY <1>2, <2>1, <2>2, TagTyped DEF Promise!Acceptable
<1>4. Promise!Whole(rows) BY <1>2 DEF Promise!Whole, WholeResult
<1> HIDE DEF a
<1>5. Promise!Serve(f) BY <1>1, <1>3, <1>4 DEF Promise!Serve, AskOf
<1>6. QED BY <1>5 DEF Promise!Next

LEMMA FailRefines ==
  ASSUME FreshTypeOK, NEW f \in Fetcher, Answered(f, "failed", 0, <<>>),
         at[f] # "ready", UNCHANGED <<saasVars, who, staleness, sig, asked>>
  PROVE  Promise!Next
<1>1. /\ Promise!Closed(f)
      /\ Got(f)' = [ok |-> FALSE, rows |-> <<>>]
      /\ \A g \in Fetcher \ {f} : Got(g)' = Got(g)
  BY AnsweredMeans
<1>2. Promise!Fail(f) BY <1>1 DEF Promise!Fail
<1>3. QED BY <1>2 DEF Promise!Next

LEMMA FetchStepRefines ==
  ASSUME FreshTypeOK, FreshTypeOK', IInv', NEW f \in Fetcher, FetchStep(f)
  PROVE  Promise!Next \/ UNCHANGED Promise!promiseVars
<1> USE DEF Consume
<1>1. AnswersSound(f)' BY DEF IInv
<1>2. CASE ReadClock(f)
  BY <1>2, StutterRefines DEF ReadClock, httpVars, FreshTypeOK
<1>3. CASE Miss(f) BY <1>3, StutterRefines DEF Miss, Start, FreshTypeOK
<1>4. CASE Hit(f)
  <2>1. /\ Answered(f, "hit", Age(f), entries[KeyFor(f)].rows) /\ at[f] # "ready"
        /\ UNCHANGED <<saasVars, who, staleness, sig, asked>>
    BY <1>4 DEF Hit, httpVars
  <2>2. "hit" \in How \ {"failed"} BY DEF How
  <2>3. QED BY <1>1, <2>1, <2>2, ServeRefines
<1>5. CASE FetchFailed(f)
  <2>1. /\ Answered(f, "failed", 0, <<>>) /\ at[f] # "ready"
        /\ UNCHANGED <<saasVars, who, staleness, sig, asked>>
    BY <1>5 DEF FetchFailed, Returned
  <2>2. QED BY <2>1, FailRefines
<1>6. CASE FetchRevalidated(f)
  <2>1. /\ Answered(f, "revalidated", 0, held[f].rows) /\ at[f] # "ready"
        /\ UNCHANGED <<saasVars, who, staleness, sig, asked>>
    BY <1>6 DEF FetchRevalidated, Returned
  <2>2. "revalidated" \in How \ {"failed"} BY DEF How
  <2>3. QED BY <1>1, <2>1, <2>2, ServeRefines
<1>7. CASE FetchFresh(f)
  <2>1. /\ Answered(f, "fresh", 0, reply[f].rows) /\ at[f] # "ready"
        /\ UNCHANGED <<saasVars, who, staleness, sig, asked>>
    BY <1>7 DEF FetchFresh, Returned
  <2>2. "fresh" \in How \ {"failed"} BY DEF How
  <2>3. QED BY <1>1, <2>1, <2>2, ServeRefines
<1>8. CASE LiveReturned(f)
  <2>1. at[f] # "ready" /\ UNCHANGED <<saasVars, who, staleness, sig, asked>>
    BY <1>8 DEF LiveReturned
  <2>2. CASE Answered(f, "failed", 0, <<>>) BY <2>1, <2>2, FailRefines
  <2>3. CASE Answered(f, "live", 0, reply[f].rows)
    <3>1. "live" \in How \ {"failed"} BY DEF How
    <3>2. QED BY <1>1, <2>1, <2>3, <3>1, ServeRefines
  <2>4. QED BY <1>8, <2>2, <2>3 DEF LiveReturned
<1>9. QED BY <1>2, <1>3, <1>4, <1>5, <1>6, <1>7, <1>8 DEF FetchStep

LEMMA StepRefines ==
  ASSUME FreshTypeOK, FreshTypeOK', IInv', [Next]_vars
  PROVE  Promise!Next \/ UNCHANGED Promise!promiseVars
<1>1. ASSUME NEW f \in Fetcher, NEW s \in Signature, Call(f, s)
      PROVE  Promise!Next
  BY <1>1, CallRefines
<1>2. ASSUME NEW f \in Fetcher, FetchStep(f)
      PROVE  Promise!Next \/ UNCHANGED Promise!promiseVars
  BY <1>2, FetchStepRefines
<1>3. ASSUME NEW f \in Fetcher, WireStep(f), UNCHANGED freshVars
      PROVE  UNCHANGED Promise!promiseVars
  <2>1. UNCHANGED saasVars
    BY <1>3 DEF WireStep, Own, Answer, PageGate, PageRefused, SendPage,
       NotSent, ContextHits, AnswerPage, AnswerEmpty, AnswerNotModified, AnswerError,
       ContextEnds
  <2>2. QED BY <1>3, <2>1, StutterRefines DEF freshVars, callVars
<1>4. CASE World /\ UNCHANGED <<buckets, wireVars, freshVars>>
  BY <1>4, WorldRefines
<1>5. CASE UNCHANGED vars
  BY <1>5, StutterRefines DEF vars, httpVars, freshVars, callVars
<1>6. QED BY <1>1, <1>2, <1>3, <1>4, <1>5 DEF Next

(* The cache that every request shares, with its unlocked gaps between the *)
(* lookup, the fetch and the publication, is indistinguishable to a caller *)
(* from one that answers each fetch in a single step, within its budget.   *)
THEOREM CacheKeepsPromise ==
  ASSUME KeysDistinct, HonestSource
  PROVE  Spec => KeepsPromise
<1>1. Init => Promise!Init BY InitRefines
<1>2. (FreshTypeOK /\ IInv) /\ (FreshTypeOK /\ IInv)' /\ [Next]_vars
        => [Promise!Next]_Promise!promiseVars
  BY StepRefines
<1>3. QED BY <1>1, <1>2, InvariantHolds, PTL DEF Spec, KeepsPromise, Promise!Spec
=============================================================================
