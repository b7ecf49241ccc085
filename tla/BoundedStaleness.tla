-------------------------- MODULE BoundedStaleness --------------------------
(***************************************************************************)
(* What a bounded-staleness cache owes its callers, without saying how:    *)
(* ADR-005 as freshness.go's Source implements it.  A caller asks for the  *)
(* data of a tag under a budget; it gets an error, or a whole result whose *)
(* every page is the tag's own and holds content that was the source's no  *)
(* longer ago than the budget before the caller asked (or shows an edit    *)
(* since undone, which no ETag gives away).                                *)
(***************************************************************************)
EXTENDS SaaS, Integers, Sequences

CONSTANTS Fetcher, Tag, ConnOf

VARIABLES
  ask,    \* caller -> what it has asked for, if it is waiting (open)
  got     \* caller -> the last answer it got

promiseVars == <<saasVars, ask, got>>

Whole(rows) ==
  /\ rows # <<>>
  /\ \A i \in DOMAIN rows :
       rows[i].at = i /\ (rows[i].last <=> i = Len(rows))

(* Rows that may answer q. *)
Acceptable(q, rows) ==
  \A i \in DOMAIN rows :
    /\ rows[i].tag = q.tag
    /\ AsFreshAs(ConnOf[q.tag[2]], rows[1].ver, rows[i].ver,
                 q.since - q.budget)

Init ==
  /\ SaaSInit
  /\ \A f \in Fetcher : ~ask[f].open
  /\ got = [f \in Fetcher |-> [ok |-> FALSE, rows |-> <<>>]]

Ask(f) ==
  /\ ~ask[f].open
  /\ ask'[f].open
  /\ ask'[f].since = clock
  /\ ask'[f].tag \in Tag
  /\ ask'[f].budget = ask[f].budget
  /\ \A g \in Fetcher \ {f} : ask'[g] = ask[g]
  /\ UNCHANGED <<saasVars, got>>

Closed(f) ==
  /\ ask[f].open
  /\ ask' = [ask EXCEPT ![f].open = FALSE]
  /\ UNCHANGED saasVars

Serve(f) ==
  /\ Closed(f)
  /\ got'[f].ok
  /\ Whole(got'[f].rows)
  /\ Acceptable(ask[f], got'[f].rows)
  /\ \A g \in Fetcher \ {f} : got'[g] = got[g]

Fail(f) ==
  /\ Closed(f)
  /\ got' = [got EXCEPT ![f] = [ok |-> FALSE, rows |-> <<>>]]

World == Tick \/ \E c \in Connector : Change(c)

Next ==
  \/ \E f \in Fetcher : Ask(f) \/ Serve(f) \/ Fail(f)
  \/ World /\ UNCHANGED <<ask, got>>

Spec == Init /\ [][Next]_promiseVars
=============================================================================
