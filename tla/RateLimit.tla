----------------------------- MODULE RateLimit ------------------------------
(***************************************************************************)
(* internal/ratelimit: a call budget per connector, not refilled, shared   *)
(* by every request of the process.  Each operation runs under the         *)
(* limiter's mutex, so each is one atomic step of the action that uses it. *)
(* SetLimit is called by cmd/gateway/main.go before the server listens and *)
(* only with a positive limit, so it is the initial state.                 *)
(***************************************************************************)
EXTENDS Integers

CONSTANT Budget     \* connectors given a limit -> that limit

ASSUME BudgetAssumption == \A c \in DOMAIN Budget : Budget[c] \in Nat \ {0}

VARIABLE buckets    \* Limiter.buckets: a connector without one is unlimited

Bucket == [limit : Nat, used : Nat]

SetLimits == [c \in DOMAIN Budget |-> [limit |-> Budget[c], used |-> 0]]

RateLimitInit == buckets = SetLimits

Limited(c) == c \in DOMAIN buckets

(* Variant: one call too many is let through. *)
ExhaustedLate(c) == Limited(c) /\ buckets[c].used > buckets[c].limit

(* Allow returns false: the budget is spent. *)
Exhausted(c) == Limited(c) /\ buckets[c].used >= buckets[c].limit

(* Allow returns true and consumes one unit, if c has a budget at all. *)
Allow(c) ==
  /\ ~Exhausted(c)
  /\ buckets' = IF Limited(c)
                THEN [buckets EXCEPT ![c].used = @ + 1]
                ELSE buckets

(* Variant: the limit, whatever was used. *)
LimitOnly(c) == IF Limited(c) THEN buckets[c].limit ELSE -1

Remaining(c) ==
  IF Limited(c) THEN buckets[c].limit - buckets[c].used ELSE -1
=============================================================================
