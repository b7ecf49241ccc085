---------------------------- MODULE MCFreshness -----------------------------
(* Freshness on small instances, with the keys that cacheKey makes. *)
EXTENDS Freshness, CacheKey

CONSTANTS sf, zd, f1, f2, f3

P1 == PrincipalText(<<"t1">>, <<"u1">>)
P2 == PrincipalText(<<"t2">>, <<"u1">>)
MCTwoPrincipals == {P1, P2}

Accounts(filters) ==
  [table |-> <<"sf.accounts">>, columns |-> {<<"id">>, <<"region">>},
   filters |-> filters]
Tickets(keys) ==
  [table |-> <<"zd.tickets">>, columns |-> {<<"organization_id">>},
   filters |-> <<"organization_id">> :> keys]

MCTwoTables ==
  {Accounts(<<"region">> :> {<<"EMEA">>}), Tickets({<<"x">>, <<"y">>})}

(* What cacheKey does not tell apart: an IN-list of two keys, and one of a *)
(* single key in which the separator of the list occurs.                   *)
ASSUME PlusInKeyCollides ==
  \E key \in {<<"x", "+", "y">>, <<"y", "+", "x">>} :
    TextOfKey(P1, Tickets({key})) = TextOfKey(P1, Tickets({<<"x">>, <<"y">>}))

MCTag == Principal \X Signature
MCConnOf ==
  [s \in Signature |-> IF s.table = <<"zd.tickets">> THEN zd ELSE sf]
(* A single request of a single principal: model values p and accounts. *)
MCOneConn == [s \in Signature |-> sf]
MCKeyOf == [t \in Tag |-> TextOfKey(t[1], t[2])]
(* The answers do not depend on what the keys look like. *)
MCPlainKey == [t \in Tag |-> t]

MCDistinct == [v \in Version |-> v]
MCReverts == [v \in Version |-> v % 2]
MCOnePage == [v \in Version |-> 1]
MCTwoPages == [v \in Version |-> 2]
MCBudget2 == sf :> 2
MCBudget3 == sf :> 3
MCBudget4 == sf :> 4
MCNoBudget == [c \in {} |-> 0]
Symmetry == Permutations(Fetcher)
=============================================================================
