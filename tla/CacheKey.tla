------------------------------ MODULE CacheKey ------------------------------
(***************************************************************************)
(* freshness.cacheKey: the text under which the rows of a request are      *)
(* cached.  A name or a value is a text, a sequence of symbols; the text   *)
(* of a key is made of theirs and of separators.  A request is [table,     *)
(* columns, filters]: columns a set, filters a function from a column to   *)
(* the set of values it may have.                                          *)
(***************************************************************************)
EXTENDS Sequences, SequencesExt

(* strings.Join *)
JoinTexts(texts, separator) ==
  FlattenSeq([i \in DOMAIN texts |->
                IF i = 1 THEN texts[i] ELSE separator \o texts[i]])

(* sort.Strings: an order that only depends on the set. *)
InOrder(texts) == SetToSeq(texts)

FilterText(col, values) ==
  col \o <<"=">> \o JoinTexts(InOrder(values), <<"+">>) \o <<",">>

FiltersText(filters) ==
  LET cols == InOrder(DOMAIN filters)
  IN FlattenSeq([i \in DOMAIN cols |-> FilterText(cols[i], filters[cols[i]])])

(* Source.Principal, as buildAndRoute fills it in. *)
PrincipalText(tenant, sub) == JoinTexts(<<tenant, sub>>, <<"|">>)

(* Variant: the key says what is asked for, not by whom. *)
KeyWithoutPrincipal(principal, r) ==
  JoinTexts(<<r.table, JoinTexts(InOrder(r.columns), <<",">>),
              FiltersText(r.filters)>>, <<"|">>)

TextOfKey(principal, r) ==
  JoinTexts(<<principal, r.table, JoinTexts(InOrder(r.columns), <<",">>),
              FiltersText(r.filters)>>, <<"|">>)
=============================================================================
