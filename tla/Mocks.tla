-------------------------------- MODULE Mocks --------------------------------
(***************************************************************************)
(* The sources that the tests and the demo of the gateway run against:     *)
(* internal/mocksf and internal/mockzd, each one handler over fixed rows.  *)
(* A server is a record: the options it was made with.  A row is [id,      *)
(* vals], id a ghost and vals a function from columns to texts.            *)
(*                                                                         *)
(* Their ETags and 304s are in SaaS and HTTPSource, whose sources change   *)
(* under way as these do not.                                              *)
(***************************************************************************)
EXTENDS Selection, SequencesExt

CONSTANT Empty   \* the empty string

Val(row, col) == IF col \in DOMAIN row.vals THEN row.vals[col] ELSE Empty

(* filtered: the columns declared ENFORCED and not lied about; hidden: the *)
(* columns that field-level security hides; rateLimit: 0 for none.         *)
MockSF(rows, pageSize, filtered, hidden, rateLimit) ==
  [kind |-> "sf", rows |-> rows, pageSize |-> pageSize, filtered |-> filtered,
   hidden |-> hidden, rateLimit |-> rateLimit, maxInList |-> 0]

(* maxInList: the organization ids one request may have, 0 for any number. *)
MockZD(rows, pageSize, maxInList) ==
  [kind |-> "zd", rows |-> rows, pageSize |-> pageSize, filtered |-> {},
   hidden |-> {}, rateLimit |-> 0, maxInList |-> maxInList]

(* Ghosts tell rows apart, and a page has a row. *)
IsServer(server) ==
  /\ IsSequence(server.rows)
  /\ \A j, k \in DOMAIN server.rows :
       server.rows[j].id = server.rows[k].id => j = k
  /\ server.pageSize \in Nat \ {0}

(* A mocksf only filters by the columns it was told to; a mockzd by all. *)
Applied(server, query) ==
  IF server.kind = "sf" THEN DOMAIN query \cap server.filtered ELSE DOMAIN query

FilterRows(server, query) ==
  Chosen(server.rows,
    {k \in DOMAIN server.rows :
       \A c \in Applied(server, query) : Val(server.rows[k], c) \in query[c]})

(* Only the columns asked for, empty where the row has none. *)
Cells(row, fields) == [id |-> row.id, vals |-> [c \in fields |-> Val(row, c)]]

Refusal(status, field) ==
  [status |-> status, field |-> field, rows |-> <<>>, hasMore |-> FALSE]

(* The page of the filtered rows that starts after offset of them. *)
PageFrom(server, fields, query, offset) ==
  LET found == FilterRows(server, query)
      page == SubSeq(found, offset + 1,
                     Min({offset + server.pageSize, Len(found)}))
  IN [status |-> "ok", field |-> Empty,
      rows |-> [k \in DOMAIN page |-> Cells(page[k], fields)],
      hasMore |-> offset + server.pageSize < Len(found)]

TooManyCalls(server, call) == server.rateLimit > 0 /\ call > server.rateLimit

ListTooLarge(server, query) ==
  /\ server.maxInList > 0
  /\ "organization_id" \in DOMAIN query
  /\ Cardinality(query["organization_id"]) > server.maxInList

(* handleTable: what the server may answer its call-th request.  Of the    *)
(* hidden columns it names the first in an order nobody fixes.             *)
HandleTable(server, call, fields, query, offset) ==
  IF TooManyCalls(server, call)
  THEN {Refusal("rateLimited", Empty)}
  ELSE IF fields \cap server.hidden # {}
  THEN {Refusal("column", c) : c \in fields \cap server.hidden}
  ELSE IF ListTooLarge(server, query)
  THEN {Refusal("tooLarge", Empty)}
  ELSE {PageFrom(server, fields, query, offset)}
==============================================================================
