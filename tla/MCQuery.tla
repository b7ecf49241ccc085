------------------------------ MODULE MCQuery -------------------------------
(* Query on small tables: accounts and tickets, and orgs for a third side. *)
EXTENDS QueryMeaning

Account(i, key, status, region) ==
  [id |-> i, vals |-> [external_id |-> key, status |-> status, region |-> region]]
Ticket(i, key, status, region) ==
  [id |-> i,
   vals |-> [organization_id |-> key, status |-> status, region |-> region]]

Accounts == <<Account(1, "x", "open", "us"), Account(2, "y", "shut", "eu"),
              Account(3, "", "open", "us")>>
Tickets == <<Ticket(4, "x", "open", "us"), Ticket(5, "x", "shut", "eu"),
             Ticket(6, "", "open", "us"), Ticket(7, "y", "open", "us")>>
Orgs == <<Account(8, "x", "open", "us"), Account(9, "y", "shut", "us")>>

Some(rows) == {SelectSeq(rows, LAMBDA r : r.id \in s) :
                 s \in SUBSET {rows[k].id : k \in DOMAIN rows}}

Tables == {"accounts", "tickets", "orgs"}
KeyOf(t) == IF t = "tickets" THEN "organization_id" ELSE "external_id"

Servers(as, ts, os) ==
  [t \in Tables |-> IF t = "accounts" THEN as ELSE IF t = "tickets" THEN ts ELSE os]

OrgServer == MockSF(Orgs, 500, {"status", "external_id"}, {}, 0)
Plain(as, ts) ==
  Servers(MockSF(as, 2, {"status", "region"}, {}, 0), MockZD(ts, 2, 2), OrgServer)

AllData == {Plain(Accounts, Tickets)}
SomeData == {Plain(as, ts) : as \in Some(Accounts), ts \in Some(Tickets)}

Col(alias, col) == [alias |-> alias, col |-> col]
On(a, b) == [a |-> a, b |-> b]
Where(alias, col, op, lit) ==
  [alias |-> alias, col |-> col, op |-> op, lit |-> lit]
Q(from, on, select, where) ==
  [from |-> from, on |-> on, select |-> select, where |-> where]
From(table, alias) == [table |-> table, alias |-> alias]
AKey == Col("a", "external_id")
TKey == Col("t", "organization_id")
OKey == Col("o", "external_id")
FromThree == <<From("accounts", "a"), From("tickets", "t"), From("orgs", "o")>>

One(where) == Q(<<From("accounts", "a")>>, <<>>, <<AKey, Col("a", "status")>>, where)
Two(where) == Q(<<From("accounts", "a"), From("tickets", "t")>>, <<On(TKey, AKey)>>,
                <<Col("a", "status"), Col("t", "status")>>, where)
Self(where) == Q(<<From("tickets", "a"), From("tickets", "t")>>,
                 <<On(Col("a", "organization_id"), TKey)>>,
                 <<Col("t", "region")>>, where)
Three(where) == Q(FromThree, <<On(TKey, AKey), On(AKey, OKey)>>,
                  <<Col("o", "status"), AKey>>, where)
Forward == Q(FromThree, <<On(TKey, OKey), On(AKey, OKey)>>, <<AKey>>, <<>>)

Open(alias) == Where(alias, "status", "=", "open")
HasKey == Where("t", "organization_id", "=", "x")

Queries ==
  {One(<<>>), One(<<Open("a"), Where("a", "region", "=", "us")>>),
   Two(<<>>), Two(<<Open("t"), Open("a")>>), Two(<<HasKey, Open("a")>>),
   Self(<<Open("t")>>), Three(<<>>), Three(<<Open("t")>>), Forward}

(* A catalog that enforces equality on the columns of `enforced`. *)
Catalog(enforced, maxInList) ==
  [t \in Tables |->
     [caps |-> [c \in {"status", "region", KeyOf(t)} |->
                  [ops |-> {"="}, enforced |-> <<t, c>> \in enforced]],
      masking |-> "unsupported", inList |-> TRUE, maxInList |-> maxInList]]

Status == {<<t, "status">> : t \in Tables}
Catalogs ==
  {Catalog(Status, 1), Catalog(Status, 2), Catalog({}, 0),
   Catalog(Status \cup {<<"accounts", "region">>}, 1)}

Rules(rls, cls, deny) ==
  [rls |-> rls, cls |-> cls, deny |-> deny, version |-> 1]
InRegion(t, op) ==
  [table |-> t, col |-> "region", op |-> op, val |-> <<"attr", "region">>]
MaskStatus(t, fn) == [table |-> t, col |-> "status", fn |-> fn]

MCPolicy ==
  "all" :> Rules(<<>>, <<>>, {})
  @@ "noOrgs" :> Rules(<<>>, <<>>, {"orgs"})
  @@ "accounts" :> Rules(<<InRegion("accounts", "=")>>,
                       <<MaskStatus("accounts", "sha256")>>, {})
  @@ "tickets" :> Rules(<<InRegion("tickets", "=")>>,
                      <<MaskStatus("tickets", "md5")>>, {"accounts"})
  @@ "both" :> Rules(<<InRegion("accounts", "="), InRegion("tickets", "=")>>,
                   <<MaskStatus("orgs", "sha256")>>, {})
  @@ "elsewhere" :> Rules(<<InRegion("accounts", "!=")>>, <<>>, {})

(* A group of each role, one with a role nobody wrote a policy for, one    *)
(* without a role, and one without attributes.                             *)
Us == [region |-> "us"]
Registration ==
  [tenant |-> "t1",
   roles |-> [g \in DOMAIN MCPolicy \cup {"ghosts"} |-> g] @@ "noAttrs" :> "both",
   attrs |-> [g \in DOMAIN MCPolicy |-> Us] @@ "guests" :> [region |-> "eu"]]
MCRegistry == "idp" :> Registration

Token(iss, groups) ==
  [bearer |-> TRUE, iss |-> iss, sub |-> "u", groups |-> groups, tenantID |-> "t1"]
Member(roles) == {Token("idp", <<g>>) : g \in roles}
Strangers ==
  {Token("rogue", <<"all">>), [Token("idp", <<"all">>) EXCEPT !.bearer = FALSE],
   Token("idp", <<"guests">>), Token("idp", <<"ghosts">>)}

(* Under which a query may run. *)
Settings(cats, tokens, servers, connected) ==
  [cat : cats, token : tokens, server : servers, connected : connected]
Inputs(qs, settings) ==
  {[q |-> q, cat |-> s.cat, token |-> s.token, server |-> s.server,
    connected |-> s.connected] : q \in qs, s \in settings}

Honest(servers) ==
  Settings(Catalogs, Member({"all", "noOrgs", "accounts", "tickets"}), servers,
           {Tables})

(* Groups that are unknown, or that disagree. *)
Identities ==
  Settings({Catalog(Status, 2)},
           Strangers \cup {Token("idp", <<"guests", "accounts", "noOrgs">>),
                           Token("idp", <<"accounts", "guests">>)},
           AllData, {Tables, {"tickets"}})

(* Servers that ignore what they declared and hide columns. *)
Enforcing ==
  {Catalog(Status \cup {<<t, "region">> : t \in {"accounts", "tickets"}}, n) :
     n \in {1, 2}}
Lying ==
  {Servers(MockSF(Accounts, 2, {"status"} \cup a, h, 0),
           MockSF(Tickets, 3, {"status"} \cup t, {}, l), OrgServer) :
     a \in {{}, {"region"}}, h \in {{}, {"status"}, {"region"}}, l \in {0, 3},
     t \in SUBSET {"region", "organization_id"}}
Dishonest(servers) ==
  Settings(Enforcing, Member({"all", "accounts", "both", "noAttrs"}), servers,
           {Tables})

(* A source that takes fewer keys than the catalog says. *)
Mismatched ==
  Settings({Catalog(Status, 2)}, Member({"all"}),
           {Servers(MockSF(Accounts, 2, {}, {}, 0), MockZD(Tickets, 5, 1), OrgServer)},
           {Tables})

(* A predicate on the join key of a probe that the connector enforces. *)
KeyPushed ==
  Inputs({Two(<<HasKey>>)},
         Settings({Catalog({<<"tickets", "organization_id">>}, 2)}, Member({"all"}),
                  SomeData, {Tables}))

(* A residual that is not an equality. *)
NotEqual ==
  Inputs({One(<<>>)}, Settings(Catalogs, Member({"elsewhere"}), SomeData, {Tables}))

(* One residual for two tables, which only one connector enforces. *)
SameResidual ==
  Inputs({Two(<<>>)}, Settings(Catalogs, Member({"both"}), SomeData, {Tables}))

Everything ==
  Inputs(Queries, Honest(SomeData) \cup Dishonest(Lying) \cup Identities
                    \cup Mismatched)

(* What the theorems on the meaning of an answer assume of the inputs holds *)
(* of all of these.  It says nothing of their rows: one server will do.     *)
Shapes ==
  Inputs(Queries, Honest(AllData) \cup Dishonest(AllData) \cup Identities
                    \cup Mismatched)

ASSUME HypothesesHold ==
  \A i \in Shapes : AcceptedIn(i) => EqualityIn(i) /\ ReachIn(i)
=============================================================================
