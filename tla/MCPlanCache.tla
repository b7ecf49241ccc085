---------------------------- MODULE MCPlanCache -----------------------------
(* PlanCache on two tables. *)
EXTENDS PlanCache

Col(alias, col) == [alias |-> alias, col |-> col]
From(table, alias) == [table |-> table, alias |-> alias]
One(lit) ==
  [from |-> <<From("accounts", "a")>>, on |-> <<>>,
   select |-> <<Col("a", "k")>>,
   where |-> <<[alias |-> "a", col |-> "status", op |-> "=", lit |-> lit]>>]
Two ==
  [from |-> <<From("accounts", "a"), From("tickets", "t")>>,
   on |-> <<[a |-> Col("t", "k"), b |-> Col("a", "k")]>>,
   select |-> <<Col("a", "k"), Col("t", "status")>>, where |-> <<>>]
Unknown ==
  [from |-> <<From("orgs", "o")>>, on |-> <<>>, select |-> <<Col("o", "k")>>,
   where |-> <<>>]
(* Build refuses it: two sides have one alias. *)
Clash == [Two EXCEPT !.from = <<From("accounts", "a"), From("tickets", "a")>>]

Statements == {One("open"), One("shut"), Two, Unknown, Clash}

Catalog(enforced, inList, maxInList) ==
  [t \in {"accounts", "tickets"} |->
     [caps |-> [c \in {"status", "region"} |->
                  [ops |-> {"="}, enforced |-> c \in enforced]],
      masking |-> "unsupported", inList |-> inList, maxInList |-> maxInList]]

EnforcementChanges ==
  {Catalog({"status"}, TRUE, 2), Catalog({"status", "region"}, TRUE, 2)}

InRegion ==
  [table |-> "accounts", col |-> "region", op |-> "=", val |-> <<"attr", "region">>]
Mask == [table |-> "tickets", col |-> "status", fn |-> "sha256"]
Doc(rls, cls) == [rls |-> rls, cls |-> cls, deny |-> {}, version |-> 1]

Provider(support) ==
  [r \in {"support", "admin"} |->
     IF r = "admin" THEN Doc(<<>>, <<>>) ELSE support]

PolicyChanges ==
  {Provider(Doc(<<InRegion>>, <<>>)), Provider(Doc(<<InRegion>>, <<Mask>>))}

Issued(iss, groups, claim) ==
  [bearer |-> TRUE, iss |-> iss, sub |-> "u", groups |-> groups,
   tenantID |-> claim]

(* Two tenants whose groups of one name have different roles. *)
MCRegistry ==
  [iss \in {"idp1", "idp2"} |->
     [tenant |-> IF iss = "idp1" THEN "t1" ELSE "t2",
      roles |-> [g \in {"staff", "ghosts", "boss"} |->
                   CASE g = "ghosts" -> "nobody"
                     [] g = "staff" /\ iss = "idp1" -> "support"
                     [] OTHER -> "admin"],
      attrs |-> [g \in {"staff"} |-> [region |-> "us"]]]]

MCTokens ==
  {Issued("idp1", <<"guests", "staff", "boss">>, "t1"),
   Issued("idp1", <<"boss">>, "t2"), Issued("idp2", <<"staff">>, "t2"),
   Issued("idp1", <<"ghosts">>, "t1"), Issued("idp3", <<"boss">>, "t1"),
   Issued("idp2", <<"guests">>, "t2")}

(* Both catalogs have the IN-lists that their shapes stand for. *)
ASSUME ShapesTell == CapShapesTell

CONSTANTS c1, c2
Symmetry == Permutations(Caller)
=============================================================================
