----------------------------- MODULE PlanCache ------------------------------
(***************************************************************************)
(* internal/plancache: Resolve over the one plan cache of the process, by  *)
(* any number of requests at once, with the tenant and the role that       *)
(* internal/identity makes of their tokens.  The lock is held for the      *)
(* lookup and for the store, not in between: two requests may build the    *)
(* same plan.                                                              *)
(*                                                                         *)
(* Catalog and policy are arguments of Resolve: a cache outlives the ones  *)
(* it was filled under.  A catalog is one of Catalogs; a provider maps the *)
(* known roles to their documents (see Planner).                           *)
(***************************************************************************)
EXTENDS Planner, Identity

CONSTANTS
  Caller,      \* the goroutines that call Resolve
  Statement,   \* the queries asked
  Catalogs,
  Providers,
  Registry,    \* the issuers that are trusted
  Token,       \* the tokens that requests come with
  MaxCalls     \* bound on the calls of one caller

(* A document has nothing but these four parts. *)
IsDocument(doc) ==
  doc = [rls |-> doc.rls, cls |-> doc.cls, deny |-> doc.deny,
         version |-> doc.version]

ASSUME PlanCacheAssumption ==
  /\ MaxCalls \in Nat
  /\ \A q \in Statement : IsStatement(q)
  /\ \A p \in Providers : \A role \in DOMAIN p : IsDocument(p[role])
  /\ \A t \in Token : t.groups \in Seq(STRING)

VARIABLES
  at,       \* caller -> "ready", "lookup", "build" or "store"
  args,     \* caller -> the arguments of its call, and its token
  built,    \* caller -> the plan it built
  plans,    \* Cache.plans: key -> [plan, tenant, role], who it was built for
  got,      \* caller -> what its last call returned
  count     \* caller -> calls so far

vars == <<at, args, built, plans, got, count>>

(* The tokens that get past handleQuery: of a trusted issuer, with a role. *)
Admitted ==
  {t \in Token : LET p == ResolveFromHeader(t, Registry)
                 IN p.ok /\ p.roles # <<>>}

Call(sql, cat, pol, token) ==
  LET p == ResolveFromHeader(token, Registry)
  IN [sql |-> sql, cat |-> cat, pol |-> pol, tenant |-> p.tenant,
      role |-> p.roles[1], token |-> token]

Args ==
  {Call(s, c, p, t) :
     s \in Statement, c \in Catalogs, p \in Providers, t \in Admitted}

NoEntry == [plan |-> <<>>, tenant |-> "", role |-> ""]
NoAnswer == [ok |-> FALSE, hit |-> FALSE, entry |-> NoEntry]

Init ==
  /\ at = [r \in Caller |-> "ready"]
  /\ args \in [Caller -> {CHOOSE a \in Args : TRUE}]
  /\ built = [r \in Caller |-> NoEntry]
  /\ plans = [k \in {} |-> NoEntry]
  /\ got = [r \in Caller |-> NoAnswer]
  /\ count = [r \in Caller |-> 0]

DocOf(a) == a.pol[a.role]

(* combinedCapShape *)
CapShapes(a) == {<<t, CapShape(a.cat, t)>> : t \in ParseTables(a.sql)}

(* Variant: the key has the version of the policy, not its text. *)
KeyByVersion(a) ==
  [sqlShape |-> Shape(a.sql), tenant |-> a.tenant,
   version |-> DocOf(a).version, policyShape |-> "",
   capShape |-> CapShapes(a), roleSet |-> a.role]

(* Variant: tenants share plans. *)
KeyWithoutTenant(a) ==
  [sqlShape |-> Shape(a.sql), tenant |-> "",
   version |-> DocOf(a).version, policyShape |-> PolicyShape(DocOf(a)),
   capShape |-> CapShapes(a), roleSet |-> a.role]

KeyFor(a) ==
  [sqlShape |-> Shape(a.sql), tenant |-> a.tenant,
   version |-> DocOf(a).version, policyShape |-> PolicyShape(DocOf(a)),
   capShape |-> CapShapes(a), roleSet |-> a.role]

(* The key can be computed: the role and every table are known. *)
HasKey(a) ==
  a.role \in DOMAIN a.pol /\ ParseTables(a.sql) \subseteq DOMAIN a.cat

BuiltFor(a) ==
  [plan |-> Build(a.sql, a.cat, DocOf(a)), tenant |-> a.tenant, role |-> a.role]

Answer(r, ok, hit, entry) ==
  /\ at' = [at EXCEPT ![r] = "ready"]
  /\ got' = [got EXCEPT ![r] = [ok |-> ok, hit |-> hit, entry |-> entry]]
  /\ built' = [built EXCEPT ![r] = NoEntry]

(* Resolve is called: an unknown role or table is an error. *)
Resolve(r, a) ==
  /\ at[r] = "ready"
  /\ count[r] < MaxCalls
  /\ count' = [count EXCEPT ![r] = @ + 1]
  /\ args' = [args EXCEPT ![r] = a]
  /\ UNCHANGED plans
  /\ \/ /\ HasKey(a)
        /\ at' = [at EXCEPT ![r] = "lookup"]
        /\ UNCHANGED <<built, got>>
     \/ /\ ~HasKey(a)
        /\ Answer(r, FALSE, FALSE, NoEntry)

(* get, under the lock. *)
Hit(r) ==
  /\ at[r] = "lookup"
  /\ KeyFor(args[r]) \in DOMAIN plans
  /\ Answer(r, TRUE, TRUE, plans[KeyFor(args[r])])
  /\ UNCHANGED <<args, plans, count>>

Miss(r) ==
  /\ at[r] = "lookup"
  /\ KeyFor(args[r]) \notin DOMAIN plans
  /\ at' = [at EXCEPT ![r] = "build"]
  /\ UNCHANGED <<args, built, plans, got, count>>

(* Variant: what Build refuses is stored too. *)
BuildAndStore(r) ==
  /\ at[r] = "build"
  /\ built' = [built EXCEPT ![r] =
                 IF Buildable(args[r].sql, args[r].cat, DocOf(args[r]))
                 THEN BuiltFor(args[r]) ELSE NoEntry]
  /\ at' = [at EXCEPT ![r] = "store"]
  /\ UNCHANGED <<args, plans, got, count>>

(* plan.Build, off the lock; what it refuses is not cached. *)
BuildPlan(r) ==
  LET a == args[r]
  IN /\ at[r] = "build"
     /\ \/ /\ Buildable(a.sql, a.cat, DocOf(a))
           /\ built' = [built EXCEPT ![r] = BuiltFor(a)]
           /\ at' = [at EXCEPT ![r] = "store"]
           /\ UNCHANGED got
        \/ /\ ~Buildable(a.sql, a.cat, DocOf(a))
           /\ Answer(r, FALSE, FALSE, NoEntry)
     /\ UNCHANGED <<args, plans, count>>

(* put, under the lock: the last one to build wins. *)
Store(r) ==
  LET k == KeyFor(args[r])
  IN /\ at[r] = "store"
     /\ plans' = [x \in DOMAIN plans \cup {k} |->
                    IF x = k THEN built[r] ELSE plans[x]]
     /\ Answer(r, TRUE, FALSE, built[r])
     /\ UNCHANGED <<args, count>>

Next ==
  \E r \in Caller :
    \/ \E a \in Args : Resolve(r, a)
    \/ Hit(r)
    \/ Miss(r)
    \/ BuildPlan(r)
    \/ Store(r)

Spec == Init /\ [][Next]_vars

----------------------------------------------------------------------------

TypeOK ==
  /\ at \in [Caller -> {"ready", "lookup", "build", "store"}]
  /\ count \in [Caller -> 0 .. MaxCalls]
  /\ DOMAIN args = Caller /\ DOMAIN got = Caller /\ DOMAIN built = Caller
  /\ \A r \in Caller :
       /\ count[r] > 0 => args[r] \in Args
       /\ got[r].ok \in BOOLEAN
       /\ at[r] = "store" <=> built[r] # NoEntry

Returned(r) == at[r] = "ready" /\ count[r] > 0

(* The cache is transparent: whoever filled it, under whatever literals,   *)
(* catalog and policy, a call returns the plan that Build would make of    *)
(* its own arguments, and fails exactly when Build would.                  *)
Transparent ==
  \A r \in Caller : Returned(r) =>
    LET a == args[r]
        wanted == HasKey(a) /\ Buildable(a.sql, a.cat, DocOf(a))
    IN /\ got[r].ok <=> wanted
       /\ wanted => got[r].entry.plan = Build(a.sql, a.cat, DocOf(a))

(* A plan is never served to another tenant or role than the one it was    *)
(* built for (plancache.go:23-25), however lookups and stores interleave,  *)
(* and the tenant is the one the issuer of the token is registered for,    *)
(* whatever tenant the token claims (ADR-011).                             *)
OwnPlan ==
  \A r \in Caller : Returned(r) /\ got[r].ok =>
    LET token == args[r].token
        registration == Registry[token.iss]
    IN /\ got[r].entry.tenant = registration.tenant
       /\ \E k \in DOMAIN token.groups :
            /\ token.groups[k] \in DOMAIN registration.roles
            /\ got[r].entry.role = registration.roles[token.groups[k]]
            /\ \A j \in 1 .. k - 1 :
                 token.groups[j] \notin DOMAIN registration.roles

(* What a key stands for never changes: requests that race to build it     *)
(* store the same plan.                                                    *)
EntriesSettled ==
  [][\A k \in DOMAIN plans : k \in DOMAIN plans' /\ plans'[k] = plans[k]]_vars

----------------------------------------------------------------------------

(* The inductive invariant behind the properties above: a call that goes   *)
(* on has a key, what it returns is what Build makes of its arguments, and *)
(* so is every entry, for some arguments with its key.                     *)
Wanted(a) == HasKey(a) /\ Buildable(a.sql, a.cat, DocOf(a))

CallSound(r) ==
  /\ at[r] # "ready" => count[r] > 0 /\ HasKey(args[r])
  /\ at[r] = "store" => Wanted(args[r]) /\ built[r] = BuiltFor(args[r])
  /\ Returned(r) =>
       /\ got[r].ok <=> Wanted(args[r])
       /\ got[r].ok => got[r].entry = BuiltFor(args[r])

EntrySound(k) ==
  \E a \in Args : Wanted(a) /\ KeyFor(a) = k /\ plans[k] = BuiltFor(a)

CacheInv ==
  /\ \A r \in Caller : CallSound(r)
  /\ \A k \in DOMAIN plans : EntrySound(k)

(* What the argument rests on, and the key leaves out: catalogs that agree *)
(* on a table's predicates and masking (catalog.ShapeHash) agree on the    *)
(* IN-lists its connector takes.  So it is while the process keeps the one *)
(* catalog it has loaded.                                                  *)
CapShapesTell ==
  \A c, d \in Catalogs : \A t \in DOMAIN c \cap DOMAIN d :
    CapShape(c, t) = CapShape(d, t) =>
      c[t].inList = d[t].inList /\ c[t].maxInList = d[t].maxInList
=============================================================================
