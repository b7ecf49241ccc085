--------------------------- MODULE PlanCacheProofs ---------------------------
(***************************************************************************)
(* Proofs about PlanCache: a key stands for one plan, so the cache is      *)
(* transparent however calls interleave, for every number of callers,      *)
(* statements, catalogs, policies and tokens.                              *)
(***************************************************************************)
EXTENDS PlanCache, PlannerProofs

----------------------------------------------------------------------------
(* One key, one plan.                                                      *)

(* A process that keeps the catalog it has loaded meets the hypothesis. *)
LEMMA OneCatalog ==
  ASSUME NEW c, Catalogs = {c}
  PROVE  CapShapesTell
BY DEF CapShapesTell

LEMMA SameKeySamePlan ==
  ASSUME CapShapesTell, NEW a \in Args, NEW b \in Args,
         HasKey(a), HasKey(b), KeyFor(a) = KeyFor(b)
  PROVE  /\ Wanted(a) <=> Wanted(b)
         /\ BuiltFor(a) = BuiltFor(b)
<1>1. /\ a.sql \in Statement /\ a.cat \in Catalogs /\ a.pol \in Providers
      /\ b.sql \in Statement /\ b.cat \in Catalogs /\ b.pol \in Providers
  BY DEF Args, Call
<1>2. /\ Shape(a.sql) = Shape(b.sql) /\ a.tenant = b.tenant
      /\ a.role = b.role /\ CapShapes(a) = CapShapes(b)
      /\ DocOf(a).version = DocOf(b).version
      /\ PolicyShape(DocOf(a)) = PolicyShape(DocOf(b))
  BY DEF KeyFor
<1>3. DocOf(a) = DocOf(b)
  <2>1. IsDocument(DocOf(a)) /\ IsDocument(DocOf(b))
    BY <1>1, PlanCacheAssumption DEF HasKey, DocOf
  <2>2. /\ DocOf(a).rls = DocOf(b).rls /\ DocOf(a).cls = DocOf(b).cls
        /\ DocOf(a).deny = DocOf(b).deny
    BY <1>2 DEF PolicyShape
  <2> HIDE DEF DocOf
  <2>3. QED BY <1>2, <2>1, <2>2 DEF IsDocument
<1>4. Alike(a.sql, b.sql)
  BY <1>1, <1>2, PlanCacheAssumption DEF Alike
<1>5. ParseTables(a.sql) = ParseTables(b.sql) BY <1>4, AlikeSides
<1>6. AgreeOn(a.cat, b.cat, ParseTables(a.sql))
  <2> SUFFICES ASSUME NEW t \in ParseTables(a.sql)
               PROVE  AgreeOn(a.cat, b.cat, {t})
    BY DEF AgreeOn
  <2>1. t \in DOMAIN a.cat /\ t \in DOMAIN b.cat BY <1>5 DEF HasKey
  <2>2. CapShape(a.cat, t) = CapShape(b.cat, t)
    <3>1. <<t, CapShape(a.cat, t)>> \in CapShapes(a) BY DEF CapShapes
    <3>2. PICK u \in ParseTables(b.sql) :
            <<t, CapShape(a.cat, t)>> = <<u, CapShape(b.cat, u)>>
      BY <1>2, <3>1 DEF CapShapes
    <3>3. QED BY <3>2
  <2>3. a.cat[t].caps = b.cat[t].caps /\ a.cat[t].masking = b.cat[t].masking
    BY <2>2 DEF CapShape
  <2>4. /\ a.cat[t].inList = b.cat[t].inList
        /\ a.cat[t].maxInList = b.cat[t].maxInList
    BY <1>1, <2>1, <2>2 DEF CapShapesTell
  <2>5. QED BY <2>1, <2>3, <2>4 DEF AgreeOn
<1>7. /\ Build(a.sql, a.cat, DocOf(a)) = Build(b.sql, b.cat, DocOf(b))
      /\ Buildable(a.sql, a.cat, DocOf(a)) <=> Buildable(b.sql, b.cat, DocOf(b))
  BY <1>3, <1>4, <1>6, AlikePlans
<1>8. QED BY <1>2, <1>7 DEF Wanted, BuiltFor

----------------------------------------------------------------------------
(* Types.                                                                  *)

LEMMA InitTyped == Init => TypeOK
<1> SUFFICES ASSUME Init PROVE TypeOK OBVIOUS
<1>1. /\ at \in [Caller -> {"ready", "lookup", "build", "store"}]
      /\ count \in [Caller -> 0 .. MaxCalls]
  BY PlanCacheAssumption DEF Init
<1>2. DOMAIN args = Caller /\ DOMAIN got = Caller /\ DOMAIN built = Caller
  BY DEF Init
<1>3. ASSUME NEW r \in Caller
      PROVE  /\ count[r] > 0 => args[r] \in Args
             /\ got[r].ok \in BOOLEAN
             /\ at[r] = "store" <=> built[r] # NoEntry
  <2>1. at[r] = "ready" /\ built[r] = NoEntry /\ count[r] = 0 /\ got[r].ok = FALSE
    BY DEF Init, NoAnswer
  <2>2. got[r].ok \in BOOLEAN BY <2>1, Zenon
  <2>3. ~(count[r] > 0) BY <2>1
  <2>4. at[r] # "store" BY <2>1
  <2>5. QED BY <2>1, <2>2, <2>3, <2>4, Zenon
<1>4. QED BY <1>1, <1>2, <1>3 DEF TypeOK

(* A plan that was built is told from none. *)
LEMMA BuiltIsEntry ==
  ASSUME NEW a
  PROVE  BuiltFor(a) # NoEntry
<1> DEFINE b == Build(a.sql, a.cat, DocOf(a))
<1>1. "sides" \in DOMAIN b BY DEF Build
<1>2. b # <<>> BY <1>1
<1>3. BuiltFor(a).plan = b /\ NoEntry.plan = <<>> BY DEF BuiltFor, NoEntry
<1> HIDE DEF b
<1>4. QED BY <1>2, <1>3

LEMMA AnswerTyped ==
  ASSUME TypeOK, NEW r \in Caller, NEW ok \in BOOLEAN, NEW hit, NEW entry,
         Answer(r, ok, hit, entry)
  PROVE  /\ at' \in [Caller -> {"ready", "lookup", "build", "store"}]
         /\ DOMAIN got' = Caller /\ DOMAIN built' = Caller
         /\ at'[r] = "ready" /\ built'[r] = NoEntry
         /\ got'[r].ok = ok /\ got'[r].entry = entry
         /\ \A x \in Caller \ {r} :
              at'[x] = at[x] /\ built'[x] = built[x] /\ got'[x] = got[x]
<1>1. got'[r] = [ok |-> ok, hit |-> hit, entry |-> entry]
  BY DEF TypeOK, Answer
<1>2. /\ [ok |-> ok, hit |-> hit, entry |-> entry].ok = ok
      /\ [ok |-> ok, hit |-> hit, entry |-> entry].entry = entry
  BY Zenon
<1>3. got'[r].ok = ok /\ got'[r].entry = entry BY <1>1, <1>2, Zenon
<1>4. QED BY <1>3 DEF TypeOK, Answer

(* A caller that is answered holds no plan any more.                       *)
LEMMA AnswerKeepsType ==
  ASSUME TypeOK, NEW r \in Caller, NEW ok \in BOOLEAN, NEW hit, NEW entry,
         Answer(r, ok, hit, entry), UNCHANGED <<args, count>>
  PROVE  TypeOK'
<1>1. /\ at' \in [Caller -> {"ready", "lookup", "build", "store"}]
      /\ DOMAIN got' = Caller /\ DOMAIN built' = Caller
      /\ at'[r] = "ready" /\ built'[r] = NoEntry /\ got'[r].ok = ok
      /\ \A x \in Caller \ {r} :
           at'[x] = at[x] /\ built'[x] = built[x] /\ got'[x] = got[x]
  BY AnswerTyped
<1>2. /\ count' \in [Caller -> 0 .. MaxCalls] /\ DOMAIN args' = Caller
      /\ \A x \in Caller : count'[x] > 0 => args'[x] \in Args
  BY DEF TypeOK
<1>3. ASSUME NEW x \in Caller
      PROVE  got'[x].ok \in BOOLEAN /\ (at'[x] = "store" <=> built'[x] # NoEntry)
  <2>1. CASE x = r BY <1>1, <2>1
  <2>2. CASE x # r
    <3>1. at'[x] = at[x] /\ built'[x] = built[x] /\ got'[x] = got[x]
      BY <1>1, <2>2
    <3>2. QED BY <3>1 DEF TypeOK
  <2>3. QED BY <2>1, <2>2
<1>4. QED BY <1>1, <1>2, <1>3 DEF TypeOK

LEMMA ResolveTyped ==
  ASSUME TypeOK, NEW r \in Caller, NEW a \in Args, Resolve(r, a)
  PROVE  TypeOK'
<1>1. /\ at[r] = "ready" /\ count[r] < MaxCalls /\ built[r] = NoEntry
      /\ count' = [count EXCEPT ![r] = @ + 1] /\ args' = [args EXCEPT ![r] = a]
  BY DEF Resolve, TypeOK
<1>2. /\ count' \in [Caller -> 0 .. MaxCalls] /\ DOMAIN args' = Caller
      /\ \A x \in Caller : count'[x] > 0 => args'[x] \in Args
  BY <1>1, PlanCacheAssumption DEF TypeOK
<1>3. CASE HasKey(a) /\ at' = [at EXCEPT ![r] = "lookup"]
           /\ UNCHANGED <<built, got>>
  BY <1>1, <1>2, <1>3 DEF TypeOK
<1>4. CASE Answer(r, FALSE, FALSE, NoEntry)
  <2>1. /\ at' \in [Caller -> {"ready", "lookup", "build", "store"}]
        /\ DOMAIN got' = Caller /\ DOMAIN built' = Caller
        /\ at'[r] = "ready" /\ built'[r] = NoEntry /\ got'[r].ok = FALSE
        /\ \A x \in Caller \ {r} :
             at'[x] = at[x] /\ built'[x] = built[x] /\ got'[x] = got[x]
    BY <1>4, AnswerTyped
  <2>2. QED BY <1>2, <2>1 DEF TypeOK
<1>5. QED BY <1>3, <1>4 DEF Resolve

LEMMA HitAnswers ==
  ASSUME TypeOK, NEW r \in Caller, Hit(r)
  PROVE  LET k == KeyFor(args[r])
         IN /\ at'[r] = "ready" /\ got'[r].ok = TRUE /\ got'[r].entry = plans[k]
            /\ \A x \in Caller \ {r} :
                 at'[x] = at[x] /\ built'[x] = built[x] /\ got'[x] = got[x]
<1> DEFINE entry == plans[KeyFor(args[r])]
<1>1. Answer(r, TRUE, TRUE, entry) BY DEF Hit
<1> HIDE DEF entry
<1>2. /\ at'[r] = "ready" /\ got'[r].ok = TRUE /\ got'[r].entry = entry
      /\ \A x \in Caller \ {r} :
           at'[x] = at[x] /\ built'[x] = built[x] /\ got'[x] = got[x]
  <2>1. TRUE \in BOOLEAN OBVIOUS
  <2>2. QED BY <1>1, <2>1, AnswerTyped, Zenon
<1>3. QED BY <1>2 DEF entry

LEMMA HitTyped ==
  ASSUME TypeOK, NEW r \in Caller, Hit(r)
  PROVE  TypeOK'
<1> DEFINE entry == plans[KeyFor(args[r])]
<1>1. UNCHANGED <<args, count>> /\ Answer(r, TRUE, TRUE, entry) BY DEF Hit
<1> HIDE DEF entry
<1>2. QED BY <1>1, AnswerKeepsType

LEMMA MissTyped ==
  ASSUME TypeOK, NEW r \in Caller, Miss(r)
  PROVE  TypeOK'
BY DEF Miss, TypeOK

LEMMA BuildPlanTyped ==
  ASSUME TypeOK, NEW r \in Caller, BuildPlan(r)
  PROVE  TypeOK'
<1>1. at[r] = "build" /\ UNCHANGED <<args, plans, count>> BY DEF BuildPlan
<1>2. CASE /\ built' = [built EXCEPT ![r] = BuiltFor(args[r])]
           /\ at' = [at EXCEPT ![r] = "store"] /\ UNCHANGED got
  BY <1>1, <1>2, BuiltIsEntry DEF TypeOK
<1>3. CASE Answer(r, FALSE, FALSE, NoEntry) BY <1>1, <1>3, AnswerKeepsType
<1>4. QED BY <1>2, <1>3 DEF BuildPlan

LEMMA StoreTyped ==
  ASSUME TypeOK, NEW r \in Caller, Store(r)
  PROVE  TypeOK'
<1> DEFINE entry == built[r]
<1>1. UNCHANGED <<args, count>> /\ Answer(r, TRUE, FALSE, entry) BY DEF Store
<1> HIDE DEF entry
<1>2. QED BY <1>1, AnswerKeepsType

(* Every state of the cache and its callers is well-typed: a caller holds  *)
(* a plan exactly between Build and put.                                   *)
THEOREM TypeCorrect == Spec => []TypeOK
<1>1. Init => TypeOK BY InitTyped
<1>2. TypeOK /\ [Next]_vars => TypeOK'
  <2>1. TypeOK /\ Next => TypeOK'
    BY ResolveTyped, HitTyped, MissTyped, BuildPlanTyped, StoreTyped DEF Next
  <2>2. TypeOK /\ UNCHANGED vars => TypeOK' BY DEF vars, TypeOK
  <2>3. QED BY <2>1, <2>2
<1>3. QED BY <1>1, <1>2, PTL DEF Spec

----------------------------------------------------------------------------
(* What is returned, and what is stored.                                   *)

LEMMA InitSound == Init => CacheInv
<1> SUFFICES ASSUME Init PROVE CacheInv OBVIOUS
<1>1. ASSUME NEW r \in Caller PROVE CallSound(r)
  <2>1. at[r] = "ready" /\ count[r] = 0 BY DEF Init
  <2>2. ~(count[r] > 0) BY <2>1
  <2>3. QED BY <2>1, <2>2 DEF CallSound, Returned
<1>2. DOMAIN plans = {} BY DEF Init
<1>3. QED BY <1>1, <1>2 DEF CacheInv

(* What a step of one caller leaves alone. *)
LEMMA OthersSound ==
  ASSUME TypeOK, CacheInv, NEW r \in Caller, CallSound(r)',
         \A x \in Caller \ {r} :
           /\ at'[x] = at[x] /\ built'[x] = built[x] /\ got'[x] = got[x]
           /\ args'[x] = args[x] /\ count'[x] = count[x]
  PROVE  \A x \in Caller : CallSound(x)'
<1>1. ASSUME NEW x \in Caller \ {r} PROVE CallSound(x)'
  <2>1. CallSound(x) BY DEF CacheInv
  <2>2. QED BY <2>1 DEF CallSound, Returned
<1>2. QED BY <1>1

LEMMA EntriesSound ==
  ASSUME CacheInv, plans' = plans
  PROVE  \A k \in DOMAIN plans' : EntrySound(k)'
BY DEF CacheInv, EntrySound

LEMMA ResolveSound ==
  ASSUME TypeOK, CacheInv, NEW r \in Caller, NEW a \in Args, Resolve(r, a)
  PROVE  CacheInv'
<1>1. /\ count' = [count EXCEPT ![r] = @ + 1] /\ args' = [args EXCEPT ![r] = a]
      /\ plans' = plans
  BY DEF Resolve
<1>2. /\ count'[r] > 0 /\ args'[r] = a
      /\ \A x \in Caller \ {r} : args'[x] = args[x] /\ count'[x] = count[x]
  BY <1>1, PlanCacheAssumption DEF TypeOK
<1>3. CASE HasKey(a) /\ at' = [at EXCEPT ![r] = "lookup"]
           /\ UNCHANGED <<built, got>>
  <2>1. at'[r] = "lookup" BY <1>3 DEF TypeOK
  <2>2. CallSound(r)' BY <1>2, <1>3, <2>1 DEF CallSound, Returned
  <2>3. \A x \in Caller \ {r} :
          at'[x] = at[x] /\ built'[x] = built[x] /\ got'[x] = got[x]
    BY <1>3 DEF TypeOK
  <2>4. QED BY <1>1, <1>2, <2>2, <2>3, OthersSound, EntriesSound DEF CacheInv
<1>4. CASE ~HasKey(a) /\ Answer(r, FALSE, FALSE, NoEntry)
  <2>1. /\ at'[r] = "ready" /\ got'[r].ok = FALSE
        /\ \A x \in Caller \ {r} :
             at'[x] = at[x] /\ built'[x] = built[x] /\ got'[x] = got[x]
    BY <1>4, AnswerTyped
  <2>2. ~Wanted(args'[r]) BY <1>2, <1>4 DEF Wanted
  <2>3. CallSound(r)' BY <1>2, <2>1, <2>2 DEF CallSound, Returned
  <2>4. QED BY <1>1, <1>2, <2>1, <2>3, OthersSound, EntriesSound DEF CacheInv
<1>5. QED BY <1>3, <1>4 DEF Resolve

(* The entry was built for arguments with the same key, which the same     *)
(* plan is built for.                                                      *)
LEMMA HitSound ==
  ASSUME CapShapesTell, TypeOK, CacheInv, NEW r \in Caller, Hit(r)
  PROVE  CacheInv'
<1> DEFINE k == KeyFor(args[r])
<1>1. /\ at[r] = "lookup" /\ k \in DOMAIN plans
      /\ Answer(r, TRUE, TRUE, plans[k]) /\ UNCHANGED <<args, plans, count>>
  BY DEF Hit
<1>2. count[r] > 0 /\ HasKey(args[r]) /\ args[r] \in Args
  BY <1>1 DEF CacheInv, CallSound, TypeOK
<1>3. PICK a \in Args : Wanted(a) /\ KeyFor(a) = k /\ plans[k] = BuiltFor(a)
  BY <1>1 DEF CacheInv, EntrySound
<1>4. Wanted(args[r]) /\ plans[k] = BuiltFor(args[r])
  <2>1. HasKey(a) BY <1>3 DEF Wanted
  <2>2. QED BY <1>2, <1>3, <2>1, SameKeySamePlan
<1>5. /\ at'[r] = "ready" /\ got'[r].ok = TRUE /\ got'[r].entry = plans[k]
      /\ \A x \in Caller \ {r} :
           at'[x] = at[x] /\ built'[x] = built[x] /\ got'[x] = got[x]
  BY HitAnswers
<1>6. CallSound(r)'
  <2> HIDE DEF k
  <2>1. QED BY <1>1, <1>2, <1>4, <1>5 DEF CallSound, Returned
<1>7. QED BY <1>1, <1>5, <1>6, OthersSound, EntriesSound DEF CacheInv

LEMMA MissSound ==
  ASSUME TypeOK, CacheInv, NEW r \in Caller, Miss(r)
  PROVE  CacheInv'
<1>1. /\ at[r] = "lookup" /\ at' = [at EXCEPT ![r] = "build"]
      /\ UNCHANGED <<args, built, plans, got, count>>
  BY DEF Miss
<1>2. at'[r] = "build" /\ \A x \in Caller \ {r} : at'[x] = at[x]
  BY <1>1 DEF TypeOK
<1>3. count[r] > 0 /\ HasKey(args[r]) BY <1>1 DEF CacheInv, CallSound
<1>4. CallSound(r)' BY <1>1, <1>2, <1>3 DEF CallSound, Returned
<1>5. QED BY <1>1, <1>2, <1>4, OthersSound, EntriesSound DEF CacheInv

LEMMA BuildPlanSound ==
  ASSUME TypeOK, CacheInv, NEW r \in Caller, BuildPlan(r)
  PROVE  CacheInv'
<1> DEFINE a == args[r]
<1>1. at[r] = "build" /\ UNCHANGED <<args, plans, count>> BY DEF BuildPlan
<1>2. count[r] > 0 /\ HasKey(a) BY <1>1 DEF CacheInv, CallSound
<1>3. CASE /\ Buildable(a.sql, a.cat, DocOf(a))
           /\ built' = [built EXCEPT ![r] = BuiltFor(a)]
           /\ at' = [at EXCEPT ![r] = "store"] /\ UNCHANGED got
  <2>1. /\ at'[r] = "store" /\ built'[r] = BuiltFor(a)
        /\ \A x \in Caller \ {r} :
             at'[x] = at[x] /\ built'[x] = built[x] /\ got'[x] = got[x]
    BY <1>3 DEF TypeOK
  <2>2. Wanted(a) BY <1>2, <1>3 DEF Wanted
  <2>3. CallSound(r)' BY <1>1, <1>2, <2>1, <2>2 DEF CallSound, Returned
  <2>4. QED BY <1>1, <2>1, <2>3, OthersSound, EntriesSound DEF CacheInv
<1>4. CASE /\ ~Buildable(a.sql, a.cat, DocOf(a))
           /\ Answer(r, FALSE, FALSE, NoEntry)
  <2>1. /\ at'[r] = "ready" /\ got'[r].ok = FALSE
        /\ \A x \in Caller \ {r} :
             at'[x] = at[x] /\ built'[x] = built[x] /\ got'[x] = got[x]
    BY <1>4, AnswerTyped
  <2>2. ~Wanted(a) BY <1>4 DEF Wanted
  <2>3. CallSound(r)' BY <1>1, <2>1, <2>2 DEF CallSound, Returned
  <2>4. QED BY <1>1, <2>1, <2>3, OthersSound, EntriesSound DEF CacheInv
<1>5. QED BY <1>3, <1>4 DEF BuildPlan

LEMMA StoreSound ==
  ASSUME TypeOK, CacheInv, NEW r \in Caller, Store(r)
  PROVE  CacheInv'
<1> DEFINE n == KeyFor(args[r])
<1>1. /\ at[r] = "store" /\ Answer(r, TRUE, FALSE, built[r])
      /\ UNCHANGED <<args, count>>
      /\ DOMAIN plans' = DOMAIN plans \cup {n} /\ plans'[n] = built[r]
      /\ \A k \in DOMAIN plans \ {n} : plans'[k] = plans[k]
  BY DEF Store
<1>2. /\ count[r] > 0 /\ Wanted(args[r]) /\ built[r] = BuiltFor(args[r])
      /\ args[r] \in Args
  BY <1>1 DEF CacheInv, CallSound, TypeOK
<1>3. /\ at'[r] = "ready" /\ got'[r].ok = TRUE /\ got'[r].entry = built[r]
      /\ \A x \in Caller \ {r} :
           at'[x] = at[x] /\ built'[x] = built[x] /\ got'[x] = got[x]
  BY <1>1, AnswerTyped
<1>4. CallSound(r)' BY <1>1, <1>2, <1>3 DEF CallSound, Returned
<1>5. ASSUME NEW k \in DOMAIN plans' PROVE EntrySound(k)'
  <2>1. CASE k = n BY <1>1, <1>2, <2>1 DEF EntrySound
  <2>2. CASE k # n
    <3>1. k \in DOMAIN plans /\ plans'[k] = plans[k] BY <1>1, <2>2
    <3>2. EntrySound(k) BY <3>1 DEF CacheInv
    <3>3. QED BY <3>1, <3>2 DEF EntrySound
  <2>3. QED BY <2>1, <2>2
<1>6. QED BY <1>1, <1>3, <1>4, <1>5, OthersSound DEF CacheInv

LEMMA StutterSound == CacheInv /\ UNCHANGED vars => CacheInv'
BY DEF vars, CacheInv, CallSound, Returned, EntrySound

(* The inductive invariant: what a call holds, returns and stores is what  *)
(* Build makes of its arguments, and every entry is the plan of its key.   *)
THEOREM CacheInvariant ==
  ASSUME CapShapesTell
  PROVE  Spec => []CacheInv
<1>1. Init => CacheInv BY InitSound
<1>2. TypeOK /\ CacheInv /\ [Next]_vars => CacheInv'
  <2>1. TypeOK /\ CacheInv /\ Next => CacheInv'
    BY ResolveSound, HitSound, MissSound, BuildPlanSound, StoreSound DEF Next
  <2>2. QED BY <2>1, StutterSound
<1>3. QED BY <1>1, <1>2, TypeCorrect, PTL DEF Spec

(* A call returns the plan that Build would make of its own arguments, and *)
(* fails exactly when Build would, whoever filled the cache and however    *)
(* the lookups and stores of all the callers interleave.                   *)
THEOREM CacheIsTransparent ==
  ASSUME CapShapesTell
  PROVE  Spec => []Transparent
<1>1. CacheInv => Transparent
  <2> SUFFICES ASSUME CacheInv, NEW r \in Caller, Returned(r)
               PROVE  /\ got[r].ok <=> Wanted(args[r])
                      /\ Wanted(args[r]) =>
                           got[r].entry.plan = BuiltFor(args[r]).plan
    BY DEF Transparent, Wanted, BuiltFor
  <2>1. QED BY DEF CacheInv, CallSound
<1>2. QED BY <1>1, CacheInvariant, PTL

(* No step changes or drops an entry: two requests that race to build a    *)
(* key store the same plan.                                                *)
THEOREM EntriesNeverChange ==
  ASSUME CapShapesTell
  PROVE  Spec => EntriesSettled
<1> DEFINE Settled ==
      \A k \in DOMAIN plans : k \in DOMAIN plans' /\ plans'[k] = plans[k]
<1>1. TypeOK /\ CacheInv /\ [Next]_vars => Settled
  <2> SUFFICES ASSUME TypeOK, CacheInv, [Next]_vars PROVE Settled
    OBVIOUS
  <2>1. ASSUME NEW r \in Caller, Store(r) PROVE Settled
    <3>1. /\ at[r] = "store"
          /\ plans' = [x \in DOMAIN plans \cup {KeyFor(args[r])} |->
                         IF x = KeyFor(args[r]) THEN built[r] ELSE plans[x]]
      BY <2>1 DEF Store
    <3>2. /\ Wanted(args[r]) /\ built[r] = BuiltFor(args[r])
          /\ HasKey(args[r]) /\ args[r] \in Args
      BY <3>1 DEF CacheInv, CallSound, TypeOK
    <3>3. ASSUME NEW k \in DOMAIN plans, k = KeyFor(args[r])
          PROVE  plans[k] = built[r]
      <4>1. PICK a \in Args :
              Wanted(a) /\ KeyFor(a) = k /\ plans[k] = BuiltFor(a)
        BY DEF CacheInv, EntrySound
      <4>2. HasKey(a) BY <4>1 DEF Wanted
      <4>3. QED BY <3>2, <3>3, <4>1, <4>2, SameKeySamePlan
    <3>4. QED BY <3>1, <3>3
  <2>2. CASE plans' = plans BY <2>2
  <2>3. ASSUME Next PROVE plans' = plans \/ \E r \in Caller : Store(r)
    BY <2>3 DEF Next, Resolve, Hit, Miss, BuildPlan
  <2>4. QED BY <2>1, <2>2, <2>3 DEF vars
<1>2. QED BY <1>1, TypeCorrect, CacheInvariant, PTL DEF Spec, EntriesSettled

----------------------------------------------------------------------------
(* Whose plan it is.  Nothing here needs CapShapesTell.                    *)


(* Every plan, built, stored or returned, is for the tenant and the role   *)
(* of the call.                                                            *)
For(entry, a) == entry.tenant = a.tenant /\ entry.role = a.role

Owned(r) ==
  /\ at[r] = "store" => For(built[r], args[r])
  /\ Returned(r) /\ got[r].ok => For(got[r].entry, args[r])

Kept(k) == plans[k].tenant = k.tenant /\ plans[k].role = k.roleSet

OwnInv ==
  /\ \A r \in Caller : Owned(r)
  /\ \A k \in DOMAIN plans : Kept(k)

LEMMA OthersOwned ==
  ASSUME TypeOK, OwnInv, NEW r \in Caller, Owned(r)',
         \A x \in Caller \ {r} :
           /\ at'[x] = at[x] /\ built'[x] = built[x] /\ got'[x] = got[x]
           /\ args'[x] = args[x] /\ count'[x] = count[x]
  PROVE  \A x \in Caller : Owned(x)'
<1>1. ASSUME NEW x \in Caller \ {r} PROVE Owned(x)'
  BY DEF OwnInv, Owned, Returned
<1>2. QED BY <1>1

LEMMA InitOwned == Init => OwnInv
<1> SUFFICES ASSUME Init PROVE OwnInv OBVIOUS
<1>1. ASSUME NEW r \in Caller PROVE Owned(r)
  <2>1. at[r] = "ready" /\ count[r] = 0 BY DEF Init
  <2>2. ~(count[r] > 0) BY <2>1
  <2>3. QED BY <2>1, <2>2 DEF Owned, Returned
<1>2. DOMAIN plans = {} BY DEF Init
<1>3. QED BY <1>1, <1>2 DEF OwnInv

LEMMA ResolveOwned ==
  ASSUME TypeOK, OwnInv, NEW r \in Caller, NEW a \in Args, Resolve(r, a)
  PROVE  OwnInv'
<1>1. /\ plans' = plans
      /\ \A x \in Caller \ {r} : args'[x] = args[x] /\ count'[x] = count[x]
  BY DEF Resolve, TypeOK
<1>2. CASE at' = [at EXCEPT ![r] = "lookup"] /\ UNCHANGED <<built, got>>
  <2>1. at'[r] = "lookup" BY <1>2 DEF TypeOK
  <2>2. Owned(r)' BY <2>1 DEF Owned, Returned
  <2>3. \A x \in Caller \ {r} :
          at'[x] = at[x] /\ built'[x] = built[x] /\ got'[x] = got[x]
    BY <1>2 DEF TypeOK
  <2>4. QED BY <1>1, <2>2, <2>3, OthersOwned DEF OwnInv, Kept
<1>3. CASE Answer(r, FALSE, FALSE, NoEntry)
  <2>1. /\ at'[r] = "ready" /\ got'[r].ok = FALSE
        /\ \A x \in Caller \ {r} :
             at'[x] = at[x] /\ built'[x] = built[x] /\ got'[x] = got[x]
    BY <1>3, AnswerTyped
  <2>2. Owned(r)' BY <2>1 DEF Owned
  <2>3. QED BY <1>1, <2>1, <2>2, OthersOwned DEF OwnInv, Kept
<1>4. QED BY <1>2, <1>3 DEF Resolve

LEMMA HitOwned ==
  ASSUME TypeOK, OwnInv, NEW r \in Caller, Hit(r)
  PROVE  OwnInv'
<1> DEFINE k == KeyFor(args[r])
<1>1. /\ k \in DOMAIN plans /\ Answer(r, TRUE, TRUE, plans[k])
      /\ UNCHANGED <<args, plans, count>>
  BY DEF Hit
<1>2. k.tenant = args[r].tenant /\ k.roleSet = args[r].role BY DEF KeyFor
<1>3. /\ at'[r] = "ready" /\ got'[r].entry = plans[k]
      /\ \A x \in Caller \ {r} :
           at'[x] = at[x] /\ built'[x] = built[x] /\ got'[x] = got[x]
  BY <1>1, HitAnswers
<1> HIDE DEF k
<1>4. For(plans[k], args[r]) BY <1>1, <1>2 DEF OwnInv, Kept, For
<1>5. Owned(r)' BY <1>1, <1>3, <1>4 DEF Owned, For
<1>6. QED BY <1>1, <1>3, <1>5, OthersOwned DEF OwnInv, Kept

LEMMA MissOwned ==
  ASSUME TypeOK, OwnInv, NEW r \in Caller, Miss(r)
  PROVE  OwnInv'
<1>1. /\ at' = [at EXCEPT ![r] = "build"]
      /\ UNCHANGED <<args, built, plans, got, count>>
  BY DEF Miss
<1>2. at'[r] = "build" /\ \A x \in Caller \ {r} : at'[x] = at[x]
  BY <1>1 DEF TypeOK
<1>3. Owned(r)' BY <1>2 DEF Owned, Returned
<1>4. QED BY <1>1, <1>2, <1>3, OthersOwned DEF OwnInv, Kept

LEMMA BuildPlanOwned ==
  ASSUME TypeOK, OwnInv, NEW r \in Caller, BuildPlan(r)
  PROVE  OwnInv'
<1>1. UNCHANGED <<args, plans, count>> BY DEF BuildPlan
<1>2. CASE /\ built' = [built EXCEPT ![r] = BuiltFor(args[r])]
           /\ at' = [at EXCEPT ![r] = "store"] /\ UNCHANGED got
  <2>1. /\ at'[r] = "store" /\ built'[r] = BuiltFor(args[r])
        /\ \A x \in Caller \ {r} :
             at'[x] = at[x] /\ built'[x] = built[x] /\ got'[x] = got[x]
    BY <1>2 DEF TypeOK
  <2>2. For(BuiltFor(args[r]), args[r]) BY DEF For, BuiltFor
  <2>3. Owned(r)' BY <1>1, <2>1, <2>2 DEF Owned, Returned, For
  <2>4. QED BY <1>1, <2>1, <2>3, OthersOwned DEF OwnInv, Kept
<1>3. CASE Answer(r, FALSE, FALSE, NoEntry)
  <2>1. /\ at'[r] = "ready" /\ got'[r].ok = FALSE
        /\ \A x \in Caller \ {r} :
             at'[x] = at[x] /\ built'[x] = built[x] /\ got'[x] = got[x]
    BY <1>3, AnswerTyped
  <2>2. Owned(r)' BY <2>1 DEF Owned
  <2>3. QED BY <1>1, <2>1, <2>2, OthersOwned DEF OwnInv, Kept
<1>4. QED BY <1>2, <1>3 DEF BuildPlan

LEMMA StoreOwned ==
  ASSUME TypeOK, OwnInv, NEW r \in Caller, Store(r)
  PROVE  OwnInv'
<1> DEFINE n == KeyFor(args[r])
<1>1. /\ at[r] = "store" /\ Answer(r, TRUE, FALSE, built[r])
      /\ UNCHANGED <<args, count>>
      /\ DOMAIN plans' = DOMAIN plans \cup {n} /\ plans'[n] = built[r]
      /\ \A k \in DOMAIN plans \ {n} : plans'[k] = plans[k]
  BY DEF Store
<1>2. n.tenant = args[r].tenant /\ n.roleSet = args[r].role BY DEF KeyFor
<1> HIDE DEF n
<1>3. For(built[r], args[r]) BY <1>1 DEF OwnInv, Owned
<1>4. /\ at'[r] = "ready" /\ got'[r].entry = built[r]
      /\ \A x \in Caller \ {r} :
           at'[x] = at[x] /\ built'[x] = built[x] /\ got'[x] = got[x]
  BY <1>1, AnswerTyped
<1>5. Owned(r)' BY <1>1, <1>3, <1>4 DEF Owned, For
<1>6. \A k \in DOMAIN plans' : Kept(k)'
  BY <1>1, <1>2, <1>3 DEF OwnInv, Kept, For
<1>7. QED BY <1>1, <1>4, <1>5, <1>6, OthersOwned DEF OwnInv

LEMMA AlwaysOwned == Spec => []OwnInv
<1>1. TypeOK /\ OwnInv /\ [Next]_vars => OwnInv'
  <2>1. TypeOK /\ OwnInv /\ Next => OwnInv'
    BY ResolveOwned, HitOwned, MissOwned, BuildPlanOwned, StoreOwned DEF Next
  <2>2. OwnInv /\ UNCHANGED vars => OwnInv'
    BY DEF vars, OwnInv, Owned, Kept, Returned
  <2>3. QED BY <2>1, <2>2
<1>2. QED BY <1>1, InitOwned, TypeCorrect, PTL DEF Spec

(* A plan is only served to the tenant and the role it was built for, and  *)
(* these are what the registration of the token's issuer says: its tenant, *)
(* and the role of the first of the token's groups that it knows.          *)
THEOREM PlansAreOwn == Spec => []OwnPlan
<1>1. TypeOK /\ OwnInv => OwnPlan
  <2> SUFFICES ASSUME TypeOK, OwnInv, NEW r \in Caller, Returned(r), got[r].ok
               PROVE  LET token == args[r].token
                          registration == Registry[token.iss]
                      IN /\ got[r].entry.tenant = registration.tenant
                         /\ \E k \in DOMAIN token.groups :
                              /\ token.groups[k] \in DOMAIN registration.roles
                              /\ got[r].entry.role =
                                   registration.roles[token.groups[k]]
                              /\ \A j \in 1 .. k - 1 :
                                   token.groups[j] \notin DOMAIN registration.roles
    BY DEF OwnPlan
  <2>1. For(got[r].entry, args[r]) BY DEF OwnInv, Owned
  <2>2. args[r] \in Args BY DEF TypeOK, Returned
  <2>3. PICK t \in Admitted :
          /\ args[r].token = t
          /\ args[r].tenant = ResolveFromHeader(t, Registry).tenant
          /\ args[r].role = ResolveFromHeader(t, Registry).roles[1]
    BY <2>2 DEF Args, Call
  <2>4. /\ t.groups \in Seq(STRING)
        /\ ResolveFromHeader(t, Registry).ok
        /\ ResolveFromHeader(t, Registry).roles # <<>>
    BY PlanCacheAssumption DEF Admitted
  <2>5. /\ ResolveFromHeader(t, Registry).tenant = Registry[t.iss].tenant
        /\ ResolveFromHeader(t, Registry).roles =
             RolesOf(Registry[t.iss], t.groups)
    <3>1. ~(~t.bearer \/ t.iss \notin DOMAIN Registry)
      BY <2>4 DEF ResolveFromHeader, Nobody
    <3>2. QED BY <3>1 DEF ResolveFromHeader, TenantOf
  <2>6. QED BY <2>1, <2>3, <2>4, <2>5, FirstRole DEF For
<1>2. QED BY <1>1, AlwaysOwned, TypeCorrect, PTL
==============================================================================
