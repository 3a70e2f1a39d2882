------------------------ MODULE ProjectOperatorProofs ------------------------
(***************************************************************************)
(* Theorems about ProjectOperator, for every set of projects, stacks they  *)
(* take, limit, and number of generations, key pairs and faults: what      *)
(* Ready says of the objects of a project, what its keys belong to, and    *)
(* the gate and the deletion the controller implements.                    *)
(*                                                                         *)
(* The invariant relates three copies of a Project, the stored one, the    *)
(* informer's and the worker's, and says of a reconcile under way that     *)
(* each call of the plan is either ahead of the worker or in effect.  That *)
(* the calls do not undo one another is a property of Plan, proved first.  *)
(***************************************************************************)
EXTENDS ProjectOperator, FiniteSetTheorems, SequenceTheorems, TLAPS

-----------------------------------------------------------------------------
(* The calls of a plan. *)

Items(q) == {q[i] : i \in DOMAIN q}

\* What a stack keeps in its namespace; the plan puts these objects, and deletes
\* the others but for what the controllers of other objects own.
Kept(s) ==
    Isolators
    \cup (IF s.pg THEN {"db-cdc", "db", "stream", "cdc", "project-jwt-secret",
                        "postgres-meta", "postgres-meta-svc", "gotrue-db-url",
                        "gotrue", "gotrue-svc", "db-route"}
                  ELSE {})
    \cup (IF s.pg /\ s.pooler THEN {"db-pooler"} ELSE {})
    \cup (IF s.redis THEN {"redis", "redis-svc"} ELSE {})
    \cup (IF s.rest THEN {"postgrest-config", "postgrest", "postgrest-svc", "api-route"}
                    ELSE {})
Derivative == {"db-app", "gotrue-db-url"}

\* A call that a plan for s may contain.
Fits(w, s) ==
    CASE w.do = "put" -> w.obj \in Kept(s)
      [] w.do \in {"delete", "drop"} -> w.obj \in Objects \ (Kept(s) \cup Derivative)
      [] w.do = "mint" -> w.obj = "gotrue-jwt-keys" /\ s.pg
      [] w.do = "derive" -> w.obj \in Derived /\ s.pg
      [] w.do = "expire" -> w.obj \in RoleKeys /\ s.pg
CallsFor(s) == {w \in Writes : Fits(w, s)}

\* Keys are derived after the pair they are derived from.
KeysOrdered(q) ==
    \A i, j \in DOMAIN q : q[i].do = "derive" /\ q[j].do = "mint" => j < i

-----------------------------------------------------------------------------
(* The inductive invariant. *)

\* The stacks of Projects are those CreateProject accepts.
Sound(c) == c.st # "none" => (c.stack.rest => c.stack.pg)

\* The informer's copy k of a Project c is an earlier version of it: it does not
\* show a later state, nor another stack of the same generation; and whatever was
\* reported of the Project, the worker had seen it.
Earlier(k, c) ==
    /\ Sound(c) /\ Sound(k)
    /\ c.st = "none" => k.st = "none"
    /\ c.st = "live" => k.st \in {"none", "live"}
    /\ c.st = "deleting" => k.st # "gone"
    /\ k.st = "none" => c.phase = "" /\ c.obs = 0
    /\ k.st # "none" => /\ k.gen <= c.gen
                        /\ k.gen = c.gen => k.stack = c.stack
    /\ c.obs <= c.gen
    /\ c.obs = c.gen => k.gen = c.gen
SeenInv == \A p \in Projects : Earlier(seen[p], cr[p])

\* The worker's copy v, at pc, is no later than the informer's, apart from what the
\* worker wrote itself.
Works(pc, v, k, c) ==
    /\ k.st # "none" /\ v.st # "none" /\ Sound(v)
    /\ v.gen <= k.gen
    /\ v.gen = k.gen => v.stack = k.stack
    /\ c.obs = c.gen => v.gen = c.gen
    /\ pc \in {"finalizer", "gate", "apply"} => v.st = "live"
    /\ pc = "apply" => v.phase # ""
    /\ pc \in {"stream", "namespace", "release"} =>
          v.st = "deleting" /\ k.st \in {"deleting", "gone"}
OpInv == ~At("idle") =>
            /\ Works(op.pc, op.cr, seen[op.p], cr[op.p])
            /\ op.pc \in {"finalizer", "gate", "apply"} => op.p \notin gone

\* Only the namespace of a deleted Project terminates.
GoneInv == \A p \in gone : seen[p].st \in {"deleting", "gone"}

\* The effect of a call that is behind the worker.
Held(p, w) ==
    CASE w.do = "put" -> w.obj \in objs[p] \cup {"gotrue-db-url"}
      [] w.do \in {"delete", "drop"} -> w.obj \notin objs[p] \ missed[p]
      [] w.do = "mint" -> signer[p][w.obj] # 0
      [] w.do = "derive" -> w.obj \in RoleKeys \/ signer[p][w.obj] # 0
      [] OTHER -> TRUE

\* What is left of a plan, and the effects of what is not.
TodoInv ==
    At("apply") =>
        /\ op.todo \in Seq(CallsFor(op.cr.stack))
        /\ KeysOrdered(op.todo)
        /\ \A w \in Items(Plan(op.cr.stack)) : w \in Items(op.todo) \/ Held(op.p, w)

\* What Ready says of a generation.
Exact(p) ==
    /\ \A w \in Items(Plan(cr[p].stack)) : Held(p, w)
    /\ cr[p].stack.pg => "gotrue-db-url" \in objs[p]
ReadyInv ==
    \A p \in Projects :
        Live(p) /\ cr[p].phase = "Ready" /\ cr[p].obs = cr[p].gen => Exact(p)

IInv == TypeOK /\ SeenInv /\ OpInv /\ GoneInv /\ TodoInv /\ KeysConsistent /\ ReadyInv

-----------------------------------------------------------------------------
(* Facts about plans. *)

\* The objects a sequence of calls decides on, and the key pair it makes.
Touched(q) == {q[i].obj : i \in {j \in DOMAIN q :
                                     q[j].do \in {"put", "delete", "drop", "mint"}}}
Does(q, d) == \E i \in DOMAIN q : q[i].do = d

\* One call, as a sequence.
LEMMA OneCall ==
    ASSUME NEW S, NEW w \in S
    PROVE  /\ <<w>> \in Seq(S) /\ DOMAIN <<w>> = {1} /\ <<w>>[1] = w
OBVIOUS

\* A call after another: what the parts fit, touch and order, the whole does.
LEMMA Concatenation ==
    ASSUME NEW S, NEW a \in Seq(S), NEW b \in Seq(S)
    PROVE  /\ a \o b \in Seq(S)
           /\ Touched(a \o b) = Touched(a) \cup Touched(b)
           /\ \A d : Does(a \o b, d) <=> Does(a, d) \/ Does(b, d)
           /\ KeysOrdered(a) /\ KeysOrdered(b) /\ ~(Does(a, "derive") /\ Does(b, "mint"))
              => KeysOrdered(a \o b)
<1> DEFINE c == a \o b
<1>1. /\ c \in Seq(S) /\ Len(c) = Len(a) + Len(b) /\ Len(a) \in Nat /\ Len(b) \in Nat
      /\ DOMAIN a = 1..Len(a) /\ DOMAIN b = 1..Len(b) /\ DOMAIN c = 1..(Len(a) + Len(b))
      /\ \A i \in 1..Len(a) : c[i] = a[i]
      /\ \A i \in 1..Len(b) : c[Len(a) + i] = b[i]
  OBVIOUS
<1> HIDE DEF c
<1>2. \A i \in DOMAIN a : i \in DOMAIN c /\ c[i] = a[i]
  BY <1>1
<1>3. \A i \in DOMAIN b : Len(a) + i \in DOMAIN c /\ c[Len(a) + i] = b[i]
  BY <1>1
<1>4. \A k \in DOMAIN c : \/ k \in DOMAIN a /\ c[k] = a[k]
                          \/ k - Len(a) \in DOMAIN b /\ c[k] = b[k - Len(a)] /\ k > Len(a)
  BY <1>1
<1>5. Touched(c) = Touched(a) \cup Touched(b)
  BY <1>2, <1>3, <1>4 DEF Touched
<1>6. \A d : Does(c, d) <=> Does(a, d) \/ Does(b, d)
  BY <1>2, <1>3, <1>4 DEF Does
<1>7. ASSUME KeysOrdered(a), KeysOrdered(b), ~(Does(a, "derive") /\ Does(b, "mint")),
             NEW i \in DOMAIN c, NEW j \in DOMAIN c, c[i].do = "derive", c[j].do = "mint"
      PROVE  j < i
  <2>1. CASE i \in DOMAIN a /\ j \in DOMAIN a
    BY <1>2, <1>7, <2>1 DEF KeysOrdered
  <2>2. CASE i \notin DOMAIN a /\ j \notin DOMAIN a
    BY <1>1, <1>4, <1>7, <2>2 DEF KeysOrdered
  <2>3. CASE i \in DOMAIN a /\ j \notin DOMAIN a
    BY <1>2, <1>4, <1>7, <2>3 DEF Does
  <2>4. CASE i \notin DOMAIN a /\ j \in DOMAIN a
    BY <1>1, <2>4
  <2> QED
    BY <2>1, <2>2, <2>3, <2>4
<1> QED
  BY <1>1, <1>5, <1>6, <1>7 DEF KeysOrdered, c

\* A part of a plan for s that touches at least the objects T, and one that has
\* nothing to do with keys.
Part(q, s, T) == q \in Seq(CallsFor(s)) /\ T \subseteq Touched(q) /\ KeysOrdered(q)
Plain(q, s, T) == Part(q, s, T) /\ ~Does(q, "derive") /\ ~Does(q, "mint")

\* Parts follow each other.
LEMMA PartsFollow ==
    ASSUME NEW s, NEW a, NEW b, NEW T, NEW U
    PROVE  /\ Plain(a, s, T) /\ Plain(b, s, U) => Plain(a \o b, s, T \cup U)
           /\ Plain(a, s, T) /\ Part(b, s, U) => Part(a \o b, s, T \cup U)
           /\ Part(a, s, T) /\ Plain(b, s, U) => Part(a \o b, s, T \cup U)
<1> SUFFICES ASSUME a \in Seq(CallsFor(s)), b \in Seq(CallsFor(s))
             PROVE  /\ Plain(a, s, T) /\ Plain(b, s, U) => Plain(a \o b, s, T \cup U)
                    /\ Plain(a, s, T) /\ Part(b, s, U) => Part(a \o b, s, T \cup U)
                    /\ Part(a, s, T) /\ Plain(b, s, U) => Part(a \o b, s, T \cup U)
  BY DEF Part, Plain
<1> QED
  BY Concatenation DEF Part, Plain

\* One call that touches an object.
LEMMA PlainCall ==
    ASSUME NEW s, NEW d \in {"put", "delete", "drop"}, NEW o \in Objects,
           IF d = "put" THEN o \in Kept(s) ELSE o \notin Kept(s) \cup Derivative
    PROVE  Plain(<<[do |-> d, obj |-> o]>>, s, {o})
<1> DEFINE w == [do |-> d, obj |-> o]
<1>1. w.do = d /\ w.obj = o
  OBVIOUS
<1>2. w \in CallsFor(s)
  BY DEF CallsFor, Fits, Writes
<1>3. DOMAIN <<w>> = {1} /\ <<w>>[1] = w /\ <<w>> \in Seq(CallsFor(s))
  BY <1>2, OneCall
<1> HIDE DEF w
<1>4. Touched(<<w>>) = {o}
  BY <1>1, <1>3 DEF Touched
<1>5. ~Does(<<w>>, "derive") /\ ~Does(<<w>>, "mint")
  BY <1>1, <1>3 DEF Does
<1>6. KeysOrdered(<<w>>)
  BY <1>1, <1>3 DEF KeysOrdered
<1> QED
  BY <1>3, <1>4, <1>5, <1>6 DEF Plain, Part, w

\* An object that a stack needs or does not.
LEMMA PlainHave ==
    ASSUME NEW s, NEW wanted \in BOOLEAN, NEW o \in Objects,
           IF wanted THEN o \in Kept(s) ELSE o \notin Kept(s) \cup Derivative
    PROVE  Plain(Have(wanted, o), s, {o}) /\ Plain(HaveStrict(wanted, o), s, {o})
BY PlainCall DEF Have, HaveStrict, Put, Drop, Remove

\* No call at all.
LEMMA PlainNothing == ASSUME NEW s PROVE Plain(<<>>, s, {})
BY DEF Plain, Part, Touched, Does, KeysOrdered

\* The namespace with its quota, limits and policies, of any stack.
LEMMA IsolationPart == ASSUME NEW s PROVE Plain(Isolation, s, Isolators)
<1>1. \A o \in Isolators : Plain(Put(o), s, {o})
  BY PlainCall DEF Put, Isolators, Objects, Kept
<1>2. Plain(reconcileResourceQuota, s, {"quota"} \cup {"limits"})
  BY <1>1, PartsFollow
     DEF reconcileResourceQuota, DesiredResourceQuota, DesiredLimitRange, Isolators
<1>3. Plain(reconcileNetworkPolicies, s,
            ({"default-deny"} \cup {"allow-ingress"}) \cup {"egress-restrict"})
  BY <1>1, PartsFollow
     DEF reconcileNetworkPolicies, DesiredDefaultDenyNetworkPolicy,
         DesiredAllowNetworkPolicies, DesiredEgressNetworkPolicy, Isolators
<1>4. Plain(reconcileNamespace, s, {"namespace"})
  BY <1>1 DEF reconcileNamespace, DesiredNamespace, Isolators
<1>5. Plain(Isolation, s,
            ({"namespace"} \cup ({"quota"} \cup {"limits"}))
            \cup (({"default-deny"} \cup {"allow-ingress"}) \cup {"egress-restrict"}))
  BY <1>2, <1>3, <1>4, PartsFollow DEF Isolation
<1> QED
  BY <1>5 DEF Isolators, Plain, Part

\* The database, its stream and what captures its changes.
LEMMA DatabasePart ==
    ASSUME NEW s \in StackValues
    PROVE  Plain(Database(s), s, {"db-cdc", "db", "db-pooler", "stream", "cdc"})
<1> USE DEF StackValues, Objects, Isolators, Kept, Derivative
<1>1. Plain(reconcileCDCSecret(s), s, {"db-cdc"})
  BY PlainHave DEF reconcileCDCSecret
<1>2. Plain(reconcilePostgres(s), s, {"db"} \cup {"db-pooler"})
  <2>1. CASE s.pg
    <3>1. Plain(Put("db"), s, {"db"})
      BY <2>1, PlainCall DEF Put
    <3>2. Plain(HaveStrict(DesiredCloudNativePGPooler(s), "db-pooler"), s, {"db-pooler"})
      BY <2>1, PlainHave DEF DesiredCloudNativePGPooler
    <3> QED
      BY <2>1, <3>1, <3>2, PartsFollow DEF reconcilePostgres, DesiredCloudNativePGCluster
  <2>2. CASE ~s.pg
    <3>1. Plain(Remove("db"), s, {"db"}) /\ Plain(Remove("db-pooler"), s, {"db-pooler"})
      BY <2>2, PlainCall DEF Remove
    <3>2. Plain(Remove("db-pooler") \o Remove("db"), s, {"db-pooler"} \cup {"db"})
      BY <3>1, PartsFollow
    <3> QED
      BY <2>2, <3>2 DEF reconcilePostgres, DesiredCloudNativePGCluster, Plain, Part
  <2> QED
    BY <2>1, <2>2
<1>3. Plain(reconcileNATSStream(s), s, {"stream"})
  BY PlainCall DEF reconcileNATSStream, EnsureStream, DeleteStream, Put, Remove
<1>4. Plain(reconcileCDC(s), s, {"cdc"})
  BY PlainHave DEF reconcileCDC, DesiredCDCDeployment
<1>5. Plain(Database(s), s, (({"db-cdc"} \cup ({"db"} \cup {"db-pooler"})) \cup {"stream"})
                            \cup {"cdc"})
  BY <1>1, <1>2, <1>3, <1>4, PartsFollow DEF Database
<1> QED
  BY <1>5 DEF Plain, Part

\* One call that has to do with keys.
LEMMA KeyCall ==
    ASSUME NEW s, s.pg, NEW w \in Writes,
           \/ w.do = "mint" /\ w.obj = "gotrue-jwt-keys"
           \/ w.do = "expire" /\ w.obj \in RoleKeys
           \/ w.do = "derive" /\ w.obj \in Derived
    PROVE  /\ Part(<<w>>, s, IF w.do = "mint" THEN {"gotrue-jwt-keys"} ELSE {})
           /\ w.do # "mint" => ~Does(<<w>>, "mint")
<1>1. DOMAIN <<w>> = {1} /\ <<w>>[1] = w /\ <<w>> \in Seq(CallsFor(s))
  <2>1. w \in CallsFor(s)
    BY DEF CallsFor, Fits
  <2> QED
    BY <2>1, OneCall
<1>2. KeysOrdered(<<w>>)
  BY <1>1 DEF KeysOrdered
<1>3. w.do = "mint" => "gotrue-jwt-keys" \in Touched(<<w>>)
  BY <1>1 DEF Touched
<1> QED
  BY <1>1, <1>2, <1>3 DEF Part, Does

\* The keys: the pair comes first.
LEMMA KeysPart ==
    ASSUME NEW s \in StackValues
    PROVE  Part(reconcileJWTKeys(s), s, IF s.pg THEN {"gotrue-jwt-keys"} ELSE {})
<1>1. CASE ~s.pg
  BY <1>1, PlainNothing DEF reconcileJWTKeys, Plain
<1>2. CASE s.pg
  <2> DEFINE G == {"gotrue-jwt-keys"}
             NoMint(q) == Part(q, s, {}) /\ ~Does(q, "mint")
  <2>1. \A o \in RoleKeys : NoMint(Expire(o))
    BY <1>2, KeyCall DEF Expire, Writes, JwtSecrets, Derived
  <2>2. \A o \in Derived : NoMint(Derive(o))
    BY <1>2, KeyCall DEF Derive, Writes, JwtSecrets, RoleKeys
  <2>3. Part(Mint, s, G)
    BY <1>2, KeyCall DEF Mint, Writes, JwtSecrets
  <2>4. ASSUME NEW a, NEW b, NEW T, Part(a, s, T), NoMint(b)
        PROVE  Part(a \o b, s, T) /\ (T = {} /\ ~Does(a, "mint") => NoMint(a \o b))
    <3>1. a \in Seq(CallsFor(s)) /\ b \in Seq(CallsFor(s))
      BY <2>4 DEF Part
    <3> QED
      BY <2>4, <3>1, Concatenation DEF Part
  <2>5. "service-role-key" \in RoleKeys /\ "anon-key" \in RoleKeys
        /\ "jwt-verification-key" \in Derived /\ RoleKeys \subseteq Derived
    BY DEF RoleKeys, Derived
  <2> HIDE DEF NoMint, G
  <2>6. \A o \in RoleKeys : NoMint(ensureRoleKeySecret(o))
    <3>1. \A q : NoMint(q) => Part(q, s, {}) /\ ~Does(q, "mint")
      BY DEF NoMint
    <3> QED
      BY <2>1, <2>2, <2>4, <2>5, <3>1 DEF ensureRoleKeySecret
  <2>7. Part(Mint \o ensureJWTVerificationKey, s, G)
    BY <2>2, <2>3, <2>4, <2>5 DEF ensureJWTVerificationKey
  <2>8. Part((Mint \o ensureJWTVerificationKey) \o ensureRoleKeySecret("service-role-key"), s, G)
    BY <2>4, <2>5, <2>6, <2>7
  <2>9. Part(((Mint \o ensureJWTVerificationKey) \o ensureRoleKeySecret("service-role-key"))
             \o ensureRoleKeySecret("anon-key"), s, G)
    BY <2>4, <2>5, <2>6, <2>8
  <2> QED
    BY <1>2, <2>9 DEF reconcileJWTKeys, G
<1> QED
  BY <1>1, <1>2

\* The services in the namespace and the routes to them.
LEMMA ServicesPart ==
    ASSUME NEW s \in StackValues, s.rest => s.pg
    PROVE  Part(Services(s), s,
                {"redis", "redis-svc", "project-jwt-secret", "postgrest-config", "postgrest",
                 "postgrest-svc", "postgres-meta", "postgres-meta-svc", "gotrue",
                 "gotrue-svc", "api-route", "db-route"}
                \cup (IF s.pg THEN {"gotrue-jwt-keys"} ELSE {}))
<1>1. ASSUME NEW o \in {"redis", "redis-svc"}
      PROVE  Plain(Have(s.redis, o), s, {o})
  BY PlainHave DEF StackValues, Objects, Isolators, Kept, Derivative
<1>2. ASSUME NEW o \in {"project-jwt-secret", "postgres-meta", "postgres-meta-svc", "gotrue",
                        "gotrue-svc", "db-route"}
      PROVE  Plain(Have(s.pg, o), s, {o}) /\ Plain(HaveStrict(s.pg, o), s, {o})
  BY PlainHave DEF StackValues, Objects, Isolators, Kept, Derivative
<1>3. ASSUME NEW o \in {"postgrest-config", "postgrest", "postgrest-svc", "api-route"}
      PROVE  Plain(Have(s.rest, o), s, {o}) /\ Plain(HaveStrict(s.rest, o), s, {o})
  BY PlainHave DEF StackValues, Objects, Isolators, Kept, Derivative
<1>4. Plain(reconcileRedis(s), s, {"redis"} \cup {"redis-svc"})
  BY <1>1, PartsFollow DEF reconcileRedis, DesiredRedisDeployment, DesiredRedisService
<1>5. Plain(reconcileJWTSecret(s), s, {"project-jwt-secret"})
  BY <1>2 DEF reconcileJWTSecret
<1>6. Plain(reconcilePostgREST(s), s,
            ({"postgrest-config"} \cup {"postgrest"}) \cup {"postgrest-svc"})
  BY <1>3, PartsFollow DEF reconcilePostgREST, DesiredPostgRESTConfigMap,
     DesiredPostgRESTDeployment, DesiredPostgRESTService
<1>7. Plain(reconcilePostgresMeta(s), s, {"postgres-meta"} \cup {"postgres-meta-svc"})
  BY <1>2, PartsFollow DEF reconcilePostgresMeta, DesiredPostgresMetaDeployment,
     DesiredPostgresMetaService
<1>8. Plain(reconcileGoTrue(s), s, ({} \cup {"gotrue"}) \cup {"gotrue-svc"})
  <2>1. Plain(IF s.pg THEN ensureGoTrueDBURL ELSE <<>>, s, {})
    <3>1. CASE s.pg
      <4>1. Plain(Put("gotrue-db-url"), s, {"gotrue-db-url"})
        BY <3>1, PlainCall DEF Put, Objects, Kept
      <4> QED
        BY <3>1, <4>1 DEF ensureGoTrueDBURL, Plain, Part
    <3> QED
      BY <3>1, PlainNothing
  <2> QED
    BY <1>2, <2>1, PartsFollow DEF reconcileGoTrue, DesiredGoTrueDeployment,
       DesiredGoTrueService
<1>9. Plain(reconcileHTTPRoute(s), s, {"api-route"})
  BY <1>3 DEF reconcileHTTPRoute, DesiredHTTPRoute
<1>10. Plain(reconcileTLSRoute(s), s, {"db-route"})
  BY <1>2 DEF reconcileTLSRoute, DesiredTLSRoute
<1> DEFINE A == reconcileRedis(s) \o reconcileJWTSecret(s) \o reconcileJWTKeys(s)
           T == ({"redis"} \cup {"redis-svc"}) \cup {"project-jwt-secret"}
                \cup (IF s.pg THEN {"gotrue-jwt-keys"} ELSE {})
           B == A \o reconcilePostgREST(s) \o reconcilePostgresMeta(s)
           U == (T \cup (({"postgrest-config"} \cup {"postgrest"}) \cup {"postgrest-svc"}))
                \cup ({"postgres-meta"} \cup {"postgres-meta-svc"})
           V == U \cup (({} \cup {"gotrue"}) \cup {"gotrue-svc"})
<1>11. Part(A, s, T)
  BY <1>4, <1>5, KeysPart, PartsFollow
<1> HIDE DEF A, T
<1>12. Part(B, s, U)
  BY <1>6, <1>7, <1>11, PartsFollow
<1> HIDE DEF B, U
<1>13. Part(B \o reconcileGoTrue(s), s, V)
  BY <1>8, <1>12, PartsFollow
<1> HIDE DEF V
<1>14. Part(B \o reconcileGoTrue(s) \o reconcileHTTPRoute(s), s, V \cup {"api-route"})
  BY <1>9, <1>13, PartsFollow
<1>15. Part(B \o reconcileGoTrue(s) \o reconcileHTTPRoute(s) \o reconcileTLSRoute(s), s,
            (V \cup {"api-route"}) \cup {"db-route"})
  BY <1>10, <1>14, PartsFollow
<1> QED
  BY <1>15 DEF Services, A, B, T, U, V, Part

\* The plan for a stack: it is made of calls that fit the stack, derives keys after
\* it has their pair, which it makes when there is a database, and decides on every
\* object but those others own.
LEMMA PlanFacts ==
    ASSUME NEW s \in StackValues, s.rest => s.pg
    PROVE  /\ Plan(s) \in Seq(CallsFor(s))
           /\ KeysOrdered(Plan(s))
           /\ Objects \ Derivative \subseteq Touched(Plan(s))
           /\ s.pg => Does(Plan(s), "mint")
<1> DEFINE T == {"db-cdc", "db", "db-pooler", "stream", "cdc"}
           U == {"redis", "redis-svc", "project-jwt-secret", "postgrest-config", "postgrest",
                 "postgrest-svc", "postgres-meta", "postgres-meta-svc", "gotrue",
                 "gotrue-svc", "api-route", "db-route"}
           G == IF s.pg THEN {"gotrue-jwt-keys"} ELSE {}
<1>1. Part(Services(s), s, U \cup G)
  BY ServicesPart
<1>2. Plain(Isolation, s, Isolators) /\ Plain(Database(s), s, T)
  BY IsolationPart, DatabasePart
<1>3. Objects \ Derivative \subseteq Isolators \cup T \cup U
  BY DEF Objects, Derivative
<1> HIDE DEF T, U
<1>4. Part(Plan(s), s, (Isolators \cup T) \cup (U \cup G))
  BY <1>1, <1>2, PartsFollow DEF Plan
<1>5. ASSUME s.pg
      PROVE  Does(Plan(s), "mint")
  <2>1. PICK i \in DOMAIN Plan(s) : Plan(s)[i].obj = "gotrue-jwt-keys"
    BY <1>4, <1>5 DEF Part, Touched
  <2>2. Plan(s)[i] \in CallsFor(s)
    BY <1>4 DEF Part
  <2>3. Plan(s)[i].do = "mint"
    BY <2>1, <2>2 DEF CallsFor, Fits, Writes, Kept, Isolators, Objects, Derived, RoleKeys
  <2> QED
    BY <2>3 DEF Does
<1> QED
  BY <1>3, <1>4, <1>5 DEF Part

-----------------------------------------------------------------------------
(* The informer's copies, the worker's copy, and what is gone. *)

\* TypeOK, in the variables that control the worker and in the others (ClusterOK);
\* the invariant about the former.
CRsOK == gone \subseteq Projects /\ cr \in [Projects -> CRs] /\ seen \in [Projects -> CRs]
ControlOK == CRsOK /\ op \in [pc : PCs, p : Projects, cr : CRs, todo : Seq(Writes)]
Control == SeenInv /\ OpInv /\ GoneInv

\* The fields of a Project.
LEMMA Fields ==
    ASSUME NEW c \in CRs
    PROVE  /\ c.st \in States /\ c.fin \in BOOLEAN /\ c.gen \in 1..MaxGen
           /\ c.stack \in StackValues /\ c.phase \in Phases /\ c.obs \in 0..MaxGen
           /\ c.gen \in Nat /\ c.obs \in Nat
BY ParametersAssumption DEF CRs

\* The Project and the worker there are at first.
LEMMA Initially ==
    /\ NoProject \in CRs /\ NoProject.st = "none" /\ NoProject.phase = ""
    /\ NoProject.obs = 0 /\ NoProject.gen = 1 /\ ~NoProject.fin
    /\ Idle \in [pc : PCs, p : Projects, cr : CRs, todo : Seq(Writes)]
    /\ Idle.pc = "idle" /\ Idle.todo = <<>>
<1>1. /\ NoProject \in CRs /\ NoProject.st = "none" /\ NoProject.phase = ""
      /\ NoProject.obs = 0 /\ NoProject.gen = 1 /\ ~NoProject.fin
  <2>1. \E s : s \in StackValues
    <3>1. [pg |-> TRUE, pooler |-> TRUE, redis |-> TRUE, rest |-> TRUE] \in StackValues
      BY DEF StackValues
    <3> QED
      BY <3>1
  <2>2. (CHOOSE s \in StackValues : TRUE) \in StackValues
    BY <2>1
  <2> QED
    BY <2>2, ParametersAssumption DEF NoProject, CRs, States, Phases
<1>2. (CHOOSE p \in Projects : TRUE) \in Projects
  BY ParametersAssumption
<1>3. <<>> \in Seq(Writes)
  OBVIOUS
<1> HIDE DEF NoProject
<1> QED
  BY <1>1, <1>2, <1>3 DEF Idle, PCs

\* A stack a project may take is one that CreateProject accepts.
LEMMA SoundStacks ==
    ASSUME NEW p \in Projects, stacks \in Scenarios, NEW s \in stacks[p]
    PROVE  s \in StackValues /\ (s.rest => s.pg)
<1>1. stacks[p] \subseteq {x \in StackValues : x.rest => x.pg}
  BY ParametersAssumption
<1> QED
  BY <1>1

\* What a user makes of a Project c: another state or a later generation.
Used(c, d) ==
    /\ Sound(d) /\ d.phase = c.phase /\ d.obs = c.obs
    /\ \/ c.st = "none" /\ d.st = "live" /\ d.gen = c.gen
       \/ c.st = "live" /\ d.st = "live" /\ d.gen = c.gen + 1
       \/ c.st = "live" /\ d.st \in {"deleting", "gone"} /\ d.gen = c.gen /\ d.stack = c.stack

\* A user's step does that to one Project.
LEMMA UserStep ==
    ASSUME CRsOK, stacks \in Scenarios, SeenInv, NEW p \in Projects,
           CreateProject(p) \/ EditStack(p) \/ DeleteProject(p)
    PROVE  /\ CRsOK'
           /\ \A q \in Projects \ {p} : cr'[q] = cr[q]
           /\ Used(cr[p], cr'[p])
<1> DEFINE c == cr[p]
<1>1. c \in CRs
  BY DEF CRsOK
<1>2. CASE CreateProject(p)
  <2>1. PICK s \in stacks[p] : cr' = [cr EXCEPT ![p].st = "live", ![p].stack = s]
    BY <1>2 DEF CreateProject
  <2>2. s \in StackValues /\ (s.rest => s.pg)
    BY <2>1, SoundStacks
  <2> DEFINE d == [[c EXCEPT !.st = "live"] EXCEPT !.stack = s]
  <2>3. cr' = [cr EXCEPT ![p] = d]
    BY <2>1 DEF CRsOK
  <2>4. d \in CRs /\ d.st = "live" /\ d.stack = s /\ d.gen = c.gen /\ d.phase = c.phase /\ d.obs = c.obs
    BY <1>1, <2>2 DEF CRs, States
  <2> HIDE DEF d
  <2>5. cr'[p] = d /\ (\A q \in Projects \ {p} : cr'[q] = cr[q]) /\ CRsOK'
    BY <1>2, <2>3, <2>4 DEF CRsOK, CreateProject, cluster
  <2> QED
    BY <1>2, <2>2, <2>4, <2>5 DEF Used, Sound, CreateProject
<1>3. CASE EditStack(p)
  <2>1. PICK s \in stacks[p] : cr' = [cr EXCEPT ![p].stack = s, ![p].gen = @ + 1]
    BY <1>3 DEF EditStack
  <2>2. s \in StackValues /\ (s.rest => s.pg)
    BY <2>1, SoundStacks
  <2> DEFINE d == [[c EXCEPT !.stack = s] EXCEPT !.gen = c.gen + 1]
  <2>3. cr' = [cr EXCEPT ![p] = d]
    BY <2>1 DEF CRsOK
  <2>4. c.gen \in Nat /\ c.gen < MaxGen /\ c.gen + 1 \in 1..MaxGen
    BY <1>1, <1>3, Fields, ParametersAssumption DEF EditStack
  <2>5. d \in CRs /\ d.st = c.st /\ d.stack = s /\ d.gen = c.gen + 1 /\ d.phase = c.phase /\ d.obs = c.obs
    BY <1>1, <2>2, <2>4 DEF CRs, States
  <2> HIDE DEF d
  <2>6. cr'[p] = d /\ (\A q \in Projects \ {p} : cr'[q] = cr[q]) /\ CRsOK'
    BY <1>3, <2>3, <2>5 DEF CRsOK, EditStack, cluster
  <2> QED
    BY <1>3, <2>2, <2>5, <2>6 DEF Used, Sound, EditStack, Live
<1>4. CASE DeleteProject(p)
  <2> DEFINE d == [c EXCEPT !.st = IF cr[p].fin THEN "deleting" ELSE "gone"]
  <2>1. cr' = [cr EXCEPT ![p] = d]
    BY <1>4 DEF CRsOK, DeleteProject
  <2>2. d \in CRs /\ d.st \in {"deleting", "gone"} /\ d.stack = c.stack /\ d.gen = c.gen /\ d.phase = c.phase /\ d.obs = c.obs
    BY <1>1 DEF CRs, States
  <2> HIDE DEF d
  <2>3. cr'[p] = d /\ (\A q \in Projects \ {p} : cr'[q] = cr[q]) /\ CRsOK'
    BY <1>4, <2>1, <2>2 DEF CRsOK, DeleteProject, cluster
  <2> QED
    BY <1>4, <2>2, <2>3 DEF Used, Sound, DeleteProject, Live, SeenInv, Earlier
<1> QED
  BY <1>2, <1>3, <1>4

\* A user's step leaves an earlier version of a Project an earlier one.
LEMMA UsedEarlier ==
    ASSUME NEW k \in CRs, NEW c \in CRs, NEW d \in CRs, Used(c, d), Earlier(k, c)
    PROVE  /\ Earlier(k, d)
           /\ \A pc, v : Works(pc, v, k, c) => Works(pc, v, k, d)
<1>1. c.gen \in Nat /\ c.obs \in Nat /\ d.gen \in Nat /\ k.gen \in Nat
  BY Fields
<1>2. c.obs <= c.gen /\ d.obs = c.obs /\ (d.gen = c.gen \/ d.gen = c.gen + 1)
  BY DEF Earlier, Used
<1>3. d.obs <= d.gen /\ (d.obs = d.gen => c.obs = c.gen /\ c.gen = d.gen)
  BY <1>1, <1>2
<1>4. k.gen <= c.gen => k.gen <= d.gen /\ (k.gen = d.gen => d.gen = c.gen)
  BY <1>1, <1>2
<1>5. Sound(d) /\ Sound(k) /\ d.phase = c.phase /\ (c.obs = c.gen => k.gen = c.gen)
  BY DEF Earlier, Used
<1>6. k.st # "none" => k.gen <= d.gen /\ (k.gen = d.gen => k.stack = d.stack)
  <2>1. k.st # "none" => k.gen <= c.gen /\ (k.gen = c.gen => k.stack = c.stack) /\ c.st # "none"
    BY DEF Earlier
  <2>2. ASSUME d.gen = c.gen, c.st # "none"
        PROVE  d.stack = c.stack
    <3>1. c.gen # c.gen + 1
      BY <1>1
    <3> QED
      BY <2>2, <3>1 DEF Used
  <2> QED
    BY <1>4, <2>1, <2>2
<1>7. /\ d.st = "none" => k.st = "none"
      /\ d.st = "live" => k.st \in {"none", "live"}
      /\ d.st = "deleting" => k.st # "gone"
      /\ k.st = "none" => c.phase = "" /\ c.obs = 0
  BY DEF Earlier, Used
<1>8. Earlier(k, d)
  BY <1>2, <1>3, <1>5, <1>6, <1>7 DEF Earlier
<1> QED
  BY <1>3, <1>8 DEF Works

\* The informer's copy may be replaced by the Project itself.
LEMMA CaughtUp ==
    ASSUME NEW k \in CRs, NEW c \in CRs, Earlier(k, c)
    PROVE  /\ Earlier(c, c)
           /\ \A pc, v : v \in CRs /\ Works(pc, v, k, c) => Works(pc, v, c, c)
           /\ k.st \in {"deleting", "gone"} => c.st \in {"deleting", "gone"}
<1>1. c.gen \in Nat /\ k.gen \in Nat /\ c.st \in States
  BY Fields
<1>2. c.st = "none" => c.phase = "" /\ c.obs = 0
  BY DEF Earlier
<1>3. c.gen <= c.gen /\ c.obs <= c.gen
  <2>1. c.obs <= c.gen
    BY DEF Earlier
  <2> QED
    BY <1>1, <2>1
<1>4. Earlier(c, c)
  BY <1>2, <1>3 DEF Earlier
<1>5. k.st \in {"deleting", "gone"} => c.st \in {"deleting", "gone"}
  BY <1>1 DEF Earlier, States
<1>6. ASSUME NEW pc, NEW v \in CRs, Works(pc, v, k, c)
      PROVE  Works(pc, v, c, c)
  <2>1. v.gen \in Nat /\ v.gen <= k.gen /\ (v.gen = k.gen => v.stack = k.stack)
    BY <1>6, Fields DEF Works
  <2>2. c.st # "none" /\ k.gen <= c.gen /\ (k.gen = c.gen => k.stack = c.stack)
    BY <1>6 DEF Earlier, Works
  <2>3. v.gen <= c.gen /\ (v.gen = c.gen => v.gen = k.gen /\ k.gen = c.gen)
    BY <1>1, <2>1, <2>2
  <2> QED
    BY <1>5, <1>6, <2>1, <2>2, <2>3 DEF Works
<1> QED
  BY <1>4, <1>5, <1>6

\* A user's step leaves what the informer and the worker have behind it.
LEMMA UsersControl ==
    ASSUME ControlOK, stacks \in Scenarios, Control, NEW p \in Projects,
           CreateProject(p) \/ EditStack(p) \/ DeleteProject(p)
    PROVE  ControlOK' /\ Control'
<1>1. seen' = seen /\ op' = op /\ gone' = gone
  BY DEF CreateProject, EditStack, DeleteProject, cluster
<1>2. CRsOK' /\ (\A q \in Projects \ {p} : cr'[q] = cr[q]) /\ Used(cr[p], cr'[p])
  BY UserStep DEF Control, ControlOK
<1>3. \A q \in Projects : cr[q] \in CRs /\ cr'[q] \in CRs /\ seen[q] \in CRs /\ op.p \in Projects
  BY <1>2 DEF CRsOK, ControlOK
<1>4. ASSUME NEW q \in Projects
      PROVE  /\ Earlier(seen[q], cr'[q])
             /\ \A pc, v : Works(pc, v, seen[q], cr[q]) => Works(pc, v, seen[q], cr'[q])
  <2>1. Earlier(seen[q], cr[q])
    BY DEF Control, SeenInv
  <2>2. CASE q # p
    BY <1>2, <2>1, <2>2
  <2>3. CASE q = p
    BY <1>2, <1>3, <2>1, <2>3, UsedEarlier
  <2> QED
    BY <2>2, <2>3
<1>5. SeenInv' /\ OpInv' /\ GoneInv'
  BY <1>1, <1>3, <1>4 DEF Control, SeenInv, OpInv, GoneInv, At
<1> QED
  BY <1>1, <1>2, <1>5 DEF Control, ControlOK

\* The informer catches up.
LEMMA SyncControl ==
    ASSUME ControlOK, Control, NEW p \in Projects, Sync(p)
    PROVE  ControlOK' /\ Control'
<1>1. cr' = cr /\ op' = op /\ gone' = gone /\ seen'[p] = cr[p]
      /\ \A q \in Projects \ {p} : seen'[q] = seen[q]
  BY DEF Sync, cluster, CRsOK, ControlOK
<1>2. ControlOK'
  BY DEF Sync, CRsOK, cluster, ControlOK
<1>3. /\ \A q \in Projects : cr[q] \in CRs /\ seen[q] \in CRs
      /\ op.p \in Projects /\ op.cr \in CRs /\ gone \subseteq Projects
  BY DEF CRsOK, ControlOK
<1>4. ASSUME NEW q \in Projects
      PROVE  /\ Earlier(seen'[q], cr[q])
             /\ \A pc, v : v \in CRs /\ Works(pc, v, seen[q], cr[q]) => Works(pc, v, seen'[q], cr[q])
             /\ seen[q].st \in {"deleting", "gone"} => seen'[q].st \in {"deleting", "gone"}
  <2>1. Earlier(seen[q], cr[q])
    BY DEF Control, SeenInv
  <2>2. CASE q # p
    BY <1>1, <2>1, <2>2
  <2>3. CASE q = p
    <3>1. seen'[q] = cr[q]
      BY <1>1, <2>3
    <3> QED
      BY <1>3, <2>1, <3>1, CaughtUp
  <2> QED
    BY <2>2, <2>3
<1>5. SeenInv' /\ OpInv' /\ GoneInv'
  BY <1>1, <1>3, <1>4 DEF Control, SeenInv, OpInv, GoneInv, At
<1> QED
  BY <1>2, <1>5 DEF Control

\* A copy the worker writes back: the same generation, with a phase, with what
\* was observed of it, or released.
Rewrites(v, d) ==
    /\ d.gen = v.gen /\ d.stack = v.stack /\ d.obs \in {v.obs, v.gen}
    /\ d.st = v.st \/ (v.st = "deleting" /\ d.st = "gone")

\* What the worker writes leaves what the informer has behind it.
LEMMA RewriteEarlier ==
    ASSUME NEW k \in CRs, NEW c \in CRs, NEW d \in CRs, NEW pc,
           Earlier(k, c), Works(pc, c, k, c), Rewrites(c, d)
    PROVE  /\ Earlier(k, d)
           /\ \A qc : Works(qc, d, k, d) <=>
                 /\ qc \in {"finalizer", "gate", "apply"} => d.st = "live"
                 /\ qc = "apply" => d.phase # ""
                 /\ qc \in {"stream", "namespace", "release"} =>
                       d.st = "deleting" /\ k.st \in {"deleting", "gone"}
<1>1. c.gen \in Nat /\ c.obs \in Nat /\ k.gen \in Nat
  BY Fields
<1>2. /\ k.st # "none" /\ c.st # "none" /\ c.gen <= k.gen /\ k.gen <= c.gen
      /\ c.stack = k.stack
      /\ c.obs <= c.gen
  <2>1. /\ k.st # "none" /\ c.st # "none" /\ c.gen <= k.gen /\ k.gen <= c.gen
        /\ c.obs <= c.gen /\ (c.gen = k.gen => c.stack = k.stack)
    BY DEF Earlier, Works
  <2>2. c.gen = k.gen
    BY <1>1, <2>1
  <2> QED
    BY <2>1, <2>2
<1>3. c.gen = k.gen /\ d.gen = k.gen /\ d.gen <= k.gen /\ k.gen <= d.gen /\ d.obs <= d.gen
  <2>1. d.gen = c.gen /\ d.obs \in {c.obs, c.gen}
    BY DEF Rewrites
  <2> QED
    BY <1>1, <1>2, <2>1
<1>4. Sound(d) /\ d.stack = k.stack /\ d.st # "none"
  BY <1>2 DEF Rewrites, Sound, Earlier
<1>5. /\ d.st = "live" => k.st \in {"none", "live"}
      /\ d.st = "deleting" => k.st # "gone"
      /\ Sound(k)
  BY DEF Rewrites, Earlier
<1>6. Earlier(k, d)
  BY <1>2, <1>3, <1>4, <1>5 DEF Earlier
<1> QED
  BY <1>2, <1>3, <1>4, <1>6 DEF Works

\* A write of the worker's copy, after which the worker is idle or goes on with what
\* it wrote.
LEMMA WriteControl ==
    ASSUME ControlOK, Control, ~At("idle"), NEW d \in CRs, NEW next,
           Rewrites(op.cr, d), Write(d, next), seen' = seen, gone' = gone,
           \/ next = Idle
           \/ /\ next \in [pc : PCs \ {"idle"}, p : {op.p}, cr : CRs, todo : Seq(Writes)]
              /\ next.pc \in {"finalizer", "gate", "apply"} =>
                    op.pc \in {"finalizer", "gate", "apply"} /\ d.st = "live"
              /\ next.pc \in {"stream", "namespace", "release"} =>
                    op.pc \in {"stream", "namespace", "release"} /\ d.st = "deleting"
              /\ next.pc = "apply" => d.phase # ""
    PROVE  ControlOK' /\ Control'
<1> DEFINE p == op.p
<1>1. /\ p \in Projects /\ op.cr \in CRs /\ cr[p] \in CRs /\ seen[p] \in CRs
      /\ Earlier(seen[p], cr[p]) /\ Works(op.pc, op.cr, seen[p], cr[p])
      /\ op.pc \in {"finalizer", "gate", "apply"} => p \notin gone
  BY DEF ControlOK, CRsOK, Control, SeenInv, OpInv
<1>2. CASE op.cr # cr[p]
  <2>1. op' = Idle /\ cr' = cr
    BY <1>2 DEF Write
  <2>2. ControlOK'
    BY <2>1, Initially DEF ControlOK, CRsOK
  <2>3. ~At("idle")' => FALSE
    BY <2>1, Initially DEF At
  <2> QED
    BY <2>1, <2>2, <2>3 DEF Control, SeenInv, OpInv, GoneInv
<1>3. CASE op.cr = cr[p]
  <2>1. /\ cr' = [cr EXCEPT ![p] = d]
        /\ op' = IF next = Idle THEN Idle ELSE [next EXCEPT !.cr = d]
    BY <1>3 DEF Write
  <2>2. cr'[p] = d /\ (\A q \in Projects \ {p} : cr'[q] = cr[q]) /\ cr' \in [Projects -> CRs]
    BY <1>1, <2>1 DEF ControlOK, CRsOK
  <2>3. /\ Earlier(seen[p], d)
        /\ \A qc : Works(qc, d, seen[p], d) <=>
                 /\ qc \in {"finalizer", "gate", "apply"} => d.st = "live"
                 /\ qc = "apply" => d.phase # ""
                 /\ qc \in {"stream", "namespace", "release"} =>
                       d.st = "deleting" /\ seen[p].st \in {"deleting", "gone"}
    <3> DEFINE c == cr[p]
               k == seen[p]
    <3>1. c \in CRs /\ k \in CRs /\ Earlier(k, c) /\ Works(op.pc, c, k, c) /\ Rewrites(c, d)
      BY <1>1, <1>3
    <3> HIDE DEF c, k, p
    <3>2. /\ Earlier(k, d)
          /\ \A qc : Works(qc, d, k, d) <=>
                 /\ qc \in {"finalizer", "gate", "apply"} => d.st = "live"
                 /\ qc = "apply" => d.phase # ""
                 /\ qc \in {"stream", "namespace", "release"} =>
                       d.st = "deleting" /\ k.st \in {"deleting", "gone"}
      BY <3>1, RewriteEarlier
    <3> QED
      BY <3>2 DEF k
  <2>4. SeenInv'
    <3> SUFFICES ASSUME NEW q \in Projects
                 PROVE  Earlier(seen[q], cr'[q])
      BY DEF SeenInv
    <3>1. CASE q = p
      BY <2>2, <2>3, <3>1
    <3>2. CASE q # p
      BY <2>2, <3>2 DEF Control, SeenInv
    <3> QED
      BY <3>1, <3>2
  <2>5. CASE next = Idle
    <3>1. op' = Idle
      BY <2>1, <2>5
    <3>2. ControlOK'
      BY <2>2, <3>1, Initially DEF ControlOK, CRsOK
    <3>3. ~At("idle")' => FALSE
      BY <3>1, Initially DEF At
    <3> QED
      BY <2>4, <3>2, <3>3 DEF Control, OpInv, GoneInv
  <2>6. CASE next # Idle
    <3>1. op' = [next EXCEPT !.cr = d]
      BY <2>1, <2>6
    <3>2. /\ op' \in [pc : PCs, p : Projects, cr : CRs, todo : Seq(Writes)]
          /\ op'.pc = next.pc /\ op'.p = p /\ op'.cr = d
      BY <1>1, <2>6, <3>1
    <3>3. ControlOK'
      BY <2>2, <3>2 DEF ControlOK, CRsOK
    <3>4. Works(op'.pc, d, seen[p], d)
      <4>1. /\ op'.pc \in {"finalizer", "gate", "apply"} => d.st = "live"
            /\ op'.pc = "apply" => d.phase # ""
        BY <2>6, <3>2
      <4>2. op'.pc \in {"stream", "namespace", "release"} =>
               d.st = "deleting" /\ seen[p].st \in {"deleting", "gone"}
        BY <1>1, <2>6, <3>2 DEF Works
      <4> QED
        BY <2>3, <4>1, <4>2
    <3>5. op'.pc \in {"finalizer", "gate", "apply"} => p \notin gone
      BY <1>1, <2>6, <3>2
    <3>6. OpInv'
      BY <2>2, <3>2, <3>4, <3>5 DEF OpInv
    <3> QED
      BY <2>4, <3>3, <3>6 DEF Control, GoneInv
  <2> QED
    BY <2>5, <2>6
<1> QED
  BY <1>2, <1>3

\* The plan of the worker's copy is a sequence of writes.
LEMMA PlanOfCopy ==
    ASSUME ControlOK, Control, ~At("idle")
    PROVE  /\ Plan(op.cr.stack) \in Seq(CallsFor(op.cr.stack))
           /\ Plan(op.cr.stack) \in Seq(Writes)
           /\ KeysOrdered(Plan(op.cr.stack))
           /\ op.cr.stack \in StackValues
           /\ Objects \ Derivative \subseteq Touched(Plan(op.cr.stack))
           /\ op.cr.stack.pg => Does(Plan(op.cr.stack), "mint")
<1> DEFINE s == op.cr.stack
<1>1. s \in StackValues /\ (s.rest => s.pg)
  <2>1. op.cr \in CRs
    BY DEF ControlOK
  <2>2. op.cr.st # "none" /\ Sound(op.cr)
    BY DEF Control, OpInv, Works
  <2> QED
    BY <2>1, <2>2, Fields DEF Sound
<1>2. CallsFor(s) \subseteq Writes
  BY DEF CallsFor
<1>3. \A q : q \in Seq(CallsFor(s)) => q \in Seq(Writes)
  BY <1>2
<1> HIDE DEF s
<1>4. /\ Plan(s) \in Seq(CallsFor(s)) /\ KeysOrdered(Plan(s))
      /\ Objects \ Derivative \subseteq Touched(Plan(s))
      /\ s.pg => Does(Plan(s), "mint")
  BY <1>1, PlanFacts
<1> QED
  BY <1>1, <1>3, <1>4 DEF s

\* The worker takes a Project up.
LEMMA StartControl ==
    ASSUME ControlOK, Control, NEW p \in Projects, Start(p)
    PROVE  ControlOK' /\ Control'
<1> DEFINE k == seen[p]
           pc == IF k.st = "deleting" THEN "stream" ELSE IF k.fin THEN "gate" ELSE "finalizer"
<1>1. /\ cr' = cr /\ seen' = seen /\ gone' = gone
      /\ op' = [Idle EXCEPT !.pc = pc, !.p = p, !.cr = k]
      /\ k.st = "live" \/ k.st = "deleting"
  BY DEF Start, cluster
<1>2. k \in CRs /\ cr[p] \in CRs /\ Earlier(k, cr[p])
  BY DEF ControlOK, CRsOK, Control, SeenInv
<1>3. pc \in PCs /\ pc \in {"stream", "gate", "finalizer"}
      /\ (pc = "stream" <=> k.st = "deleting")
  BY DEF PCs
<1> HIDE DEF pc
<1>4. /\ op' \in [pc : PCs, p : Projects, cr : CRs, todo : Seq(Writes)]
      /\ op'.pc = pc /\ op'.p = p /\ op'.cr = k
  BY <1>1, <1>2, <1>3, Initially
<1>5. Works(pc, k, k, cr[p])
  <2>1. k.gen \in Nat /\ k.gen <= k.gen
    BY <1>2, Fields
  <2>2. Sound(k) /\ (cr[p].obs = cr[p].gen => k.gen = cr[p].gen)
    BY <1>2 DEF Earlier
  <2> QED
    BY <1>1, <1>3, <2>1, <2>2 DEF Works
<1>6. pc \in {"finalizer", "gate", "apply"} => p \notin gone
  BY <1>1, <1>3 DEF Control, GoneInv
<1> QED
  BY <1>1, <1>4, <1>5, <1>6 DEF Control, ControlOK, CRsOK, SeenInv, OpInv, GoneInv

\* A step after which the worker is idle, that writes nothing.
LEMMA StopControl ==
    ASSUME ControlOK, Control, op' = Idle, cr' = cr, seen' = seen, gone' = gone
    PROVE  ControlOK' /\ Control'
<1>1. At("idle")'
  BY Initially DEF At
<1> QED
  BY <1>1, Initially DEF ControlOK, CRsOK, Control, SeenInv, OpInv, GoneInv

\* A step of the worker that writes nothing, to a place of the same kind.
LEMMA MoveControl ==
    ASSUME ControlOK, Control, ~At("idle"), cr' = cr, seen' = seen,
           \/ gone' = gone
           \/ gone' = gone \cup {op.p} /\ At("namespace"),
           op' \in [pc : PCs, p : {op.p}, cr : {op.cr}, todo : Seq(Writes)],
           op'.pc \in {"finalizer", "gate", "apply"} => op.pc \in {"finalizer", "gate", "apply"},
           op'.pc = "apply" => op.cr.phase # "",
           op'.pc \in {"stream", "namespace", "release"} =>
               op.pc \in {"stream", "namespace", "release"},
           At("namespace") => op'.pc = "release"
    PROVE  ControlOK' /\ Control'
<1>1. op'.p = op.p /\ op'.cr = op.cr /\ op'.pc \in PCs
  OBVIOUS
<1>2. op' \in [pc : PCs, p : Projects, cr : CRs, todo : Seq(Writes)]
  BY DEF ControlOK
<1>3. Works(op.pc, op.cr, seen[op.p], cr[op.p])
  BY DEF Control, OpInv
<1>4. Works(op'.pc, op.cr, seen[op.p], cr[op.p])
  BY <1>3 DEF Works
<1>5. op'.pc \in {"finalizer", "gate", "apply"} => op.p \notin gone'
  BY DEF Control, OpInv, At
<1>6. At("namespace") => seen[op.p].st \in {"deleting", "gone"}
  BY <1>3 DEF Works, At
<1>7. gone' \subseteq Projects
  BY DEF ControlOK, CRsOK
<1> QED
  BY <1>1, <1>2, <1>4, <1>5, <1>6, <1>7 DEF ControlOK, CRsOK, Control, SeenInv, OpInv, GoneInv

\* The worker's other steps.
LEMMA WorkerControl ==
    ASSUME ControlOK, Control,
           \/ Steps \/ CallMissed \/ setFailed \/ Abandon \/ NamespaceUnseen
           \/ \E allReady \in BOOLEAN : updateStatus(allReady)
    PROVE  ControlOK' /\ Control'
<1>1. /\ op \in [pc : PCs, p : Projects, cr : CRs, todo : Seq(Writes)] /\ op.cr \in CRs
      /\ op.todo \in Seq(Writes)
  BY DEF ControlOK
<1>2. ~At("idle") => Works(op.pc, op.cr, seen[op.p], cr[op.p])
  BY DEF Control, OpInv
<1>3. ASSUME NEW ph \in Phases
      PROVE  LET d == [op.cr EXCEPT !.phase = ph]
             IN  d \in CRs /\ d.phase = ph /\ d.st = op.cr.st /\ Rewrites(op.cr, d)
  BY <1>1 DEF CRs, Rewrites
<1>4. CASE AddFinalizer
  <2> DEFINE d == [op.cr EXCEPT !.fin = TRUE]
             next == [op EXCEPT !.pc = "gate"]
  <2>1. Write(d, next) /\ At("finalizer") /\ seen' = seen /\ gone' = gone
    BY <1>4 DEF AddFinalizer, cluster
  <2>2. d \in CRs /\ d.st = op.cr.st /\ Rewrites(op.cr, d)
    BY <1>1 DEF CRs, Rewrites
  <2>3. next \in [pc : PCs \ {"idle"}, p : {op.p}, cr : CRs, todo : Seq(Writes)] /\ next.pc = "gate"
    BY <1>1 DEF PCs
  <2>4. d.st = "live" /\ op.pc = "finalizer"
    BY <1>2, <2>1, <2>2 DEF At, Works
  <2> HIDE DEF d, next
  <2> QED
    BY <2>1, <2>2, <2>3, <2>4, WriteControl DEF At
<1>5. CASE Queue
  <2>1. op' = Idle /\ cr' = cr /\ seen' = seen /\ gone' = gone
    BY <1>5 DEF Queue, WritePhase, AdmittedPhases, cluster
  <2> QED
    BY <2>1, StopControl
<1>6. CASE StartProvisioning
  <2> DEFINE next == [op EXCEPT !.pc = "apply", !.todo = Plan(op.cr.stack)]
             d == [op.cr EXCEPT !.phase = "Provisioning"]
  <2>1. At("gate") /\ seen' = seen /\ gone' = gone
    BY <1>6 DEF StartProvisioning, cluster
  <2>2. ~At("idle") /\ op.pc = "gate" /\ op.cr.st = "live"
    BY <1>2, <2>1 DEF At, Works
  <2>3. Plan(op.cr.stack) \in Seq(Writes)
    BY <2>2, PlanOfCopy
  <2>4. /\ next \in [pc : PCs \ {"idle"}, p : {op.p}, cr : {op.cr}, todo : Seq(Writes)]
        /\ next.pc = "apply"
    BY <1>1, <2>3 DEF PCs
  <2>5. d \in CRs /\ d.phase = "Provisioning" /\ d.st = op.cr.st /\ Rewrites(op.cr, d)
    BY <1>3 DEF Phases
  <2>6. CASE op.cr.phase \in {"", "Pending", "Queued"}
    <3>1. Write(d, next)
      BY <1>6, <2>6 DEF StartProvisioning, WritePhase, AdmittedPhases
    <3>2. next \in [pc : PCs \ {"idle"}, p : {op.p}, cr : CRs, todo : Seq(Writes)]
      BY <1>1, <2>4
    <3> HIDE DEF d, next
    <3> QED
      BY <2>1, <2>2, <2>4, <2>5, <3>1, <3>2, WriteControl
  <2>7. CASE op.cr.phase \notin {"", "Pending", "Queued"}
    <3>1. op' = next /\ cr' = cr
      BY <1>6, <2>7 DEF StartProvisioning
    <3> HIDE DEF d, next
    <3>2. op' \in [pc : PCs, p : {op.p}, cr : {op.cr}, todo : Seq(Writes)] /\ op'.pc = "apply"
      BY <2>4, <3>1
    <3> QED
      BY <2>1, <2>2, <2>7, <3>1, <3>2, MoveControl DEF At
  <2> QED
    BY <2>6, <2>7
<1>7. CASE Calls \/ CallMissed
  <2>1. PICK i \in DOMAIN op.todo : op' = After(i)
    BY <1>7 DEF Calls, CallMissed
  <2>2. At("apply") /\ cr' = cr /\ seen' = seen /\ gone' = gone
    BY <1>7 DEF Calls, CallMissed, Apply, MintKeys, DeriveKey, ExpireKey, DropFails
  <2>3. SubSeq(op.todo, i + 1, Len(op.todo)) \in Seq(Writes)
    BY <1>1, SubSeqProperties
  <2>4. op' \in [pc : PCs, p : {op.p}, cr : {op.cr}, todo : Seq(Writes)] /\ op'.pc = op.pc
    BY <1>1, <2>1, <2>3 DEF After
  <2>5. op.cr.phase # ""
    BY <1>2, <2>2 DEF At, Works
  <2> QED
    BY <2>2, <2>4, <2>5, MoveControl DEF At
<1>8. CASE \E allReady \in BOOLEAN : updateStatus(allReady)
  <2>1. PICK allReady \in BOOLEAN : updateStatus(allReady)
    BY <1>8
  <2> DEFINE ph == IF allReady THEN "Ready" ELSE "Provisioning"
             d == [op.cr EXCEPT !.phase = ph, !.obs = op.cr.gen]
  <2>2. At("apply") /\ Write(d, Idle) /\ seen' = seen /\ gone' = gone
    BY <2>1 DEF updateStatus, cluster
  <2>3. ph \in Phases
    BY DEF Phases
  <2> HIDE DEF ph
  <2>4. op.cr.gen \in 0..MaxGen
    BY <1>1, Fields, ParametersAssumption
  <2>5. d \in CRs /\ Rewrites(op.cr, d)
    BY <1>1, <2>3, <2>4 DEF CRs, Rewrites
  <2> HIDE DEF d
  <2> QED
    BY <2>2, <2>5, WriteControl DEF At
<1>9. CASE setFailed
  <2> DEFINE d == [op.cr EXCEPT !.phase = "Failed"]
  <2>1. At("apply") /\ Write(d, Idle) /\ seen' = seen /\ gone' = gone
    BY <1>9 DEF setFailed, cluster, WritePhase, AdmittedPhases
  <2>2. d \in CRs /\ Rewrites(op.cr, d)
    BY <1>3 DEF Phases
  <2> HIDE DEF d
  <2> QED
    BY <2>1, <2>2, WriteControl DEF At
<1>10. CASE Abandon
  <2>1. op' = Idle /\ cr' = cr /\ seen' = seen /\ gone' = gone
    BY <1>10 DEF Abandon, cluster
  <2> QED
    BY <2>1, StopControl
<1>11. CASE CleanupStream \/ DeleteNamespace \/ NamespaceUnseen
  <2>1. \/ At("stream") /\ op' = [op EXCEPT !.pc = "namespace"] /\ gone' = gone
        \/ /\ At("namespace") /\ op' = [op EXCEPT !.pc = "release"]
           /\ gone' = gone \/ gone' = gone \cup {op.p}
    BY <1>11 DEF CleanupStream, DeleteNamespace, NamespaceUnseen
  <2>2. cr' = cr /\ seen' = seen
    BY <1>11 DEF CleanupStream, DeleteNamespace, NamespaceUnseen
  <2>3. /\ op' \in [pc : PCs, p : {op.p}, cr : {op.cr}, todo : Seq(Writes)]
        /\ op'.pc = IF At("stream") THEN "namespace" ELSE "release"
    BY <1>1, <2>1 DEF PCs, At
  <2> QED
    BY <2>1, <2>2, <2>3, MoveControl DEF At
<1>12. CASE RemoveFinalizer
  <2> DEFINE d == [op.cr EXCEPT !.fin = FALSE, !.st = "gone"]
  <2>1. At("release") /\ Write(d, Idle) /\ seen' = seen /\ gone' = gone
    BY <1>12 DEF RemoveFinalizer, cluster
  <2>2. op.cr.st = "deleting"
    BY <1>2, <2>1 DEF Works, At
  <2>3. d \in CRs /\ Rewrites(op.cr, d)
    BY <1>1, <2>2 DEF CRs, Rewrites, States
  <2> HIDE DEF d
  <2> QED
    BY <2>1, <2>3, WriteControl DEF At
<1> QED
  BY <1>4, <1>5, <1>6, <1>7, <1>8, <1>9, <1>10, <1>11, <1>12 DEF Steps

\* Every step keeps the copies behind the Projects.
LEMMA ControlStep ==
    ASSUME ControlOK, Control, stacks \in Scenarios, [Next]_vars
    PROVE  ControlOK' /\ Control'
<1>1. CASE \E p \in Projects : CreateProject(p) \/ EditStack(p) \/ DeleteProject(p)
  BY <1>1, UsersControl
<1>2. CASE \E p \in Projects : Sync(p)
  BY <1>2, SyncControl
<1>3. CASE \E p \in Projects : CNPG(p) \/ NamespaceTerminates(p) \/ KeyAges(p)
  <2>1. cr' = cr /\ seen' = seen /\ op' = op /\ gone' \subseteq gone
    BY <1>3 DEF CNPG, NamespaceTerminates, KeyAges
  <2> QED
    BY <2>1 DEF ControlOK, CRsOK, Control, SeenInv, OpInv, GoneInv, At
<1>4. CASE Worker
  BY <1>4, StartControl, WorkerControl DEF Worker
<1>5. CASE UNCHANGED vars
  BY <1>5 DEF vars, ControlOK, CRsOK, Control, SeenInv, OpInv, GoneInv, At
<1> QED
  BY <1>1, <1>2, <1>3, <1>4, <1>5 DEF Next, Environment

-----------------------------------------------------------------------------
(* What a call changes. *)

ClusterOK ==
    /\ stacks \in Scenarios
    /\ objs \in [Projects -> SUBSET Objects]
    /\ signer \in [Projects -> [JwtSecrets -> 0..MaxKeys]]
    /\ aging \in [Projects -> SUBSET RoleKeys]
    /\ skipped \subseteq Projects
    /\ missed \in [Projects -> SUBSET Objects]
    /\ faults \in 0..MaxFaults

\* What a call may be about.
Shape(w, s) ==
    /\ w \in Writes /\ w.do \in {"put", "delete", "drop", "mint", "derive", "expire"}
    /\ w.do = "put" => /\ w.obj \in Objects /\ w.obj # "db-app" /\ w.obj \notin JwtSecrets
                       /\ w.obj \in Kept(s)
                       /\ w.obj = "gotrue-db-url" => s.pg
    /\ w.do \in {"delete", "drop"} =>
          w.obj \in Objects /\ w.obj \notin Derivative \cup JwtSecrets \cup Kept(s)
    /\ w.do = "mint" => w.obj = "gotrue-jwt-keys" /\ s.pg
    /\ w.do = "derive" => w.obj \in Derived /\ s.pg
    /\ w.do = "expire" => w.obj \in RoleKeys

\* A call of a plan has that shape.
LEMMA CallShape ==
    ASSUME NEW s \in StackValues, NEW w \in CallsFor(s)
    PROVE  Shape(w, s)
<1>1. w \in Writes /\ Fits(w, s)
  BY DEF CallsFor
<1>2. w.do \in {"put", "delete", "drop", "mint", "derive", "expire"}
  BY <1>1 DEF Writes
<1>3. CASE w.do = "put"
  <2>1. w.obj \in Kept(s)
    BY <1>1, <1>3 DEF Fits
  <2>2. w.obj \in Objects /\ w.obj # "db-app" /\ w.obj \notin JwtSecrets
    BY <2>1 DEF Kept, Isolators, Objects, JwtSecrets, Derived, RoleKeys
  <2>3. w.obj = "gotrue-db-url" => s.pg
    BY <2>1 DEF Kept, Isolators
  <2> QED
    BY <1>1, <1>2, <1>3, <2>1, <2>2, <2>3 DEF Shape
<1>4. CASE w.do \in {"delete", "drop"}
  <2>1. w.obj \in Objects /\ w.obj \notin Kept(s) \cup Derivative
    BY <1>1, <1>4 DEF Fits
  <2>2. w.obj \notin JwtSecrets
    BY <2>1 DEF Isolators, Objects, JwtSecrets, Derived, RoleKeys
  <2> QED
    BY <1>1, <1>2, <1>4, <2>1, <2>2 DEF Shape
<1>5. CASE w.do \in {"mint", "derive", "expire"}
  BY <1>1, <1>5 DEF Fits, Shape
<1> QED
  BY <1>2, <1>3, <1>4, <1>5

\* A call that would change nothing has had its effect.
LEMMA NothingToChange ==
    ASSUME NEW w, w.do \in {"put", "delete", "drop", "mint", "derive", "expire"}, ~Changes(w)
    PROVE  Held(op.p, w)
BY DEF Held, Changes

\* The next call, and what is behind the worker when it makes it.
LEMMA NextCallFacts ==
    ASSUME ControlOK, Control, TodoInv, At("apply"), NEW i \in DOMAIN op.todo, NextCall(i)
    PROVE  /\ op.todo[i] \in CallsFor(op.cr.stack) /\ op.cr.stack \in StackValues
           /\ op.p \in Projects
           /\ op.todo[i].do = "derive" => signer[op.p]["gotrue-jwt-keys"] # 0
<1> DEFINE s == op.cr.stack
           q == op.todo
           P == Plan(s)
<1>1. ~At("idle")
  BY DEF At
<1>2. s \in StackValues /\ P \in Seq(CallsFor(s)) /\ (s.pg => Does(P, "mint"))
  BY <1>1, PlanOfCopy
<1>3. q \in Seq(CallsFor(s)) /\ KeysOrdered(q) /\ (\A w \in Items(P) : w \in Items(q) \/ Held(op.p, w))
  BY DEF TodoInv
<1> HIDE DEF s, q, P
<1>4. q[i] \in CallsFor(s) /\ \A j \in DOMAIN q : q[j] \in CallsFor(s)
  BY <1>3 DEF q
<1>5. /\ i \in Nat /\ \A j \in DOMAIN q : j \in Nat /\ (j < i => j \in 1..(i - 1))
  BY <1>3 DEF q
<1>6. ASSUME q[i].do = "derive"
      PROVE  signer[op.p]["gotrue-jwt-keys"] # 0
  <2>1. s.pg
    BY <1>2, <1>4, <1>6, CallShape DEF Shape
  <2>2. PICK k \in DOMAIN P : P[k].do = "mint"
    BY <1>2, <2>1 DEF Does
  <2> DEFINE m == P[k]
  <2>3. m \in CallsFor(s) /\ m \in Items(P) /\ m.do = "mint"
    BY <1>2, <2>2 DEF Items
  <2>4. m.obj = "gotrue-jwt-keys"
    BY <1>2, <2>3, CallShape DEF Shape
  <2> HIDE DEF m
  <2>5. Held(op.p, m)
    <3>1. CASE m \in Items(q)
      <4>1. PICK j \in DOMAIN q : q[j] = m
        BY <3>1 DEF Items
      <4>2. j \in 1..(i - 1)
        BY <1>3, <1>5, <1>6, <2>3, <4>1 DEF KeysOrdered, q
      <4>3. ~Changes(m)
        BY <4>1, <4>2 DEF NextCall, q
      <4> QED
        BY <2>3, <4>3, NothingToChange
    <3>2. CASE m \notin Items(q)
      BY <1>3, <2>3, <3>2
    <3> QED
      BY <3>1, <3>2
  <2> QED
    BY <2>3, <2>4, <2>5 DEF Held
<1>7. op.p \in Projects
  BY DEF ControlOK
<1> QED
  BY <1>2, <1>4, <1>6, <1>7 DEF s, q

\* Objects of other projects are left alone, and so is what holds of them.
LEMMA HeldElsewhere ==
    ASSUME NEW q, NEW w, objs'[q] = objs[q], missed'[q] = missed[q], signer'[q] = signer[q]
    PROVE  Held(q, w)' <=> Held(q, w)
BY DEF Held

\* What a call does: its own effect, without undoing that of another call of the
\* same plan.
Kind(p, s) ==
    /\ \A v \in CallsFor(s) : Held(p, v) => Held(p, v)'
    /\ \A q \in Projects \ {p} :
          objs'[q] = objs[q] /\ missed'[q] = missed[q] /\ signer'[q] = signer[q]
    /\ "gotrue-db-url" \in objs[p] => "gotrue-db-url" \in objs'[p]

\* Creating or deleting an object.
LEMMA ApplyEffect ==
    ASSUME ClusterOK, NEW p \in Projects, p = op.p, NEW s \in StackValues, NEW w \in CallsFor(s), Apply(w)
    PROVE  ClusterOK' /\ Held(p, w)' /\ Kind(p, s) /\ signer' = signer
<1>0. w.do \in {"put", "delete", "drop"} => w.obj \in Objects
  BY CallShape DEF Shape
<1>1. /\ w.do \in {"put", "delete", "drop"} /\ w.obj \in Objects
      /\ objs' = [objs EXCEPT ![p] = IF w.do = "put" THEN @ \cup {w.obj} ELSE @ \ {w.obj}]
      /\ missed' = [missed EXCEPT ![p] = @ \ {w.obj}]
      /\ UNCHANGED <<stacks, signer, aging, skipped, faults>>
  <2>1. w.do \in {"put", "delete", "drop"}
    BY DEF Apply
  <2>2. objs' = [objs EXCEPT ![p] = IF w.do = "put" THEN @ \cup {w.obj} ELSE @ \ {w.obj}]
    BY DEF Apply
  <2>3. missed' = [missed EXCEPT ![p] = @ \ {w.obj}]
    BY DEF Apply
  <2>4. UNCHANGED <<stacks, signer, aging, skipped, faults>>
    BY DEF Apply
  <2> QED
    BY <1>0, <2>1, <2>2, <2>3, <2>4
<1>2. /\ objs'[p] = IF w.do = "put" THEN objs[p] \cup {w.obj} ELSE objs[p] \ {w.obj}
      /\ missed'[p] = missed[p] \ {w.obj}
      /\ \A q \in Projects \ {p} : objs'[q] = objs[q] /\ missed'[q] = missed[q] /\ signer'[q] = signer[q]
      /\ objs' \in [Projects -> SUBSET Objects] /\ missed' \in [Projects -> SUBSET Objects]
  BY <1>1 DEF ClusterOK
<1>3. ClusterOK'
  BY <1>1, <1>2 DEF ClusterOK
<1>4. "gotrue-db-url" \in objs[p] => "gotrue-db-url" \in objs'[p]
  <2>1. w.do # "put" => w.obj # "gotrue-db-url"
    BY <1>1, CallShape DEF Shape, Derivative
  <2> QED
    BY <1>2, <2>1
<1>5. Held(p, w)'
  BY <1>1, <1>2 DEF Held
<1>6. ASSUME NEW v \in CallsFor(s), Held(p, v)
      PROVE  Held(p, v)'
  <2>0. w.do # "put" => w.do \in {"delete", "drop"}
    BY <1>1
  <2>1. CASE v.do = "put"
    <3>1. v.obj \in Kept(s) /\ (w.do # "put" => w.obj \notin Kept(s))
      BY <2>0, <2>1, CallShape DEF Shape
    <3>2. v.obj \in objs[p] \cup {"gotrue-db-url"}
      BY <1>6, <2>1 DEF Held
    <3>3. objs[p] \cap Kept(s) \subseteq objs'[p]
      <4>1. CASE w.do = "put"
        BY <1>2, <4>1
      <4>2. CASE w.do # "put"
        BY <1>2, <3>1, <4>2
      <4> QED
        BY <4>1, <4>2
    <3>4. v.obj \in objs'[p] \cup {"gotrue-db-url"}
      BY <3>1, <3>2, <3>3
    <3> QED
      BY <2>1, <3>4 DEF Held
  <2>2. CASE v.do \in {"delete", "drop"}
    <3>1. v.obj \notin Kept(s) /\ (w.do = "put" => w.obj \in Kept(s))
      BY <2>2, CallShape DEF Shape
    <3>2. v.obj \notin objs[p] \ missed[p]
      BY <1>6, <2>2 DEF Held
    <3>3. v.obj \notin objs'[p] \ missed'[p]
      <4>1. CASE w.do = "put"
        BY <1>2, <3>1, <3>2, <4>1
      <4>2. CASE w.do # "put"
        BY <1>2, <3>2, <4>2
      <4> QED
        BY <4>1, <4>2
    <3> QED
      BY <2>2, <3>3 DEF Held
  <2>3. CASE v.do \in {"mint", "derive", "expire"}
    BY <1>1, <1>6, <2>3 DEF Held
  <2> QED
    BY <2>1, <2>2, <2>3, CallShape DEF Shape
<1> QED
  BY <1>1, <1>2, <1>3, <1>4, <1>5, <1>6 DEF Kind

\* A delete that fails unnoticed.
LEMMA DropFailsEffect ==
    ASSUME ClusterOK, NEW p \in Projects, p = op.p, NEW s \in StackValues, NEW w \in CallsFor(s),
           DropFails(w)
    PROVE  ClusterOK' /\ Held(p, w)' /\ Kind(p, s) /\ signer' = signer
<1>1. /\ w.do = "drop" /\ w.obj \in Objects
      /\ missed' = [missed EXCEPT ![p] = @ \cup {w.obj}]
      /\ UNCHANGED <<stacks, objs, signer, aging, skipped>>
      /\ faults' = faults + 1 /\ faults < MaxFaults
  BY CallShape DEF Shape, DropFails, Fault
<1>2. /\ missed'[p] = missed[p] \cup {w.obj} /\ objs'[p] = objs[p] /\ signer'[p] = signer[p]
      /\ \A q \in Projects \ {p} : objs'[q] = objs[q] /\ missed'[q] = missed[q] /\ signer'[q] = signer[q]
      /\ missed' \in [Projects -> SUBSET Objects]
  BY <1>1 DEF ClusterOK
<1>3. faults' \in 0..MaxFaults
  BY <1>1, ParametersAssumption DEF ClusterOK
<1>4. ClusterOK'
  BY <1>1, <1>2, <1>3 DEF ClusterOK
<1>5. Held(p, w)'
  BY <1>1, <1>2 DEF Held
<1>6. ASSUME NEW v, Held(p, v)
      PROVE  Held(p, v)'
  BY <1>2, <1>6 DEF Held
<1> QED
  BY <1>1, <1>2, <1>4, <1>5, <1>6 DEF Kind

-----------------------------------------------------------------------------
(* A call, and what is left of the plan. *)

\* Writing the key pair of one JWT Secret.
LEMMA SetKey ==
    ASSUME ClusterOK, NEW p \in Projects, NEW o \in JwtSecrets, NEW k \in 0..MaxKeys,
           signer' = [signer EXCEPT ![p][o] = k]
    PROVE  /\ signer' \in [Projects -> [JwtSecrets -> 0..MaxKeys]]
           /\ signer'[p][o] = k
           /\ \A x \in JwtSecrets \ {o} : signer'[p][x] = signer[p][x]
           /\ \A q \in Projects \ {p} : signer'[q] = signer[q]
<1>1. signer \in [Projects -> [JwtSecrets -> 0..MaxKeys]]
  BY DEF ClusterOK
<1>2. signer' = [signer EXCEPT ![p] = [signer[p] EXCEPT ![o] = k]]
  BY <1>1
<1> DEFINE f == [signer[p] EXCEPT ![o] = k]
<1>3. f \in [JwtSecrets -> 0..MaxKeys] /\ f[o] = k /\ \A x \in JwtSecrets \ {o} : f[x] = signer[p][x]
  BY <1>1
<1> HIDE DEF f
<1>4. signer' = [signer EXCEPT ![p] = f]
  BY <1>2 DEF f
<1>5. signer'[p] = f /\ signer' \in [Projects -> [JwtSecrets -> 0..MaxKeys]]
      /\ \A q \in Projects \ {p} : signer'[q] = signer[q]
  BY <1>1, <1>3, <1>4
<1> QED
  BY <1>3, <1>5

\* A call that writes the key pair of a Secret, which must not be taken from one
\* that is behind the worker.
LEMMA KeyEffect ==
    ASSUME ClusterOK, KeysConsistent, NEW p \in Projects, p = op.p,
           NEW s \in StackValues, NEW w \in CallsFor(s), w.do \in {"mint", "derive", "expire"},
           NEW k \in 0..MaxKeys,
           signer' = [signer EXCEPT ![p][w.obj] = k],
           UNCHANGED <<stacks, objs, skipped, missed, faults>>,
           aging' \in [Projects -> SUBSET RoleKeys],
           w.do \in {"mint", "derive"} => k # 0,
           w.do = "mint" => signer[p][w.obj] = 0,
           w.do = "derive" => k = signer[p]["gotrue-jwt-keys"],
           w.do = "expire" => k = 0
    PROVE  ClusterOK' /\ Held(p, w)' /\ Kind(p, s) /\ KeysConsistent'
<1>1. Shape(w, s)
  BY CallShape
<1>2. /\ "gotrue-jwt-keys" \in JwtSecrets /\ Derived \subseteq JwtSecrets
      /\ RoleKeys \subseteq Derived /\ "gotrue-jwt-keys" \notin Derived
  BY DEF JwtSecrets, Derived, RoleKeys
<1>3. w.obj \in JwtSecrets
  BY <1>1, <1>2 DEF Shape
<1>4. /\ signer' \in [Projects -> [JwtSecrets -> 0..MaxKeys]]
      /\ signer'[p][w.obj] = k
      /\ \A x \in JwtSecrets \ {w.obj} : signer'[p][x] = signer[p][x]
      /\ \A q \in Projects \ {p} : signer'[q] = signer[q]
  <2>1. PICK o : o = w.obj
    OBVIOUS
  <2>2. /\ signer' \in [Projects -> [JwtSecrets -> 0..MaxKeys]]
        /\ signer'[p][o] = k
        /\ \A x \in JwtSecrets \ {o} : signer'[p][x] = signer[p][x]
        /\ \A q \in Projects \ {p} : signer'[q] = signer[q]
    <3>1. o \in JwtSecrets /\ signer' = [signer EXCEPT ![p][o] = k]
      BY <1>3, <2>1
    <3> QED
      BY <3>1, SetKey
  <2> QED
    BY <2>1, <2>2
<1>5. ClusterOK'
  BY <1>4 DEF ClusterOK
<1>6. Held(p, w)'
  BY <1>1, <1>4 DEF Held, Shape
<1>7. ASSUME NEW v \in CallsFor(s), Held(p, v)
      PROVE  Held(p, v)'
  <2>1. Shape(v, s)
    BY CallShape
  <2>2. CASE v.do \in {"put", "delete", "drop", "expire"}
    BY <1>7, <2>2 DEF Held
  <2>3. CASE v.do = "mint"
    <3>1. v.obj = "gotrue-jwt-keys" /\ signer[p]["gotrue-jwt-keys"] # 0
      BY <1>7, <2>1, <2>3 DEF Shape, Held
    <3>2. w.obj # "gotrue-jwt-keys"
      <4>1. w.do # "mint"
        BY <1>1, <3>1 DEF Shape
      <4> QED
        BY <1>1, <1>2, <4>1 DEF Shape
    <3>3. signer'[p]["gotrue-jwt-keys"] # 0
      BY <1>2, <1>4, <3>1, <3>2
    <3> QED
      BY <2>3, <3>1, <3>3 DEF Held
  <2>4. CASE v.do = "derive"
    <3>1. v.obj \in Derived /\ (v.obj \in RoleKeys \/ signer[p][v.obj] # 0)
      BY <1>7, <2>1, <2>4 DEF Shape, Held
    <3>2. v.obj \in RoleKeys \/ signer'[p][v.obj] # 0
      <4>1. CASE w.obj # v.obj
        BY <1>2, <1>4, <3>1, <4>1
      <4>2. CASE w.obj = v.obj /\ w.do = "expire"
        BY <1>1, <4>2 DEF Shape
      <4>3. CASE w.obj = v.obj /\ w.do \in {"mint", "derive"}
        BY <1>4, <4>3
      <4> QED
        BY <4>1, <4>2, <4>3
    <3> QED
      BY <2>4, <3>2 DEF Held
  <2> QED
    BY <2>1, <2>2, <2>3, <2>4 DEF Shape
<1>8. KeysConsistent'
  <2> SUFFICES ASSUME NEW q \in Projects, NEW o \in Derived, signer'[q][o] # 0
               PROVE  signer'[q][o] = signer'[q]["gotrue-jwt-keys"]
    BY DEF KeysConsistent
  <2>1. CASE q # p
    BY <1>4, <2>1 DEF KeysConsistent
  <2>2. CASE q = p /\ w.do = "mint"
    <3>1. w.obj = "gotrue-jwt-keys" /\ signer[p][w.obj] = 0
      BY <1>1, <2>2 DEF Shape
    <3>2. signer[p][o] # 0
      BY <1>2, <1>4, <2>2, <3>1
    <3> QED
      BY <2>2, <3>1, <3>2 DEF KeysConsistent
  <2>3. CASE q = p /\ w.do = "derive"
    <3>1. w.obj \in Derived
      BY <1>1, <2>3 DEF Shape
    <3>2. signer'[p]["gotrue-jwt-keys"] = signer[p]["gotrue-jwt-keys"]
      BY <1>2, <1>4, <3>1
    <3>3. CASE o = w.obj
      BY <1>4, <2>3, <3>2, <3>3
    <3>4. CASE o # w.obj
      BY <1>2, <1>4, <2>3, <3>2, <3>4 DEF KeysConsistent
    <3> QED
      BY <3>3, <3>4
  <2>4. CASE q = p /\ w.do = "expire"
    <3>1. w.obj \in Derived
      BY <1>1, <1>2, <2>4 DEF Shape
    <3>2. signer'[p]["gotrue-jwt-keys"] = signer[p]["gotrue-jwt-keys"]
      BY <1>2, <1>4, <3>1
    <3>3. o # w.obj
      BY <1>4, <2>4
    <3> QED
      BY <1>2, <1>4, <2>4, <3>2, <3>3 DEF KeysConsistent
  <2> QED
    BY <2>1, <2>2, <2>3, <2>4
<1>9. ("gotrue-db-url" \in objs[p] => "gotrue-db-url" \in objs'[p])
      /\ \A q \in Projects \ {p} : objs'[q] = objs[q] /\ missed'[q] = missed[q] /\ signer'[q] = signer[q]
  BY <1>4
<1> QED
  BY <1>5, <1>6, <1>7, <1>8, <1>9 DEF Kind

\* A call of the worker has its effect, and undoes that of no other of its plan.
LEMMA CallEffect ==
    ASSUME ControlOK, Control, ClusterOK, TodoInv, KeysConsistent, At("apply"),
           NEW i \in DOMAIN op.todo, NextCall(i),
           NEW p, p = op.p, NEW w, w = op.todo[i], NEW s, s = op.cr.stack,
           Apply(w) \/ MintKeys(w) \/ DeriveKey(w) \/ ExpireKey(w) \/ DropFails(w)
    PROVE  ClusterOK' /\ Held(p, w)' /\ Kind(p, s) /\ KeysConsistent'
<1>1. w \in CallsFor(s) /\ s \in StackValues /\ p \in Projects
      /\ (w.do = "derive" => signer[p]["gotrue-jwt-keys"] # 0)
  BY NextCallFacts
<1>2. Changes(w) /\ Shape(w, s)
  BY <1>1, CallShape DEF NextCall
<1>3. CASE Apply(w) \/ DropFails(w)
  <2>1. ClusterOK' /\ Held(p, w)' /\ Kind(p, s) /\ signer' = signer
    BY <1>1, <1>3, ApplyEffect, DropFailsEffect
  <2> QED
    BY <2>1 DEF KeysConsistent
<1>4. "gotrue-jwt-keys" \in JwtSecrets /\ signer[p] \in [JwtSecrets -> 0..MaxKeys]
  BY <1>1 DEF JwtSecrets, ClusterOK
<1>5. CASE MintKeys(w)
  <2>1. w.do = "mint" /\ w.obj = "gotrue-jwt-keys"
    BY <1>2, <1>5 DEF MintKeys, Shape
  <2>2. signer[p][w.obj] = 0
    BY <1>2, <2>1 DEF Changes
  <2> DEFINE k == CHOOSE k \in GenerateRSAKeyPair(p) : TRUE
  <2>3. k \in 1..MaxKeys
    BY <1>5 DEF MintKeys, GenerateRSAKeyPair
  <2>4. signer' = [signer EXCEPT ![p][w.obj] = k]
    BY <1>5 DEF MintKeys
  <2>5. UNCHANGED <<stacks, objs, skipped, missed, faults>> /\ aging' = aging
    BY <1>5 DEF MintKeys
  <2> HIDE DEF k
  <2>6. k \in 0..MaxKeys /\ k # 0 /\ w.do # "derive" /\ w.do # "expire"
    BY <2>1, <2>3, ParametersAssumption
  <2>7. aging' \in [Projects -> SUBSET RoleKeys]
    BY <2>5 DEF ClusterOK
  <2> QED
    BY <1>1, <2>1, <2>2, <2>4, <2>5, <2>6, <2>7, KeyEffect
<1>6. CASE DeriveKey(w)
  <2>0. PICK k : k = signer[p]["gotrue-jwt-keys"]
    OBVIOUS
  <2>1. w.do = "derive"
    BY <1>6 DEF DeriveKey
  <2>2. signer' = [signer EXCEPT ![p][w.obj] = k]
    BY <1>6, <2>0 DEF DeriveKey, ParseRSAPrivateKeyFromJWKSet
  <2>3. UNCHANGED <<stacks, objs, skipped, missed, faults>> /\ aging' = aging
    BY <1>6 DEF DeriveKey
  <2>4. k \in 0..MaxKeys /\ k # 0 /\ w.do # "mint" /\ w.do # "expire"
    BY <1>1, <1>4, <2>0, <2>1
  <2>5. aging' \in [Projects -> SUBSET RoleKeys]
    BY <2>3 DEF ClusterOK
  <2> QED
    BY <1>1, <2>0, <2>1, <2>2, <2>3, <2>4, <2>5, KeyEffect
<1>7. CASE ExpireKey(w)
  <2>1. w.do = "expire"
    BY <1>7 DEF ExpireKey
  <2>2. signer' = [signer EXCEPT ![p][w.obj] = 0]
    BY <1>7 DEF ExpireKey
  <2>3. UNCHANGED <<stacks, objs, skipped, missed, faults>>
        /\ aging' = [aging EXCEPT ![p] = @ \ {w.obj}]
    BY <1>7 DEF ExpireKey
  <2>4. 0 \in 0..MaxKeys
    BY ParametersAssumption
  <2>5. aging' \in [Projects -> SUBSET RoleKeys]
    BY <1>1, <2>3 DEF ClusterOK
  <2> QED
    BY <1>1, <2>1, <2>2, <2>3, <2>4, <2>5, KeyEffect
<1> QED
  BY <1>3, <1>5, <1>6, <1>7

\* What is left of the calls after call i.
LEMMA Rest ==
    ASSUME NEW S, NEW q \in Seq(S), KeysOrdered(q), NEW i \in DOMAIN q
    PROVE  LET r == SubSeq(q, i + 1, Len(q))
           IN  /\ r \in Seq(S) /\ KeysOrdered(r)
               /\ \A j \in DOMAIN q : j \in 1..(i - 1) \/ j = i \/ q[j] \in Items(r)
<1> DEFINE r == SubSeq(q, i + 1, Len(q))
<1>1. /\ i \in Nat \ {0} /\ i <= Len(q) /\ Len(q) \in Nat /\ DOMAIN q = 1..Len(q)
      /\ \A j \in (i + 1)..Len(q) : q[j] \in S
  OBVIOUS
<1>2. /\ r \in Seq(S) /\ Len(r) = Len(q) - i
      /\ \A j \in 1..(Len(q) - i) : r[j] = q[i + j]
  <2>1. i + 1 \in Int /\ Len(q) \in Int
    BY <1>1
  <2>2. /\ r \in Seq(S) /\ Len(r) = IF i + 1 <= Len(q) THEN Len(q) - (i + 1) + 1 ELSE 0
        /\ \A j \in 1..(Len(q) - (i + 1) + 1) : r[j] = q[i + 1 + j - 1]
    BY <1>1, <2>1, SubSeqProperties
  <2> QED
    BY <1>1, <2>2
<1> HIDE DEF r
<1>3. DOMAIN r = 1..(Len(q) - i)
  BY <1>2
<1>4. ASSUME NEW j \in DOMAIN r
      PROVE  i + j \in DOMAIN q /\ r[j] = q[i + j]
  <2>1. j \in 1..(Len(q) - i)
    BY <1>2, <1>3
  <2>2. i + j \in 1..Len(q)
    BY <1>1, <2>1
  <2> QED
    BY <1>1, <1>2, <2>1, <2>2
<1>5. KeysOrdered(r)
  <2> SUFFICES ASSUME NEW j \in DOMAIN r, NEW k \in DOMAIN r,
                      r[j].do = "derive", r[k].do = "mint"
               PROVE  k < j
    BY DEF KeysOrdered
  <2>1. i + k < i + j
    BY <1>4 DEF KeysOrdered
  <2> QED
    BY <1>1, <1>3, <2>1
<1>6. ASSUME NEW j \in DOMAIN q, j \notin 1..(i - 1), j # i
      PROVE  q[j] \in Items(r)
  <2>1. j - i \in DOMAIN r /\ i + (j - i) = j
    BY <1>1, <1>3, <1>6
  <2> QED
    BY <1>4, <2>1 DEF Items
<1> QED
  BY <1>2, <1>5, <1>6 DEF r

\* After a call, what is not left of the plan has its effect.
LEMMA CallsTodo ==
    ASSUME ControlOK, Control, ClusterOK, TodoInv, KeysConsistent,
           Calls \/ CallMissed, NEW p, p = op.p, NEW s, s = op.cr.stack
    PROVE  /\ ClusterOK' /\ KeysConsistent' /\ Kind(p, s) /\ TodoInv'
           /\ At("apply") /\ op'.p = op.p /\ op'.cr = op.cr
<1>1. PICK i \in DOMAIN op.todo :
         /\ At("apply") /\ NextCall(i) /\ op' = After(i)
         /\ \/ Apply(op.todo[i]) \/ MintKeys(op.todo[i])
            \/ DeriveKey(op.todo[i]) \/ ExpireKey(op.todo[i]) \/ DropFails(op.todo[i])
  BY DEF Calls, CallMissed
<1>2. PICK w : w = op.todo[i]
  OBVIOUS
<1>5. ClusterOK' /\ Held(p, w)' /\ Kind(p, s) /\ KeysConsistent'
  BY <1>1, <1>2, CallEffect
<1>6. PICK q : q = op.todo
  OBVIOUS
<1>7. /\ op \in [pc : PCs, p : Projects, cr : CRs, todo : Seq(Writes)]
  BY DEF ControlOK
<1>8. /\ op'.p = op.p /\ op'.cr = op.cr /\ op'.pc = op.pc
      /\ op'.todo = SubSeq(q, i + 1, Len(q))
  BY <1>1, <1>6, <1>7 DEF After
<1>9. /\ q \in Seq(CallsFor(s)) /\ KeysOrdered(q)
      /\ \A v \in Items(Plan(s)) : v \in Items(q) \/ Held(p, v)
  BY <1>1, <1>6 DEF TodoInv
<1>10. PICK r : r = SubSeq(q, i + 1, Len(q))
  OBVIOUS
<1>11. /\ r \in Seq(CallsFor(s)) /\ KeysOrdered(r)
       /\ \A j \in DOMAIN q : j \in 1..(i - 1) \/ j = i \/ q[j] \in Items(r)
  BY <1>1, <1>6, <1>9, <1>10, Rest
<1>12. Plan(s) \in Seq(CallsFor(s)) /\ s \in StackValues
  BY <1>1, PlanOfCopy DEF At
<1>13. ASSUME NEW v \in Items(Plan(s))
       PROVE  v \in Items(r) \/ Held(p, v)'
  <2>1. v \in CallsFor(s)
    BY <1>12 DEF Items
  <2>2. Held(p, v) => Held(p, v)'
    BY <1>5, <2>1 DEF Kind
  <2>3. CASE v \in Items(q)
    <3>1. PICK j \in DOMAIN q : v = q[j]
      BY <2>3 DEF Items
    <3>2. CASE j \in 1..(i - 1)
      <4>1. ~Changes(v)
        BY <1>1, <1>6, <3>1, <3>2 DEF NextCall
      <4>2. Held(p, v)
        BY <1>12, <2>1, <4>1, CallShape, NothingToChange DEF Shape
      <4> QED
        BY <2>2, <4>2
    <3>3. CASE j = i
      <4>1. v = w
        BY <1>2, <1>6, <3>1, <3>3
      <4> QED
        BY <1>5, <4>1
    <3> QED
      BY <1>11, <3>1, <3>2, <3>3
  <2>4. CASE v \notin Items(q)
    BY <1>9, <2>2, <2>4
  <2> QED
    BY <2>3, <2>4
<1>14. TodoInv'
  <2>1. op'.todo = r /\ op'.p = p /\ op'.cr.stack = s
    BY <1>8, <1>10
  <2>2. TodoInv' <=> (At("apply")' => /\ r \in Seq(CallsFor(s)) /\ KeysOrdered(r)
                                      /\ \A v \in Items(Plan(s)) : v \in Items(r) \/ Held(p, v)')
    BY <2>1 DEF TodoInv, Held
  <2> QED
    BY <1>11, <1>13, <2>2
<1> QED
  BY <1>1, <1>5, <1>8, <1>14

-----------------------------------------------------------------------------
(* Ready generations. *)

\* What a step leaves of the effects of calls on project q.
Keeps(q) == /\ \A s \in StackValues : \A v \in CallsFor(s) : Held(q, v) => Held(q, v)'
            /\ "gotrue-db-url" \in objs[q] => "gotrue-db-url" \in objs'[q]

\* A step that leaves a project's objects and keys alone.
LEMMA Untouched ==
    ASSUME NEW q, objs'[q] = objs[q], missed'[q] = missed[q], signer'[q] = signer[q]
    PROVE  Keeps(q)
BY HeldElsewhere DEF Keeps

\* A Project whose generation is reported Ready.
Reported(c) == c.st = "live" /\ c.phase = "Ready" /\ c.obs = c.gen

\* A stack's plan is kept up while effects are kept.
LEMMA ExactKept ==
    ASSUME NEW q \in Projects, cr[q] \in CRs, Sound(cr[q]), cr[q].st # "none",
           cr'[q].stack = cr[q].stack, Exact(q),
           \/ Keeps(q)
           \/ \E s \in {cr[q].stack} : Kind(q, s)
    PROVE  Exact(q)'
<1>1. PICK s : s = cr[q].stack
  OBVIOUS
<1>2. s \in StackValues /\ (s.rest => s.pg)
  BY <1>1, Fields DEF Sound
<1>3. Plan(s) \in Seq(CallsFor(s))
  BY <1>2, PlanFacts
<1>4. \A w \in Items(Plan(s)) : w \in CallsFor(s)
  BY <1>3 DEF Items
<1>5. /\ \A v \in CallsFor(s) : Held(q, v) => Held(q, v)'
      /\ "gotrue-db-url" \in objs[q] => "gotrue-db-url" \in objs'[q]
  <2>1. CASE Keeps(q)
    BY <1>2, <2>1 DEF Keeps
  <2>2. CASE \E t \in {cr[q].stack} : Kind(q, t)
    BY <1>1, <2>2 DEF Kind
  <2> QED
    BY <2>1, <2>2
<1>6. /\ \A w \in Items(Plan(s)) : Held(q, w)
      /\ s.pg => "gotrue-db-url" \in objs[q]
  BY <1>1 DEF Exact
<1>7. /\ \A w \in Items(Plan(s)) : Held(q, w)'
      /\ s.pg => "gotrue-db-url" \in objs'[q]
  BY <1>4, <1>5, <1>6
<1>8. cr'[q].stack = s
  BY <1>1
<1> QED
  BY <1>7, <1>8 DEF Exact, Held

\* What is reported stays so while Projects and their objects stay.
LEMMA ReadyKept ==
    ASSUME ControlOK, Control, ReadyInv,
           \A q \in Projects : Reported(cr'[q]) =>
               /\ Reported(cr[q]) /\ cr'[q].stack = cr[q].stack
               /\ Keeps(q) \/ \E s \in {cr[q].stack} : Kind(q, s)
    PROVE  ReadyInv'
<1> SUFFICES ASSUME NEW q \in Projects, Reported(cr'[q])
             PROVE  Exact(q)'
  BY DEF ReadyInv, Reported, Live
<1>1. Reported(cr[q]) /\ Exact(q)
  BY DEF ReadyInv, Reported, Live
<1>2. cr[q] \in CRs /\ Sound(cr[q]) /\ cr[q].st # "none"
  BY <1>1 DEF ControlOK, CRsOK, Control, SeenInv, Earlier, Reported
<1> QED
  BY <1>1, <1>2, ExactKept

\* What is left of a plan stays right while effects are kept.
LEMMA TodoKept ==
    ASSUME ControlOK, Control, TodoInv, op' = op,
           At("apply") => \A q \in Projects : q = op.p => Keeps(q)
    PROVE  TodoInv'
<1> SUFFICES ASSUME At("apply")
             PROVE  TodoInv'
  BY DEF TodoInv, At
<1>1. PICK p : p = op.p
  OBVIOUS
<1>2. PICK s : s = op.cr.stack
  OBVIOUS
<1>3. PICK q : q = op.todo
  OBVIOUS
<1>4. Plan(s) \in Seq(CallsFor(s)) /\ s \in StackValues
  BY <1>2, PlanOfCopy DEF At
<1>5. \A v \in Items(Plan(s)) : v \in CallsFor(s)
  BY <1>4 DEF Items
<1>6. Keeps(p)
  <2>1. p \in Projects
    BY <1>1 DEF ControlOK
  <2> QED
    BY <1>1, <2>1
<1>7. /\ q \in Seq(CallsFor(s)) /\ KeysOrdered(q)
      /\ \A v \in Items(Plan(s)) : v \in Items(q) \/ Held(p, v)
  BY <1>1, <1>2, <1>3 DEF TodoInv
<1>8. \A v \in Items(Plan(s)) : v \in Items(q) \/ Held(p, v)'
  BY <1>4, <1>5, <1>6, <1>7 DEF Keeps
<1>9. op'.todo = q /\ op'.p = p /\ op'.cr.stack = s
  BY <1>1, <1>2, <1>3
<1>10. TodoInv' <=> (At("apply")' => /\ q \in Seq(CallsFor(s)) /\ KeysOrdered(q)
                                     /\ \A v \in Items(Plan(s)) : v \in Items(q) \/ Held(p, v)')
  BY <1>9 DEF TodoInv, Held
<1> QED
  BY <1>7, <1>8, <1>10

\* The users and the informer: nothing that is reported Ready comes to be so.
LEMMA UsersReady ==
    ASSUME ControlOK, Control, ClusterOK, TodoInv, KeysConsistent, ReadyInv,
           NEW p \in Projects,
           CreateProject(p) \/ EditStack(p) \/ DeleteProject(p) \/ Sync(p)
    PROVE  ClusterOK' /\ TodoInv' /\ KeysConsistent' /\ ReadyInv'
<1>1. UNCHANGED <<op, cluster, faults>>
  BY DEF CreateProject, EditStack, DeleteProject, Sync
<1>2. ClusterOK' /\ KeysConsistent'
  BY <1>1 DEF ClusterOK, KeysConsistent, cluster
<1>3. \A q \in Projects : Keeps(q)
  BY <1>1, Untouched DEF cluster
<1>4. TodoInv'
  BY <1>1, <1>3, TodoKept
<1>5. ASSUME NEW q \in Projects, Reported(cr'[q])
      PROVE  Reported(cr[q]) /\ cr'[q].stack = cr[q].stack
  <2>1. CASE Sync(p)
    BY <1>5, <2>1 DEF Sync
  <2>2. CASE CreateProject(p) \/ EditStack(p) \/ DeleteProject(p)
    <3>1. (\A x \in Projects \ {p} : cr'[x] = cr[x]) /\ Used(cr[p], cr'[p])
      BY <2>2, UserStep DEF ControlOK, Control, ClusterOK
    <3>2. q # p
      <4> SUFFICES ASSUME q = p PROVE FALSE
        OBVIOUS
      <4>1. /\ cr[p] \in CRs /\ Earlier(seen[p], cr[p])
            /\ cr'[p].st = "live" /\ cr'[p].phase = "Ready" /\ cr'[p].obs = cr'[p].gen
        BY <1>5 DEF ControlOK, CRsOK, Control, SeenInv, Reported
      <4>2. cr[p].phase = "Ready" /\ cr[p].obs <= cr[p].gen /\ cr'[p].obs = cr[p].obs
        BY <3>1, <4>1 DEF Used, Earlier
      <4>3. cr[p].st # "none"
        BY <4>1, <4>2 DEF Earlier
      <4>4. cr'[p].gen = cr[p].gen + 1
        BY <3>1, <4>1, <4>3 DEF Used
      <4>5. cr[p].gen \in Nat /\ cr[p].obs \in Nat
        BY <4>1, Fields
      <4>6. cr[p].obs = cr[p].gen + 1
        BY <4>1, <4>2, <4>4
      <4>7. cr[p].obs <= cr[p].gen
        BY <4>2
      <4> QED
        BY <4>5, <4>6, <4>7
    <3> QED
      BY <1>5, <3>1, <3>2
  <2> QED
    BY <2>1, <2>2
<1>6. ReadyInv'
  BY <1>3, <1>5, ReadyKept
<1> QED
  BY <1>2, <1>4, <1>6

\* CNPG and the ageing of keys take nothing away that a plan has made.
LEMMA OutsideReady ==
    ASSUME ControlOK, Control, ClusterOK, TodoInv, KeysConsistent, ReadyInv,
           NEW p \in Projects, CNPG(p) \/ KeyAges(p)
    PROVE  ClusterOK' /\ TodoInv' /\ KeysConsistent' /\ ReadyInv'
<1>1. UNCHANGED <<cr, op, signer, missed, skipped, stacks>>
  BY DEF CNPG, KeyAges
<1>2. ClusterOK'
  <2>1. CASE CNPG(p)
    <3>1. /\ objs' = [objs EXCEPT ![p] = IF "db" \in @ THEN @ \cup {"db-app"} ELSE @ \ {"db-app"}]
          /\ UNCHANGED <<aging, faults>>
      BY <2>1 DEF CNPG
    <3>2. "db-app" \in Objects
      BY DEF Objects
    <3> QED
      BY <1>1, <3>1, <3>2 DEF ClusterOK
  <2>2. CASE KeyAges(p)
    <3>1. PICK o \in RoleKeys : aging' = [aging EXCEPT ![p] = @ \cup {o}]
      BY <2>2 DEF KeyAges
    <3>2. objs' = objs /\ faults' \in 0..MaxFaults
      BY <2>2, ParametersAssumption DEF KeyAges, ClusterOK
    <3> QED
      BY <1>1, <3>1, <3>2 DEF ClusterOK
  <2> QED
    BY <2>1, <2>2
<1>3. ASSUME NEW q \in Projects
      PROVE  Keeps(q)
  <2>1. \A o : o # "db-app" => (o \in objs'[q] <=> o \in objs[q])
    <3>1. CASE CNPG(p)
      BY <3>1 DEF CNPG, ClusterOK
    <3>2. CASE KeyAges(p)
      BY <3>2 DEF KeyAges
    <3> QED
      BY <3>1, <3>2
  <2>2. ASSUME NEW s \in StackValues, NEW v \in CallsFor(s), Held(q, v)
        PROVE  Held(q, v)'
    <3>1. Shape(v, s)
      BY CallShape
    <3>2. CASE v.do = "put"
      BY <2>1, <2>2, <3>1, <3>2 DEF Held, Shape
    <3>3. CASE v.do \in {"delete", "drop"}
      <4>1. v.obj # "db-app"
        BY <3>1, <3>3 DEF Shape, Derivative
      <4> QED
        BY <1>1, <2>1, <2>2, <3>3, <4>1 DEF Held
    <3>4. CASE v.do \in {"mint", "derive", "expire"}
      BY <1>1, <2>2, <3>4 DEF Held
    <3> QED
      BY <3>1, <3>2, <3>3, <3>4 DEF Shape
  <2> QED
    BY <2>1, <2>2 DEF Keeps
<1>4. TodoInv'
  BY <1>1, <1>3, TodoKept
<1>5. ReadyInv'
  BY <1>1, <1>3, ReadyKept
<1>6. KeysConsistent'
  BY <1>1 DEF KeysConsistent
<1> QED
  BY <1>2, <1>4, <1>5, <1>6

\* A project that is being deleted is neither reported Ready nor worked on.
LEMMA Dying ==
    ASSUME ControlOK, Control, NEW q \in Projects, seen[q].st \in {"deleting", "gone"}
    PROVE  ~Reported(cr[q])
BY DEF ControlOK, CRsOK, Control, SeenInv, Earlier, Reported

\* A namespace goes, with all that is in it, only when nothing is kept up in it.
LEMMA NamespaceReady ==
    ASSUME ControlOK, Control, ClusterOK, TodoInv, KeysConsistent, ReadyInv,
           NEW p \in Projects, NamespaceTerminates(p)
    PROVE  ClusterOK' /\ TodoInv' /\ KeysConsistent' /\ ReadyInv'
<1> DEFINE z == [o \in JwtSecrets |-> 0]
<1>1. /\ UNCHANGED <<stacks, cr, op, skipped, faults>> /\ p \in gone
      /\ objs' = [objs EXCEPT ![p] = @ \cap {"stream"}]
      /\ signer' = [signer EXCEPT ![p] = z]
      /\ aging' = [aging EXCEPT ![p] = {}]
      /\ missed' = [missed EXCEPT ![p] = {}]
  BY DEF NamespaceTerminates
<1>2. z \in [JwtSecrets -> 0..MaxKeys] /\ \A o \in JwtSecrets : z[o] = 0
  BY ParametersAssumption
<1> HIDE DEF z
<1>3. ClusterOK'
  BY <1>1, <1>2 DEF ClusterOK
<1>4. /\ \A q \in Projects \ {p} :
            objs'[q] = objs[q] /\ missed'[q] = missed[q] /\ signer'[q] = signer[q]
      /\ signer'[p] = z
  BY <1>1 DEF ClusterOK
<1>5. \A q \in Projects \ {p} : Keeps(q)
  BY <1>4, Untouched
<1>6. seen[p].st \in {"deleting", "gone"}
  BY <1>1 DEF Control, GoneInv
<1>7. TodoInv'
  <2>1. At("apply") => op.p # p
    BY <1>1 DEF Control, OpInv, At
  <2> QED
    BY <1>1, <1>5, <2>1, TodoKept
<1>8. ReadyInv'
  BY <1>1, <1>5, <1>6, Dying, ReadyKept
<1>9. KeysConsistent'
  <2>1. Derived \subseteq JwtSecrets
    BY DEF JwtSecrets
  <2> QED
    BY <1>2, <1>4, <2>1 DEF KeysConsistent
<1> QED
  BY <1>3, <1>7, <1>8, <1>9

\* A worker whose place is not a plan's has no plan.
LEMMA NoPlan ==
    ASSUME op'.pc # "apply"
    PROVE  TodoInv'
BY DEF TodoInv, At

\* A write of the worker that does not report Ready.
LEMMA WriteReady ==
    ASSUME ControlOK, Control, ~At("idle"), NEW d \in CRs, NEW next,
           Write(d, next), d.stack = op.cr.stack, Reported(d) => Reported(op.cr)
    PROVE  \A q \in Projects : Reported(cr'[q]) => Reported(cr[q]) /\ cr'[q].stack = cr[q].stack
<1>1. CASE op.cr = cr[op.p]
  <2>1. cr' = [cr EXCEPT ![op.p] = d]
    BY <1>1 DEF Write
  <2>2. op.p \in Projects /\ cr'[op.p] = d /\ \A q \in Projects : q # op.p => cr'[q] = cr[q]
    BY <2>1 DEF ControlOK, CRsOK
  <2> SUFFICES ASSUME NEW q \in Projects, Reported(cr'[q])
               PROVE  Reported(cr[q]) /\ cr'[q].stack = cr[q].stack
    OBVIOUS
  <2>3. CASE q = op.p
    <3>1. cr'[q] = d /\ cr[q] = op.cr
      BY <1>1, <2>2, <2>3
    <3> QED
      BY <3>1
  <2>4. CASE q # op.p
    BY <2>2, <2>4
  <2> QED
    BY <2>3, <2>4
<1>2. CASE op.cr # cr[op.p]
  BY <1>2 DEF Write
<1> QED
  BY <1>1, <1>2

\* Steps of the worker that change nothing but the Project and its own place.
LEMMA QuietReady ==
    ASSUME ControlOK, Control, ClusterOK, KeysConsistent, ReadyInv,
           UNCHANGED <<stacks, objs, signer, missed, aging>>,
           faults' \in 0..MaxFaults, skipped' \subseteq Projects,
           \A q \in Projects : Reported(cr'[q]) => Reported(cr[q]) /\ cr'[q].stack = cr[q].stack
    PROVE  ClusterOK' /\ KeysConsistent' /\ ReadyInv'
<1>1. \A q \in Projects : Keeps(q)
  BY Untouched
<1>2. ReadyInv'
  BY <1>1, ReadyKept
<1> QED
  BY <1>2 DEF ClusterOK, KeysConsistent

\* What an update of the status may report: with every call behind the worker, the
\* plan has all its effects.
LEMMA FinishedIsExact ==
    ASSUME ControlOK, Control, TodoInv, At("apply"), Finished, NEW p, p = op.p,
           CanBeUp(p, op.cr.stack), op.cr = cr[p]
    PROVE  Exact(p)
<1>1. PICK s : s = op.cr.stack
  OBVIOUS
<1>2. Plan(s) \in Seq(CallsFor(s)) /\ s \in StackValues
  BY <1>1, PlanOfCopy DEF At
<1>3. ASSUME NEW w \in Items(Plan(s))
      PROVE  Held(p, w)
  <2>1. w \in CallsFor(s)
    BY <1>2 DEF Items
  <2>2. w.do \in {"put", "delete", "drop", "mint", "derive", "expire"}
    BY <1>2, <2>1, CallShape DEF Shape
  <2>3. CASE w \in Items(op.todo)
    <3>1. ~Changes(w)
      BY <2>3 DEF Items, Finished
    <3> QED
      BY <2>2, <3>1, NothingToChange
  <2>4. CASE w \notin Items(op.todo)
    BY <1>1, <2>4 DEF TodoInv
  <2> QED
    BY <2>3, <2>4
<1>4. ASSUME s.pg
      PROVE  "gotrue-db-url" \in objs[p]
  <2>1. "gotrue" \in Components(s)
    BY <1>4 DEF Components
  <2>2. "gotrue-db-url" \in References("gotrue")
    BY DEF References
  <2>3. HasObject(p, "gotrue-db-url")
    BY <1>1, <2>1, <2>2 DEF CanBeUp
  <2>4. "gotrue-db-url" \notin JwtSecrets
    BY DEF JwtSecrets, Derived, RoleKeys
  <2> QED
    BY <2>3, <2>4 DEF HasObject
<1>5. cr[p].stack = s
  BY <1>1
<1> QED
  BY <1>3, <1>4, <1>5 DEF Exact

\* An update of the status.
LEMMA StatusReady ==
    ASSUME ControlOK, Control, ClusterOK, TodoInv, KeysConsistent, ReadyInv,
           NEW allReady \in BOOLEAN, updateStatus(allReady)
    PROVE  ClusterOK' /\ TodoInv' /\ KeysConsistent' /\ ReadyInv'
<1> DEFINE ph == IF allReady THEN "Ready" ELSE "Provisioning"
           d == [op.cr EXCEPT !.phase = ph, !.obs = op.cr.gen]
<1>1. /\ At("apply") /\ Finished /\ (allReady => CanBeUp(op.p, op.cr.stack))
      /\ Write(d, Idle) /\ UNCHANGED <<seen, cluster, faults>>
  BY DEF updateStatus
<1>2. op.cr \in CRs /\ op.p \in Projects
  BY DEF ControlOK
<1>3. d \in [st : States, fin : BOOLEAN, gen : 1..MaxGen, stack : StackValues,
             phase : {ph}, obs : {op.cr.gen}]
      /\ d.phase = ph /\ d.stack = op.cr.stack
  BY <1>2 DEF CRs
<1> HIDE DEF d
<1>4. op' = Idle
  BY <1>1, Zenon DEF Write
<1>5. TodoInv'
  BY <1>4, Initially, NoPlan
<1>6. ClusterOK' /\ KeysConsistent'
  BY <1>1 DEF cluster, ClusterOK, KeysConsistent
<1>7. \A q \in Projects : Keeps(q)
  BY <1>1, Untouched DEF cluster
<1>8. PICK p : p = op.p
  OBVIOUS
<1>9. CASE op.cr # cr[p]
  <2>1. cr' = cr
    BY <1>1, <1>8, <1>9 DEF Write
  <2> QED
    BY <1>5, <1>6, <1>7, <2>1, ReadyKept
<1>10. CASE op.cr = cr[p]
  <2>1. cr' = [cr EXCEPT ![p] = d]
    BY <1>1, <1>8, <1>10 DEF Write
  <2>2. p \in Projects /\ cr'[p] = d /\ (\A q \in Projects : q # p => cr'[q] = cr[q])
    BY <1>2, <1>8, <2>1 DEF ControlOK, CRsOK
  <2>3. CASE allReady
    <3>1. Exact(p)
      BY <1>1, <1>8, <1>10, <2>3, FinishedIsExact
    <3>2. /\ cr[p] \in CRs /\ Sound(cr[p]) /\ cr[p].st # "none" /\ cr'[p].stack = cr[p].stack
      BY <1>1, <1>2, <1>3, <1>8, <1>10, <2>2 DEF Control, OpInv, At, Works
    <3>3. Exact(p)'
      BY <1>7, <2>2, <3>1, <3>2, ExactKept
    <3>4. ReadyInv'
      <4> SUFFICES ASSUME NEW q \in Projects, Reported(cr'[q])
                   PROVE  Exact(q)'
        BY DEF ReadyInv, Reported, Live
      <4>1. CASE q = p
        BY <3>3, <4>1
      <4>2. CASE q # p
        <5>1. cr'[q] = cr[q] /\ Reported(cr[q]) /\ Exact(q) /\ cr[q] \in CRs
              /\ Sound(cr[q]) /\ cr[q].st # "none"
          BY <2>2, <4>2 DEF ReadyInv, Reported, Live, ControlOK, CRsOK, Control, SeenInv, Earlier
        <5> QED
          BY <1>7, <5>1, ExactKept
      <4> QED
        BY <4>1, <4>2
    <3> QED
      BY <1>5, <1>6, <3>4
  <2>4. CASE ~allReady
    <3>1. d.phase = "Provisioning"
      BY <1>3, <2>4
    <3>2. \A q \in Projects : Reported(cr'[q]) => cr'[q] = cr[q]
      BY <2>2, <3>1 DEF Reported
    <3>3. ReadyInv'
      BY <1>7, <3>2, ReadyKept
    <3> QED
      BY <1>5, <1>6, <3>3
  <2> QED
    BY <2>3, <2>4
<1> QED
  BY <1>9, <1>10

-----------------------------------------------------------------------------
(* The invariant. *)

\* The worker starts a plan with all of it before it.
LEMMA PlanReady ==
    ASSUME ControlOK, Control, ClusterOK, KeysConsistent, ReadyInv, StartProvisioning
    PROVE  ClusterOK' /\ TodoInv' /\ KeysConsistent' /\ ReadyInv'
<1> DEFINE next == [op EXCEPT !.pc = "apply", !.todo = Plan(op.cr.stack)]
           d == [op.cr EXCEPT !.phase = "Provisioning"]
<1>1. At("gate") /\ ~At("idle") /\ UNCHANGED <<seen, cluster, faults>>
  BY DEF StartProvisioning, At
<1>2. op \in [pc : PCs, p : Projects, cr : CRs, todo : Seq(Writes)] /\ op.cr \in CRs
  BY DEF ControlOK
<1>3. PICK s : s = op.cr.stack
  OBVIOUS
<1>4. Plan(s) \in Seq(CallsFor(s)) /\ KeysOrdered(Plan(s))
  BY <1>1, <1>3, PlanOfCopy
<1>5. next.todo = Plan(s) /\ next.cr = op.cr
  BY <1>2, <1>3
<1>6. d \in CRs /\ d.stack = s /\ d.phase = "Provisioning"
  BY <1>2, <1>3 DEF CRs, Phases
<1>7. op' = Idle \/ op' = next \/ op' = [next EXCEPT !.cr = d]
  BY DEF StartProvisioning, WritePhase, Write
<1>8. op'.pc # "apply" \/ (op'.todo = Plan(s) /\ op'.cr.stack = s)
  <2>1. CASE op' = Idle
    BY <2>1, Initially
  <2>2. CASE op' = next
    BY <1>3, <1>5, <2>2
  <2>3. CASE op' = [next EXCEPT !.cr = d]
    BY <1>2, <1>5, <1>6, <2>3
  <2> QED
    BY <1>7, <2>1, <2>2, <2>3
<1>9. TodoInv'
  BY <1>4, <1>8 DEF TodoInv, At
<1>10. \A q \in Projects : Reported(cr'[q]) => Reported(cr[q]) /\ cr'[q].stack = cr[q].stack
  <2>1. CASE op.cr.phase \in {"", "Pending", "Queued"}
    <3>1. Write(d, next)
      BY <2>1 DEF StartProvisioning, WritePhase, AdmittedPhases
    <3>2. d \in CRs /\ d.stack = op.cr.stack /\ ~Reported(d)
      BY <1>3, <1>6 DEF Reported
    <3> HIDE DEF d, next
    <3> QED
      BY <1>1, <3>1, <3>2, WriteReady
  <2>2. CASE op.cr.phase \notin {"", "Pending", "Queued"}
    BY <2>2 DEF StartProvisioning
  <2> QED
    BY <2>1, <2>2
<1> QED
  BY <1>1, <1>9, <1>10, QuietReady DEF cluster, ClusterOK

\* Steps of the worker between plans.
LEMMA BetweenReady ==
    ASSUME ControlOK, Control, ClusterOK, KeysConsistent, ReadyInv,
           \/ \E p \in Projects : Start(p)
           \/ AddFinalizer \/ Queue \/ setFailed \/ Abandon
           \/ DeleteNamespace \/ NamespaceUnseen \/ RemoveFinalizer
    PROVE  ClusterOK' /\ TodoInv' /\ KeysConsistent' /\ ReadyInv'
<1>1. op \in [pc : PCs, p : Projects, cr : CRs, todo : Seq(Writes)] /\ op.cr \in CRs
  BY DEF ControlOK
<1>2. \A n : faults < MaxFaults /\ n = faults + 1 => n \in 0..MaxFaults
  BY ParametersAssumption DEF ClusterOK
<1>3. CASE \/ \E p \in Projects : Start(p)
           \/ Queue \/ Abandon \/ DeleteNamespace \/ NamespaceUnseen
  <2>1. /\ UNCHANGED <<cr, stacks, objs, signer, missed, aging>>
        /\ faults' = faults \/ (faults < MaxFaults /\ faults' = faults + 1)
        /\ skipped' = skipped \/ skipped' = skipped \cup {op.p}
    BY <1>3 DEF Start, Queue, WritePhase, AdmittedPhases, Abandon, DeleteNamespace,
                NamespaceUnseen, cluster, Fault
  <2>2. op'.pc # "apply"
    <3>1. CASE \E p \in Projects : Start(p)
      <4>1. PICK p \in Projects : Start(p)
        BY <3>1
      <4> DEFINE k == seen[p]
                 pc == IF k.st = "deleting" THEN "stream" ELSE IF k.fin THEN "gate" ELSE "finalizer"
      <4>2. op' = [Idle EXCEPT !.pc = pc, !.p = p, !.cr = k] /\ pc # "apply"
        BY <4>1 DEF Start
      <4> HIDE DEF pc
      <4> QED
        BY <4>2, Initially
    <3>2. CASE Queue \/ Abandon
      BY <3>2, Initially DEF Queue, WritePhase, AdmittedPhases, Abandon
    <3>3. CASE DeleteNamespace \/ NamespaceUnseen
      BY <1>1, <3>3 DEF DeleteNamespace, NamespaceUnseen
    <3> QED
      BY <1>3, <3>1, <3>2, <3>3
  <2>3. faults' \in 0..MaxFaults /\ skipped' \subseteq Projects
    BY <1>1, <1>2, <2>1 DEF ClusterOK
  <2>4. TodoInv'
    BY <2>2, NoPlan
  <2> QED
    BY <2>1, <2>3, <2>4, QuietReady
<1>4. CASE AddFinalizer
  <2> DEFINE d == [op.cr EXCEPT !.fin = TRUE]
             next == [op EXCEPT !.pc = "gate"]
  <2>1. Write(d, next) /\ ~At("idle") /\ UNCHANGED <<seen, cluster, faults>>
    BY <1>4 DEF AddFinalizer, At
  <2>2. d \in CRs /\ d.stack = op.cr.stack /\ (Reported(d) => Reported(op.cr))
    BY <1>1 DEF CRs, Reported
  <2>3. op' = Idle \/ op' = next \/ op' = [next EXCEPT !.cr = d]
    BY <2>1 DEF Write
  <2>4. op'.pc # "apply"
    BY <1>1, <2>3, Initially
  <2>5. TodoInv'
    BY <2>4, NoPlan
  <2> HIDE DEF d, next
  <2>6. \A q \in Projects : Reported(cr'[q]) => Reported(cr[q]) /\ cr'[q].stack = cr[q].stack
    BY <2>1, <2>2, WriteReady
  <2> QED
    BY <2>1, <2>5, <2>6, QuietReady DEF cluster, ClusterOK
<1>5. CASE setFailed
  <2> DEFINE d == [op.cr EXCEPT !.phase = "Failed"]
  <2>1. Write(d, Idle) /\ ~At("idle") /\ UNCHANGED <<seen, cluster>> /\ Fault
    BY <1>5 DEF setFailed, WritePhase, AdmittedPhases, At
  <2>2. d \in CRs /\ d.stack = op.cr.stack /\ ~Reported(d)
    BY <1>1 DEF CRs, Phases, Reported
  <2> HIDE DEF d
  <2>3. op' = Idle
    BY <2>1, Zenon DEF Write
  <2>4. TodoInv'
    BY <2>3, Initially, NoPlan
  <2>5. \A q \in Projects : Reported(cr'[q]) => Reported(cr[q]) /\ cr'[q].stack = cr[q].stack
    BY <2>1, <2>2, WriteReady
  <2> QED
    BY <1>2, <2>1, <2>4, <2>5, QuietReady DEF cluster, ClusterOK, Fault
<1>6. CASE RemoveFinalizer
  <2> DEFINE d == [op.cr EXCEPT !.fin = FALSE, !.st = "gone"]
  <2>1. Write(d, Idle) /\ ~At("idle") /\ UNCHANGED <<seen, cluster, faults>>
    BY <1>6 DEF RemoveFinalizer, At
  <2>2. d \in CRs /\ d.stack = op.cr.stack /\ ~Reported(d)
    BY <1>1 DEF CRs, States, Reported
  <2> HIDE DEF d
  <2>3. op' = Idle
    BY <2>1, Zenon DEF Write
  <2>4. TodoInv'
    BY <2>3, Initially, NoPlan
  <2>5. \A q \in Projects : Reported(cr'[q]) => Reported(cr[q]) /\ cr'[q].stack = cr[q].stack
    BY <2>1, <2>2, WriteReady
  <2> QED
    BY <2>1, <2>4, <2>5, QuietReady DEF cluster, ClusterOK
<1> QED
  BY <1>3, <1>4, <1>5, <1>6

\* The deletion of a stream, of a project that is being deleted.
LEMMA CleanupReady ==
    ASSUME ControlOK, Control, ClusterOK, KeysConsistent, ReadyInv, CleanupStream
    PROVE  ClusterOK' /\ TodoInv' /\ KeysConsistent' /\ ReadyInv'
<1>1. PICK p : p = op.p
  OBVIOUS
<1>2. /\ UNCHANGED <<stacks, cr, signer, missed, aging, skipped, faults>>
      /\ objs' = [objs EXCEPT ![p] = @ \ {"stream"}]
      /\ op' = [op EXCEPT !.pc = "namespace"] /\ At("stream")
  BY <1>1 DEF CleanupStream
<1>3. /\ p \in Projects /\ op'.pc = "namespace"
      /\ objs' \in [Projects -> SUBSET Objects]
      /\ \A q \in Projects \ {p} : objs'[q] = objs[q]
  BY <1>1, <1>2 DEF ControlOK, ClusterOK
<1>4. ~Reported(cr[p])
  <2>1. seen[p].st \in {"deleting", "gone"}
    BY <1>1, <1>2 DEF Control, OpInv, At, Works
  <2> QED
    BY <1>3, <2>1, Dying
<1>5. \A q \in Projects \ {p} : Keeps(q)
  BY <1>2, <1>3, Untouched
<1>6. ReadyInv'
  BY <1>2, <1>4, <1>5, ReadyKept
<1>7. TodoInv'
  BY <1>3, NoPlan
<1> QED
  BY <1>2, <1>3, <1>6, <1>7 DEF ClusterOK, KeysConsistent

\* A call of the worker leaves what is reported of the Project as it is.
LEMMA CallsReady ==
    ASSUME ControlOK, Control, ClusterOK, TodoInv, KeysConsistent, ReadyInv, Calls \/ CallMissed
    PROVE  ClusterOK' /\ TodoInv' /\ KeysConsistent' /\ ReadyInv'
<1>1. PICK p : p = op.p
  OBVIOUS
<1>2. PICK s : s = op.cr.stack
  OBVIOUS
<1>3. ClusterOK' /\ KeysConsistent' /\ Kind(p, s) /\ TodoInv' /\ At("apply")
  BY <1>1, <1>2, CallsTodo
<1>4. cr' = cr
  BY DEF Calls, CallMissed, Apply, MintKeys, DeriveKey, ExpireKey, DropFails
<1>5. \A q \in Projects : q # p => Keeps(q)
  BY <1>3, Untouched DEF Kind
<1>6. ASSUME NEW q \in Projects, q = p, Reported(cr[q])
      PROVE  cr[q].stack = s
  <2>1. /\ cr[q] \in CRs /\ seen[q] \in CRs /\ op.cr \in CRs
        /\ Earlier(seen[q], cr[q]) /\ Works(op.pc, op.cr, seen[q], cr[q])
    BY <1>1, <1>3, <1>6 DEF ControlOK, CRsOK, Control, SeenInv, OpInv, At
  <2>2. op.cr.gen = cr[q].gen /\ op.cr.gen <= seen[q].gen
    BY <1>6, <2>1 DEF Reported, Works
  <2>3. seen[q].gen <= cr[q].gen
    BY <2>1 DEF Earlier, Works
  <2>4. seen[q].gen = cr[q].gen
    BY <2>1, <2>2, <2>3, Fields
  <2>5. op.cr.gen = seen[q].gen /\ seen[q].st # "none"
    BY <2>1, <2>2, <2>4 DEF Works
  <2> QED
    BY <1>2, <2>1, <2>4, <2>5 DEF Earlier, Works
<1>7. ReadyInv'
  <2>1. ASSUME NEW q \in Projects, Reported(cr[q])
        PROVE  Keeps(q) \/ \E t \in {cr[q].stack} : Kind(q, t)
    <3>1. CASE q = p
      BY <1>3, <1>6, <2>1, <3>1
    <3>2. CASE q # p
      BY <1>5, <3>2
    <3> QED
      BY <3>1, <3>2
  <2> QED
    BY <1>4, <2>1, ReadyKept
<1> QED
  BY <1>3, <1>7

\* The invariant, in the parts it is proved in.
LEMMA Splits == /\ TypeOK <=> ControlOK /\ ClusterOK
                /\ IInv <=> TypeOK /\ Control /\ TodoInv /\ KeysConsistent /\ ReadyInv
BY DEF TypeOK, ControlOK, CRsOK, ClusterOK, IInv, Control

\* The invariant holds at first.
LEMMA InitInvariant == Init => IInv
<1> SUFFICES ASSUME Init
             PROVE  IInv
  OBVIOUS
<1>1. NoProject \in CRs
  BY Initially
<1>2. ControlOK
  BY Initially DEF Init, ControlOK, CRsOK
<1>3. ClusterOK
  BY ParametersAssumption DEF Init, ClusterOK
<1>4. \A p \in Projects : cr[p] = NoProject /\ seen[p] = NoProject
  BY DEF Init
<1>5. Earlier(NoProject, NoProject)
  <2>1. NoProject.obs <= NoProject.gen /\ NoProject.obs # NoProject.gen
    <3>1. NoProject.obs = 0 /\ NoProject.gen = 1
      BY Initially
    <3> QED
      BY <3>1
  <2>2. NoProject.st = "none" /\ NoProject.phase = "" /\ NoProject.obs = 0
    BY Initially
  <2> QED
    BY <2>1, <2>2 DEF Earlier, Sound
<1>6. Control
  BY <1>4, <1>5, Initially DEF Init, Control, SeenInv, OpInv, GoneInv, At
<1>7. TodoInv
  BY Initially DEF Init, TodoInv, At
<1>8. KeysConsistent
  BY DEF Init, KeysConsistent, JwtSecrets
<1>9. ReadyInv
  BY <1>4, Initially DEF ReadyInv, Live
<1> QED
  BY <1>2, <1>3, <1>6, <1>7, <1>8, <1>9, Splits

\* Every step keeps it.
LEMMA NextInvariant == IInv /\ [Next]_vars => IInv'
<1> SUFFICES ASSUME IInv, [Next]_vars
             PROVE  IInv'
  OBVIOUS
<1>1. ControlOK /\ ClusterOK /\ Control /\ TodoInv /\ KeysConsistent /\ ReadyInv
  BY Splits
<1>2. ControlOK' /\ Control'
  BY <1>1, ControlStep DEF ClusterOK
<1>3. ClusterOK' /\ TodoInv' /\ KeysConsistent' /\ ReadyInv'
  <2>1. CASE Environment
    BY <1>1, <2>1, UsersReady, OutsideReady, NamespaceReady DEF Environment
  <2>2. CASE \E p \in Projects : Start(p)
    BY <1>1, <2>2, BetweenReady
  <2>3. CASE Steps
    BY <1>1, <2>3, BetweenReady, PlanReady, CleanupReady, CallsReady DEF Steps
  <2>4. CASE \E allReady \in BOOLEAN : updateStatus(allReady)
    BY <1>1, <2>4, StatusReady
  <2>5. CASE CallMissed \/ setFailed \/ Abandon \/ NamespaceUnseen
    BY <1>1, <2>5, BetweenReady, CallsReady
  <2>6. CASE UNCHANGED vars
    <3>1. \A q \in Projects : Keeps(q)
      BY <2>6, Untouched DEF vars
    <3>2. TodoInv' /\ ReadyInv'
      BY <1>1, <2>6, <3>1, TodoKept, ReadyKept DEF vars
    <3> QED
      BY <1>1, <2>6, <3>2 DEF vars, ClusterOK, KeysConsistent
  <2> QED
    BY <2>1, <2>2, <2>3, <2>4, <2>5, <2>6 DEF Next, Worker
<1> QED
  <2>1. TypeOK'
    BY <1>2, <1>3 DEF TypeOK, ControlOK, CRsOK, ClusterOK
  <2> QED
    BY <1>2, <1>3, <2>1 DEF IInv, Control

\* What Ready says is what ReadyIsExact asks.
LEMMA ExactIsReady == IInv => ReadyIsExact
<1> SUFFICES ASSUME IInv, NEW p \in Projects, Reported(cr[p])
             PROVE  LET s == cr[p].stack
                    IN  /\ \A o \in Wanted(s) \ RoleKeys : HasObject(p, o)
                        /\ objs[p] \subseteq Wanted(s) \cup missed[p] \cup {"db-app", "gotrue-db-url"}
  BY DEF ReadyIsExact, Reported, Live
<1>1. PICK s : s = cr[p].stack
  OBVIOUS
<1>2. /\ \A w \in Items(Plan(s)) : Held(p, w)
      /\ s.pg => "gotrue-db-url" \in objs[p]
  BY <1>1 DEF IInv, ReadyInv, Reported, Live, Exact
<1>3. cr[p] \in CRs /\ Sound(cr[p]) /\ cr[p].st # "none" /\ objs[p] \subseteq Objects
  BY DEF IInv, TypeOK, SeenInv, Earlier, Reported
<1>4. s \in StackValues /\ (s.rest => s.pg)
  BY <1>1, <1>3, Fields DEF Sound
<1>5. Plan(s) \in Seq(CallsFor(s)) /\ Objects \ Derivative \subseteq Touched(Plan(s))
  BY <1>4, PlanFacts
<1>6. ASSUME NEW i \in DOMAIN Plan(s)
      PROVE  Shape(Plan(s)[i], s) /\ Held(p, Plan(s)[i])
  <2>1. Plan(s)[i] \in CallsFor(s) /\ Plan(s)[i] \in Items(Plan(s))
    BY <1>5 DEF Items
  <2> QED
    BY <1>2, <1>4, <2>1, CallShape
<1>7. ASSUME NEW o \in Wanted(s) \ RoleKeys
      PROVE  HasObject(p, o)
  <2>1. PICK i \in DOMAIN Plan(s) :
           Plan(s)[i].obj = o /\ Plan(s)[i].do \in {"put", "mint", "derive"}
    BY DEF Wanted
  <2>2. PICK w : w = Plan(s)[i]
    OBVIOUS
  <2>3. Shape(w, s) /\ Held(p, w) /\ w.obj = o /\ w.do \in {"put", "mint", "derive"}
    BY <1>6, <2>1, <2>2
  <2>4. CASE w.do = "put"
    <3>1. o \notin JwtSecrets /\ o \in objs[p] \cup {"gotrue-db-url"} /\ (o = "gotrue-db-url" => s.pg)
      BY <2>3, <2>4 DEF Shape, Held
    <3> QED
      BY <1>2, <3>1 DEF HasObject
  <2>5. CASE w.do \in {"mint", "derive"}
    <3>1. o \in JwtSecrets
      BY <2>3, <2>5 DEF Shape, JwtSecrets
    <3>2. signer[p][o] # 0
      BY <1>7, <2>3, <2>5 DEF Held
    <3> QED
      BY <3>1, <3>2 DEF HasObject
  <2> QED
    BY <2>3, <2>4, <2>5
<1>8. ASSUME NEW o \in objs[p], o \notin {"db-app", "gotrue-db-url"}
      PROVE  o \in Wanted(s) \cup missed[p]
  <2>1. o \in Objects \ Derivative
    BY <1>3, <1>8 DEF Derivative
  <2>2. PICK i \in DOMAIN Plan(s) :
           Plan(s)[i].obj = o /\ Plan(s)[i].do \in {"put", "delete", "drop", "mint"}
    BY <1>5, <2>1 DEF Touched
  <2>3. PICK w : w = Plan(s)[i]
    OBVIOUS
  <2>4. Shape(w, s) /\ Held(p, w) /\ w.obj = o /\ w.do \in {"put", "delete", "drop", "mint"}
    BY <1>6, <2>2, <2>3
  <2>5. CASE w.do = "put"
    BY <2>2, <2>3, <2>5 DEF Wanted
  <2>6. CASE w.do \in {"delete", "drop"}
    BY <2>4, <2>6 DEF Held
  <2>7. w.do # "mint"
    <3>1. "gotrue-jwt-keys" \notin Objects
      BY DEF Objects, Isolators
    <3> QED
      BY <2>1, <2>4, <3>1 DEF Shape
  <2> QED
    BY <2>4, <2>5, <2>6, <2>7
<1> QED
  BY <1>1, <1>7, <1>8

(* The invariant holds in every state. *)
THEOREM Invariance == Spec => []IInv
BY InitInvariant, NextInvariant, PTL DEF Spec

(* Every variable keeps its type: the generations, key pairs and objects   *)
(* stay within what the API server, the cluster and the builders know.     *)
THEOREM TypeCorrect == Spec => []TypeOK
<1>1. IInv => TypeOK
  BY DEF IInv
<1> QED
  BY <1>1, Invariance, PTL

(* reconcileJWTKeys, ensureJWTVerificationKey and ensureRoleKeySecret: the *)
(* Secrets written one by one, across failures, restarts and renewals,     *)
(* belong to the key pair GoTrue signs with.                               *)
THEOREM OneKeyPair == Spec => []KeysConsistent
<1>1. IInv => KeysConsistent
  BY DEF IInv
<1> QED
  BY <1>1, Invariance, PTL

(* updateStatus and the reconcile... functions before it: a generation     *)
(* reported Ready has its objects and, but for deletes that failed         *)
(* unnoticed, no other.                                                    *)
THEOREM ReadyMeansExact == Spec => []ReadyIsExact
BY ExactIsReady, Invariance, PTL

-----------------------------------------------------------------------------
(* The contract. *)

\* The Projects as the contract sees them.
View(c) == [p \in Projects |-> [st |-> c[p].st, phase |-> c[p].phase]]
ShowsPhase(w, v, p, ph) == w = [v EXCEPT ![p].phase = ph]
ShowsState(w, v, p, st) == w = [v EXCEPT ![p].st = st]

\* The contract sees the phase that is written, or the state.
LEMMA ViewOfWrite ==
    ASSUME NEW c \in [Projects -> CRs], NEW p \in Projects, NEW d \in CRs
    PROVE  /\ d.st = c[p].st => ShowsPhase(View([c EXCEPT ![p] = d]), View(c), p, d.phase)
           /\ d.phase = c[p].phase => ShowsState(View([c EXCEPT ![p] = d]), View(c), p, d.st)
<1> DEFINE e == [c EXCEPT ![p] = d]
           r(x) == [st |-> x.st, phase |-> x.phase]
<1>1. e \in [Projects -> CRs] /\ e[p] = d /\ \A q \in Projects \ {p} : e[q] = c[q]
  OBVIOUS
<1>2. View(c) = [q \in Projects |-> r(c[q])] /\ View(e) = [q \in Projects |-> r(e[q])]
  BY DEF View
<1>3. View(e) = [View(c) EXCEPT ![p] = r(d)]
  <2> HIDE DEF e, r
  <2> QED
    BY <1>1, <1>2
<1>4. View(c)[p] = r(c[p])
  BY <1>2
<1>5. ASSUME d.st = c[p].st
      PROVE  View(e) = [View(c) EXCEPT ![p].phase = d.phase]
  <2>1. [r(c[p]) EXCEPT !.phase = d.phase] = r(d)
    BY <1>5
  <2> HIDE DEF e, r
  <2> QED
    BY <1>3, <1>4, <2>1
<1>6. ASSUME d.phase = c[p].phase
      PROVE  View(e) = [View(c) EXCEPT ![p].st = d.st]
  <2>1. [r(c[p]) EXCEPT !.st = d.st] = r(d)
    BY <1>6
  <2> HIDE DEF e, r
  <2> QED
    BY <1>3, <1>4, <2>1
<1> QED
  BY <1>5, <1>6 DEF ShowsPhase, ShowsState

\* The contract's steps, over that view.
LEMMA ContractSteps ==
    ASSUME NEW p \in Projects, cr \in [Projects -> CRs]
    PROVE  /\ /\ Live(p) /\ cr[p].phase = ""
              /\ MaxTotalProjects > 0 => Cardinality(Admitted) < MaxTotalProjects
              /\ ShowsPhase(View(cr'), View(cr), p, "Provisioning")
              => Contract!Next
           /\ /\ Live(p) /\ cr[p].phase # ""
              /\ \E ph \in {"Provisioning", "Ready", "Failed"} :
                    ShowsPhase(View(cr'), View(cr), p, ph)
              => Contract!Next
           /\ cr[p].st = "deleting" /\ ShowsState(View(cr'), View(cr), p, "gone")
              => Contract!Next
           /\ cr[p].st = "none" /\ ShowsState(View(cr'), View(cr), p, "live")
              => Contract!Next
           /\ Live(p) /\ (\E st \in {"deleting", "gone"} : ShowsState(View(cr'), View(cr), p, st))
              => Contract!Next
<1>1. \A q \in Projects : Contract!Live(q) <=> Live(q)
  BY DEF Contract!Live, Live
<1>0. Contract!Admitted = Admitted
  BY <1>1 DEF Contract!Admitted, Admitted
<1>2. Contract!Cardinality(Contract!Admitted) = Cardinality(Admitted)
  <2>2. \A S : Contract!Cardinality(S) = Cardinality(S)
    BY Zenon DEF Contract!Cardinality, Cardinality
  <2> QED
    BY <1>0, <2>2, Zenon
<1> USE <1>1 DEF View, ShowsPhase, ShowsState
<1>3. /\ Live(p) /\ cr[p].phase = ""
      /\ MaxTotalProjects > 0 => Cardinality(Admitted) < MaxTotalProjects
      /\ ShowsPhase(View(cr'), View(cr), p, "Provisioning")
      => Contract!Admit(p)
  BY <1>2 DEF Contract!Admit, Contract!Room
<1>4. /\ Live(p) /\ cr[p].phase # ""
      /\ \E ph \in {"Provisioning", "Ready", "Failed"} :
            ShowsPhase(View(cr'), View(cr), p, ph)
      => Contract!Report(p)
  BY <1>0 DEF Contract!Report, Admitted
<1>5. cr[p].st = "deleting" /\ ShowsState(View(cr'), View(cr), p, "gone")
      => Contract!Release(p)
  BY DEF Contract!Release
<1>6. cr[p].st = "none" /\ ShowsState(View(cr'), View(cr), p, "live")
      => Contract!Create(p)
  BY DEF Contract!Create
<1>7. Live(p) /\ (\E st \in {"deleting", "gone"} : ShowsState(View(cr'), View(cr), p, st))
      => Contract!Delete(p)
  BY DEF Contract!Delete
<1> HIDE DEF View, ShowsPhase, ShowsState
<1> QED
  BY <1>3, <1>4, <1>5, <1>6, <1>7 DEF Contract!Next, Contract!Controller, Contract!Client

\* Numbers below a limit.
LEMMA Below ==
    /\ \A m, n \in Nat : ~(n >= m) => n < m
    /\ \A k, n, m \in Nat : k <= n /\ n < m => k < m
OBVIOUS

\* A project that was let through is live in the informer, and another one.
LEMMA GateHasRoom ==
    ASSUME SeenInv, NEW p \in Projects, cr[p].phase = "", MaxTotalProjects > 0,
           ~(activeCount(p) >= MaxTotalProjects)
    PROVE  Cardinality(Admitted) < MaxTotalProjects
<1> DEFINE A == {q \in Projects \ {p} : seen[q].st = "live"}
<1>1. IsFiniteSet(A) /\ Cardinality(A) \in Nat
  BY ParametersAssumption, FS_Subset, FS_CardinalityType
<1>2. ASSUME NEW q \in Admitted
      PROVE  q \in A
  <2>1. q \in Projects /\ cr[q].st = "live" /\ cr[q].phase # "" /\ q # p
    BY <1>2 DEF Admitted, Live
  <2>2. seen[q].st \in {"none", "live"} /\ seen[q].st # "none"
    BY <2>1 DEF SeenInv, Earlier
  <2> QED
    BY <2>1, <2>2
<1>3. IsFiniteSet(Admitted) /\ Cardinality(Admitted) <= Cardinality(A)
  BY <1>1, <1>2, FS_Subset
<1>4. Cardinality(Admitted) \in Nat
  BY <1>3, FS_CardinalityType
<1> HIDE DEF A
<1>6. MaxTotalProjects \in Nat
  BY ParametersAssumption
<1>7. Cardinality(A) < MaxTotalProjects
  <2>1. activeCount(p) = Cardinality(A)
    BY DEF activeCount, A
  <2>2. ~(Cardinality(A) >= MaxTotalProjects)
    BY <2>1, Zenon
  <2> QED
    BY <1>1, <1>6, <2>2, Below, Zenon
<1> QED
  BY <1>1, <1>3, <1>4, <1>6, <1>7, Below, Zenon

\* What a reported status makes of a Project.
Statuses(c, ph, obs) == {[c EXCEPT !.phase = ph], [c EXCEPT !.phase = ph, !.obs = obs]}

\* It is a Project, of the same state and with that phase.
LEMMA Reports ==
    ASSUME NEW c \in CRs, NEW ph \in {"Provisioning", "Ready", "Failed"}, NEW obs \in 0..MaxGen,
           NEW d \in Statuses(c, ph, obs)
    PROVE  d \in CRs /\ d.st = c.st /\ d.phase = ph
<1>1. ph \in Phases
  BY DEF Phases
<1> QED
  BY <1>1 DEF CRs, Statuses

\* What a write of the worker does to the Projects.
LEMMA WriteOutcome ==
    ASSUME NEW d, NEW next, Write(d, next)
    PROVE  \/ UNCHANGED cr
           \/ op.cr = cr[op.p] /\ cr' = [cr EXCEPT ![op.p] = d]
<1>1. CASE op.cr = cr[op.p]
  BY <1>1, Zenon DEF Write
<1>2. CASE op.cr # cr[op.p]
  BY <1>2, Zenon DEF Write
<1> QED
  BY <1>1, <1>2, Zenon

\* The worker's copy is the Project it writes to.
LEMMA WorkerFacts ==
    ASSUME ControlOK, SeenInv, OpInv, ~At("idle"), op.cr = cr[op.p]
    PROVE  /\ op.p \in Projects
           /\ op.pc \in {"finalizer", "gate", "apply"} => cr[op.p].st = "live"
           /\ op.pc = "apply" => cr[op.p].phase # ""
           /\ op.pc = "release" => cr[op.p].st = "deleting"
BY DEF ControlOK, OpInv, Works, At

\* Every step of the controller and its users is one of the contract's, or leaves
\* the Projects as the contract sees them.
LEMMA StepContract ==
    IInv /\ [Next]_vars
    => [Contract!Next]_([p \in Projects |-> [st |-> cr[p].st, phase |-> cr[p].phase]])
<1> SUFFICES ASSUME IInv, [Next]_vars, View(cr') # View(cr)
             PROVE  Contract!Next
  BY DEF View
<1>1. ControlOK /\ SeenInv /\ OpInv /\ cr \in [Projects -> CRs]
  BY Splits DEF IInv, ControlOK, CRsOK
<1>2. cr' # cr
  OBVIOUS
<1>written. ASSUME ~At("idle"), NEW next,
               NEW ph \in {"Provisioning", "Ready", "Failed"}, NEW obs \in 0..MaxGen,
               \/ Write([op.cr EXCEPT !.phase = ph], next)
               \/ Write([op.cr EXCEPT !.phase = ph, !.obs = obs], next)
        PROVE  /\ op.cr = cr[op.p] /\ op.p \in Projects
               /\ ShowsPhase(View(cr'), View(cr), op.p, ph)
  <2>1. PICK d \in Statuses(op.cr, ph, obs) : Write(d, next)
    BY <1>written DEF Statuses
  <2>2. op.cr = cr[op.p] /\ cr' = [cr EXCEPT ![op.p] = d]
    BY <1>2, <2>1, WriteOutcome
  <2>3. op.p \in Projects
    BY <1>1 DEF ControlOK
  <2>4. cr[op.p] \in CRs
    BY <1>1, <2>3
  <2>9. op.cr \in CRs /\ ph \in {"Provisioning", "Ready", "Failed"} /\ obs \in 0..MaxGen
    BY <1>written, <2>2, <2>4
  <2>6. d \in CRs /\ d.st = op.cr.st /\ d.phase = ph
    BY <2>9, Reports
  <2>5. d \in CRs /\ d.st = cr[op.p].st /\ d.phase = ph
    BY <2>2, <2>6
  <2> QED
    BY <1>1, <2>2, <2>3, <2>5, ViewOfWrite
<1>reported. ASSUME At("apply"), NEW ph \in {"Provisioning", "Ready", "Failed"},
              op.cr = cr[op.p], op.p \in Projects,
              ShowsPhase(View(cr'), View(cr), op.p, ph)
       PROVE  Contract!Next
  <2>1. Live(op.p) /\ cr[op.p].phase # ""
    BY <1>1, <1>reported, WorkerFacts DEF At, Live
  <2> QED
    BY <1>1, <1>reported, <2>1, ContractSteps
<1>3. ASSUME NEW p \in Projects, CreateProject(p)
      PROVE  Contract!Next
  <2> DEFINE c == cr[p]
  <2>1. PICK s \in stacks[p] : cr' = [cr EXCEPT ![p].st = "live", ![p].stack = s]
    BY <1>3 DEF CreateProject
  <2>2. s \in StackValues /\ stacks \in Scenarios
    BY SoundStacks, Splits DEF IInv, ClusterOK
  <2> DEFINE d == [[c EXCEPT !.st = "live"] EXCEPT !.stack = s]
  <2>3. cr' = [cr EXCEPT ![p] = d]
    BY <1>1, <2>1
  <2>4. d \in CRs /\ d.st = "live" /\ d.phase = c.phase
    BY <1>1, <2>2 DEF CRs, States
  <2> HIDE DEF d
  <2>5. ShowsState(View(cr'), View(cr), p, "live")
    BY <1>1, <2>3, <2>4, ViewOfWrite
  <2> QED
    BY <1>1, <1>3, <2>5, ContractSteps DEF CreateProject
<1>4. ASSUME NEW p \in Projects, DeleteProject(p)
      PROVE  Contract!Next
  <2> DEFINE st == IF cr[p].fin THEN "deleting" ELSE "gone"
             d == [cr[p] EXCEPT !.st = st]
  <2>1. cr' = [cr EXCEPT ![p] = d]
    BY <1>1, <1>4 DEF DeleteProject
  <2>2. d \in CRs /\ d.st = st /\ d.phase = cr[p].phase /\ st \in {"deleting", "gone"}
    BY <1>1 DEF CRs, States
  <2> HIDE DEF d, st
  <2>3. ShowsState(View(cr'), View(cr), p, st)
    BY <1>1, <2>1, <2>2, ViewOfWrite
  <2> QED
    BY <1>1, <1>4, <2>2, <2>3, ContractSteps DEF DeleteProject
<1>5. ASSUME NEW p \in Projects, EditStack(p)
      PROVE  FALSE
  BY <1>1, <1>5 DEF EditStack, View
<1>6. CASE AddFinalizer
  <2> DEFINE d == [op.cr EXCEPT !.fin = TRUE]
  <2>1. op.cr = cr[op.p] /\ cr' = [cr EXCEPT ![op.p] = d]
    BY <1>2, <1>6, WriteOutcome DEF AddFinalizer
  <2>2. op.p \in Projects
    BY <1>1 DEF ControlOK
  <2>3. cr[op.p] \in CRs
    BY <1>1, <2>2
  <2>4. d.st = cr[op.p].st /\ d.phase = cr[op.p].phase
    BY <2>1, <2>3 DEF CRs
  <2> HIDE DEF d
  <2>5. View(cr') = View(cr)
    BY <1>1, <2>1, <2>2, <2>4 DEF View
  <2> QED
    BY <2>5
<1>7. CASE Queue
  BY <1>2, <1>7 DEF Queue, WritePhase, AdmittedPhases
<1>8. CASE StartProvisioning
  <2>1. WritePhase("Provisioning", [op EXCEPT !.pc = "apply", !.todo = Plan(op.cr.stack)])
        /\ op.cr.phase \in {"", "Pending", "Queued"}
    BY <1>2, <1>8, Zenon DEF StartProvisioning
  <2>2. Write([op.cr EXCEPT !.phase = "Provisioning"],
              [op EXCEPT !.pc = "apply", !.todo = Plan(op.cr.stack)])
    BY <2>1 DEF WritePhase, AdmittedPhases
  <2>3. ~At("idle")
    BY <1>8 DEF StartProvisioning, At
  <2>4. 0 \in 0..MaxGen
    BY ParametersAssumption
  <2>5. /\ op.cr = cr[op.p] /\ op.p \in Projects
        /\ ShowsPhase(View(cr'), View(cr), op.p, "Provisioning")
    BY <1>written, <2>2, <2>3, <2>4
  <2>6. Live(op.p)
    BY <1>1, <1>8, <2>3, <2>5, WorkerFacts DEF StartProvisioning, At, Live
  <2>7. CASE cr[op.p].phase # ""
    BY <1>1, <2>5, <2>6, <2>7, ContractSteps
  <2>8. CASE cr[op.p].phase = ""
    <3>1. MaxTotalProjects > 0 => ~(activeCount(op.p) >= MaxTotalProjects)
      BY <1>8, <2>5, <2>8 DEF StartProvisioning, LimitReached
    <3>2. MaxTotalProjects > 0 => Cardinality(Admitted) < MaxTotalProjects
      BY <1>1, <2>5, <2>8, <3>1, GateHasRoom
    <3> QED
      BY <1>1, <2>5, <2>6, <2>8, <3>2, ContractSteps
  <2> QED
    BY <2>7, <2>8
<1>9. ASSUME NEW allReady \in BOOLEAN, updateStatus(allReady)
      PROVE  Contract!Next
  <2>1. ~At("idle") /\ op.cr \in CRs
    BY <1>1, <1>9 DEF updateStatus, At, ControlOK
  <2>2. op.cr.gen \in 0..MaxGen
    BY <2>1, ParametersAssumption DEF CRs
  <2>3. PICK ph \in {"Provisioning", "Ready", "Failed"} :
            Write([op.cr EXCEPT !.phase = ph, !.obs = op.cr.gen], Idle)
    BY <1>9 DEF updateStatus
  <2> QED
    BY <1>9, <1>written, <1>reported, <2>1, <2>2, <2>3 DEF updateStatus
<1>10. CASE setFailed
  <2>1. ~At("idle") /\ Write([op.cr EXCEPT !.phase = "Failed"], Idle)
    BY <1>10 DEF setFailed, At, WritePhase, AdmittedPhases
  <2>2. 0 \in 0..MaxGen
    BY ParametersAssumption
  <2> QED
    BY <1>10, <1>written, <1>reported, <2>1, <2>2 DEF setFailed
<1>11. CASE RemoveFinalizer
  <2> DEFINE d == [op.cr EXCEPT !.fin = FALSE, !.st = "gone"]
  <2>1. op.cr = cr[op.p] /\ cr' = [cr EXCEPT ![op.p] = d] /\ ~At("idle")
    BY <1>2, <1>11, WriteOutcome DEF RemoveFinalizer, At
  <2>2. op.p \in Projects /\ cr[op.p].st = "deleting"
    BY <1>1, <1>11, <2>1, WorkerFacts DEF RemoveFinalizer, At
  <2>3. d \in CRs /\ d.st = "gone" /\ d.phase = cr[op.p].phase
    BY <1>1, <2>1, <2>2 DEF CRs, States
  <2> HIDE DEF d
  <2>4. ShowsState(View(cr'), View(cr), op.p, "gone")
    BY <1>1, <2>1, <2>2, <2>3, ViewOfWrite
  <2> QED
    BY <1>1, <2>2, <2>4, ContractSteps
<1>12. CASE Calls \/ CallMissed
  BY <1>2, <1>12 DEF Calls, CallMissed, Apply, MintKeys, DeriveKey, ExpireKey, DropFails
<1>13. CASE CleanupStream \/ DeleteNamespace \/ NamespaceUnseen \/ Abandon
  BY <1>2, <1>13 DEF CleanupStream, DeleteNamespace, NamespaceUnseen, Abandon
<1>14. CASE (\E p \in Projects : Start(p))
  BY <1>2, <1>14 DEF Start
<1>15. CASE (\E p \in Projects : Sync(p) \/ CNPG(p) \/ NamespaceTerminates(p) \/ KeyAges(p))
  BY <1>2, <1>15 DEF Sync, CNPG, NamespaceTerminates, KeyAges
<1>16. CASE UNCHANGED vars
  BY <1>2, <1>16 DEF vars
<1> QED
  BY <1>3, <1>4, <1>5, <1>6, <1>7, <1>8, <1>9, <1>10, <1>11, <1>12, <1>13, <1>14, <1>15,
     <1>16 DEF Next, Worker, Steps, Environment

(* Reconcile and handleDeletion: whatever the informer misses, the         *)
(* controller implements the one atomic gate that Project MS and its users *)
(* rely on.                                                                *)
THEOREM ContractImplemented == Spec => ImplementsContract
<1>1. Init => Contract!Init
  <2>1. NoProject.st = "none" /\ NoProject.phase = ""
    BY Initially
  <2> QED
    BY <2>1 DEF Init, Contract!Init, Contract!NoObject
<1> QED
  BY <1>1, StepContract, Invariance, PTL DEF Spec, ImplementsContract, Contract!Spec
=============================================================================
