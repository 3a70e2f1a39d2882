------------------------- MODULE ProjectServiceProofs -------------------------
(***************************************************************************)
(* Theorems about ProjectService, for every number of requests, failures,  *)
(* projects and secrets: the types; the limit on projects is exceeded by   *)
(* no more than the requests in flight; with no request in flight rows     *)
(* and objects, and the rows of secrets and their Secrets, agree.          *)
(*                                                                         *)
(* While requests are in flight the two stores may disagree, but only      *)
(* about what some request is still going to put right: Agrees says so of  *)
(* a project, Settled of a secret.  The two halves of a change to a secret *)
(* are calls of one request, between which others may run; a row id is     *)
(* never given twice, which is what makes a late half harmless.            *)
(***************************************************************************)
EXTENDS ProjectService, FiniteSetTheorems, TLAPS

-----------------------------------------------------------------------------
(* The inductive invariant. *)

\* Requests on projects that rely on their rows, and on secrets; those between
\* the two halves of a change to a secret.
RowPCs == {"createCR", "phase", "update", "deleteCR"}
NamePCs == {"createSecret", "insertMeta", "cleanup",
            "updateSecret", "deleteSecret", "deleteMeta"}
HalfPCs == {"insertMeta", "cleanup", "deleteMeta"}

\* What a request holds, against the rows rw and the objects pr.
ProjectFits(q, rw, pr) ==
    /\ q.pc \in RowPCs => rw[q.id] # "none"
    /\ q.pc = "deleteCR" => rw[q.id] = "deleted"
    /\ q.pc = "createCR" => pr[q.id].st = "none"
    /\ q.pc \in {"phase", "update"} => q.status \notin {"none", "deleted"}
SecretFits(q, last) ==
    /\ q.sid <= last
    /\ q.pc \in NamePCs => q.name \in SecretNames
    /\ q.pc \in {"updateSecret", "deleteSecret", "deleteMeta"} => q.sid # 0
FitInv == \A r \in Reqs :
    /\ ProjectFits(reqs[r], rows, project)
    /\ SecretFits(reqs[r], sids)
    /\ reqs[r].pc # "idle" => r \in usage.reqs

\* An id is created by one request, which inserted its row.
CreatorsInv == \A r, q \in Reqs :
    reqs[r].pc = "createCR" /\ reqs[q].pc = "createCR" /\ reqs[r].id = reqs[q].id => r = q

\* An active row has an object, or a request that will create it; a deleted one
\* has none, nor will it, but for a request that will delete it.
On(R, r, pc, i) == R[r].pc = pc /\ R[r].id = i
Agrees(i, rw, st, R) ==
    /\ rw \notin {"none", "deleted"} => st = "live" \/ \E r \in Reqs : On(R, r, "createCR", i)
    /\ rw = "deleted" /\ (st = "live" \/ \E r \in Reqs : On(R, r, "createCR", i))
          => \E r \in Reqs : On(R, r, "deleteCR", i)
ProjectsInv == \A i \in Ids :
    /\ rows[i] = "none" => project[i].st = "none"
    /\ i \notin astray => Agrees(i, rows[i], project[i].st, reqs)

\* A secret with row id m and with an entry in the Secret k, or not.  A row without
\* entry is about to be deleted; an entry without row, or with one about to be deleted,
\* is of a request that will insert or remove it; while one will insert it the
\* entry is there; who removes it removes it for a row about to be deleted, if any.
For(R, r, pc, n) == R[r].pc = pc /\ R[r].name = n
Doomed(n, m, R) == \E r \in Reqs : For(R, r, "deleteMeta", n) /\ R[r].sid = m
Settled(n, m, k, R) ==
    /\ m # 0 /\ n \notin k => Doomed(n, m, R)
    /\ n \in k /\ (m = 0 \/ Doomed(n, m, R))
          => \E r \in Reqs : For(R, r, "insertMeta", n) \/ For(R, r, "cleanup", n)
    /\ \A r \in Reqs : For(R, r, "insertMeta", n) =>
          /\ n \in k
          /\ m # 0 => Doomed(n, m, R)
          /\ \A q \in Reqs : For(R, q, "insertMeta", n) => q = r
    /\ \A r \in Reqs : For(R, r, "cleanup", n) /\ m # 0 /\ R[r].sid = m => Doomed(n, m, R)
RowIdsInv == \A n \in SecretNames : meta[n] <= sids
SecretsInv ==
    /\ project[Home].st = "none" =>
          /\ \A s \in K8sNames : k8s[s] = {}
          /\ \A n \in SecretNames : meta[n] = 0
          /\ \A r \in Reqs : reqs[r].pc \notin HalfPCs
          /\ sids = 0
    /\ project[Home].st = "live" =>
          \A n \in SecretNames \ torn : Settled(n, meta[n], k8s[SecretOf(n)], reqs)

IInv == /\ TypeOK /\ OverrunBounded
        /\ FitInv /\ CreatorsInv /\ ProjectsInv /\ RowIdsInv /\ SecretsInv

-----------------------------------------------------------------------------
(* Requests. *)

LEMMA DoneFacts ==
    /\ Done \in ReqRecs /\ Done.pc = "idle" /\ Done.id = Home /\ Home \in Ids
    /\ Done.status = "none" /\ Done.key = "" /\ Done.name = "" /\ Done.sid = 0
<1>1. Home \in Ids /\ 0 \in 0..MaxSids
  BY ServiceAssumption
<1> QED
  BY <1>1 DEF Done, ReqRecs, PCs, Statuses

\* A request that is over, or has not begun, fits.
LEMMA DoneFits ==
    ASSUME NEW rw, NEW pr, NEW last \in Nat
    PROVE  ProjectFits(Done, rw, pr) /\ SecretFits(Done, last)
<1>1. ProjectFits(Done, rw, pr)
  BY DoneFacts DEF ProjectFits, RowPCs
<1>2. Done.sid <= last
  <2>1. 0 <= last
    OBVIOUS
  <2>2. Done.sid = 0
    BY DoneFacts, Zenon
  <2> QED
    BY <2>1, <2>2, Zenon
<1> QED
  BY <1>1, <1>2, DoneFacts DEF SecretFits, NamePCs

\* The numbers of a state.
LEMMA Numbers ==
    ASSUME TypeOK
    PROVE  /\ MaxSids \in Nat /\ sids \in Nat /\ sids <= MaxSids
           /\ \A n \in SecretNames : meta[n] \in Nat
           /\ \A r \in Reqs : reqs[r] \in ReqRecs /\ reqs[r].sid \in Nat
           /\ usage \in Usages /\ usage.fails \in Nat /\ fails \in Nat
<1>1. MaxSids \in Nat
  BY ServiceAssumption
<1>2. sids \in Nat /\ sids <= MaxSids /\ \A n \in SecretNames : meta[n] \in Nat
  BY <1>1 DEF TypeOK
<1>3. \A r \in Reqs : reqs[r] \in ReqRecs /\ reqs[r].sid \in Nat
  <2>1. ASSUME NEW r \in Reqs
        PROVE  reqs[r] \in ReqRecs
    BY DEF TypeOK
  <2>2. ASSUME NEW r \in Reqs
        PROVE  reqs[r].sid \in 0..MaxSids
    BY <2>1 DEF ReqRecs
  <2> QED
    BY <1>1, <2>1, <2>2
<1>4. usage \in Usages /\ usage.fails \in Nat /\ fails \in Nat
  BY ServiceAssumption DEF TypeOK
<1> QED
  BY <1>1, <1>2, <1>3, <1>4

\* One request moves on, the rows and the objects change so that what the others
\* hold stays true.
LEMMA FitKept ==
    ASSUME TypeOK, FitInv, NEW r \in Reqs, NEW q \in ReqRecs,
           reqs' = [reqs EXCEPT ![r] = q], usage' = usage,
           q.pc # "idle" => r \in usage.reqs,
           ProjectFits(q, rows', project'), SecretFits(q, sids'),
           sids' \in Nat, sids <= sids',
           \A i \in Ids : /\ rows[i] # "none" => rows'[i] # "none"
                          /\ rows[i] = "deleted" => rows'[i] = "deleted",
           \A x \in Reqs \ {r} : reqs[x].pc = "createCR" /\ project[reqs[x].id].st = "none"
                                    => project'[reqs[x].id].st = "none"
    PROVE  FitInv' /\ reqs' \in [Reqs -> ReqRecs]
<1>1. reqs' \in [Reqs -> ReqRecs] /\ reqs'[r] = q
  BY DEF TypeOK
<1>2. ASSUME NEW x \in Reqs \ {r}
      PROVE  /\ ProjectFits(reqs'[x], rows', project')
             /\ SecretFits(reqs'[x], sids')
             /\ reqs'[x].pc # "idle" => x \in usage'.reqs
  <2>1. reqs'[x] = reqs[x] /\ reqs[x] \in ReqRecs
    BY DEF TypeOK
  <2>2. ProjectFits(reqs[x], rows, project) /\ reqs[x].id \in Ids
    BY <2>1 DEF FitInv, ReqRecs
  <2>3. ProjectFits(reqs[x], rows', project')
    BY <2>2 DEF ProjectFits
  <2>4. SecretFits(reqs[x], sids')
    <3>1. SecretFits(reqs[x], sids) /\ reqs[x].sid \in Nat /\ sids \in Nat
      BY Numbers DEF FitInv
    <3>2. reqs[x].sid <= sids'
      BY <3>1 DEF SecretFits
    <3> QED
      BY <3>1, <3>2 DEF SecretFits
  <2> QED
    BY <2>1, <2>3, <2>4 DEF FitInv
<1> QED
  BY <1>1, <1>2 DEF FitInv

-----------------------------------------------------------------------------
(* What a step leaves alone. *)

\* The requests between two halves of a change to secret n stay the same ones.
LEMMA SettledKept ==
    ASSUME NEW n, NEW m, NEW k, NEW l, NEW R \in [Reqs -> ReqRecs],
           NEW r \in Reqs, NEW q \in ReqRecs,
           q.pc \notin HalfPCs \/ q.name # n,
           R[r].pc \notin HalfPCs \/ R[r].name # n,
           Settled(n, m, k, R), n \in k <=> n \in l
    PROVE  Settled(n, m, l, [R EXCEPT ![r] = q])
<1> DEFINE S == [R EXCEPT ![r] = q]
<1>0. S = [R EXCEPT ![r] = q]
  OBVIOUS
<1> HIDE DEF S
<1>1. /\ \A x \in Reqs, pc \in HalfPCs : For(S, x, pc, n) <=> For(R, x, pc, n)
      /\ \A x \in Reqs, pc \in HalfPCs : For(R, x, pc, n) => S[x] = R[x]
  <2>1. ASSUME NEW x \in Reqs, NEW pc \in HalfPCs
        PROVE  (For(S, x, pc, n) <=> For(R, x, pc, n)) /\ (For(R, x, pc, n) => S[x] = R[x])
    <3>1. CASE x = r
      <4>1. S[x] = q
        BY <1>0, <3>1
      <4>2. ~For(S, x, pc, n)
        BY <4>1, Zenon DEF For
      <4>3. ~For(R, x, pc, n)
        BY <3>1, Zenon DEF For
      <4> QED
        BY <4>2, <4>3, Zenon
    <3>2. CASE x # r
      <4>1. S[x] = R[x]
        BY <1>0, <3>2
      <4> QED
        BY <4>1, Zenon DEF For
    <3> QED
      BY <3>1, <3>2, Zenon
  <2> QED
    BY <2>1, Zenon
<1>2. {"insertMeta", "cleanup", "deleteMeta"} = HalfPCs
  BY DEF HalfPCs
<1>3. "insertMeta" \in HalfPCs /\ "cleanup" \in HalfPCs /\ "deleteMeta" \in HalfPCs
  BY <1>2
<1>4. Doomed(n, m, S) <=> Doomed(n, m, R)
  BY <1>1, <1>3, Zenon DEF Doomed
<1>5. \A x \in Reqs : For(S, x, "insertMeta", n) <=> For(R, x, "insertMeta", n)
  BY <1>1, <1>3, Zenon
<1>6. \A x \in Reqs : /\ For(S, x, "cleanup", n) <=> For(R, x, "cleanup", n)
                      /\ For(R, x, "cleanup", n) => S[x].sid = R[x].sid
  BY <1>1, <1>3, Zenon
<1>7. Settled(n, m, l, S)
  BY <1>4, <1>5, <1>6, Zenon DEF Settled
<1> QED
  BY <1>0, <1>7, Zenon

\* A step that changes no secret.
LEMMA SecretSide ==
    ASSUME TypeOK, RowIdsInv, SecretsInv, NEW r \in Reqs, NEW q \in ReqRecs,
           reqs' = [reqs EXCEPT ![r] = q], UNCHANGED <<k8s, meta, sids>>,
           q.pc \notin HalfPCs, reqs[r].pc \notin HalfPCs \/ reqs[r].name \in torn',
           torn \subseteq torn',
           project'[Home].st \in {"none", "live"} => project'[Home].st = project[Home].st
    PROVE  RowIdsInv' /\ SecretsInv'
<1>1. RowIdsInv'
  BY DEF RowIdsInv
<1>2. reqs \in [Reqs -> ReqRecs]
  BY DEF TypeOK
<1>3. ASSUME project'[Home].st = "none"
      PROVE  /\ \A s \in K8sNames : k8s'[s] = {}
             /\ \A n \in SecretNames : meta'[n] = 0
             /\ \A x \in Reqs : reqs'[x].pc \notin HalfPCs
             /\ sids' = 0
  BY <1>2, <1>3 DEF SecretsInv
<1>4. ASSUME project'[Home].st = "live", NEW n \in SecretNames \ torn'
      PROVE  Settled(n, meta'[n], k8s'[SecretOf(n)], reqs')
  <2>1. Settled(n, meta[n], k8s[SecretOf(n)], reqs)
    BY <1>4, Zenon DEF SecretsInv
  <2>2. reqs[r].pc \notin HalfPCs \/ reqs[r].name # n
    BY <1>4
  <2> QED
    BY <1>2, <2>1, <2>2, SettledKept
<1> QED
  BY <1>1, <1>3, <1>4, Zenon DEF SecretsInv, SecretOf

\* No request gains the right to insert, and no row becomes active.
LEMMA OverrunKept ==
    ASSUME OverrunBounded, TypeOK, usage' = usage,
           \A i \in Ids : rows'[i] \notin {"none", "deleted"} => rows[i] \notin {"none", "deleted"},
           \A x \in Reqs : reqs'[x].pc = "insert" => reqs[x].pc = "insert"
    PROVE  OverrunBounded'
<1> DEFINE A == {i \in Ids : Active(i)}
           B == {i \in Ids : Active(i)'}
           C == {x \in Reqs : At(x, "insert")}
           D == {x \in Reqs : At(x, "insert")'}
<1>1. B \subseteq A /\ D \subseteq C
  BY DEF Active, At
<1>2. IsFiniteSet(A) /\ IsFiniteSet(C)
  BY ServiceAssumption, FS_Subset
<1>3. Cardinality(B) <= Cardinality(A) /\ Cardinality(D) <= Cardinality(C)
      /\ IsFiniteSet(B) /\ IsFiniteSet(D)
  BY <1>1, <1>2, FS_Subset
<1>4. Cardinality(A) \in Nat /\ Cardinality(B) \in Nat
      /\ Cardinality(C) \in Nat /\ Cardinality(D) \in Nat
  BY <1>2, <1>3, FS_CardinalityType
<1>5. usage.reqs \subseteq Reqs /\ Cardinality(usage.reqs) \in Nat
  <2>1. usage.reqs \subseteq Reqs
    BY ServiceAssumption DEF TypeOK
  <2>2. IsFiniteSet(usage.reqs)
    BY <2>1, ServiceAssumption, FS_Subset
  <2> QED
    BY <2>1, <2>2, FS_CardinalityType
<1> DEFINE bound == maxProjectsPerTenant + Cardinality(usage.reqs) - 1
<1>6. bound \in Int
  BY <1>5, ServiceAssumption
<1>7. Cardinality(A) + Cardinality(C) <= bound
  BY DEF OverrunBounded
<1> HIDE DEF A, B, C, D, bound
<1>8. Cardinality(B) + Cardinality(D) <= bound
  BY <1>3, <1>4, <1>6, <1>7
<1> QED
  BY <1>8 DEF OverrunBounded, B, D, bound

\* The requests that create or delete project i stay the same ones.
LEMMA AgreesKept ==
    ASSUME NEW i, NEW rw, NEW st, NEW R \in [Reqs -> ReqRecs],
           NEW r \in Reqs, NEW q \in ReqRecs,
           q.pc \notin {"createCR", "deleteCR"} \/ q.id # i,
           R[r].pc \notin {"createCR", "deleteCR"} \/ R[r].id # i,
           Agrees(i, rw, st, R)
    PROVE  Agrees(i, rw, st, [R EXCEPT ![r] = q])
<1> DEFINE S == [R EXCEPT ![r] = q]
<1>1. ASSUME NEW x \in Reqs, NEW pc \in {"createCR", "deleteCR"}
      PROVE  On(S, x, pc, i) <=> On(R, x, pc, i)
  <2>1. CASE x = r
    BY <2>1 DEF On
  <2>2. CASE x # r
    BY <2>2 DEF On
  <2> QED
    BY <2>1, <2>2
<1>2. \A x \in Reqs : /\ On(S, x, "createCR", i) <=> On(R, x, "createCR", i)
                      /\ On(S, x, "deleteCR", i) <=> On(R, x, "deleteCR", i)
  BY <1>1
<1> HIDE DEF S
<1>3. Agrees(i, rw, st, S)
  BY <1>2, Zenon DEF Agrees
<1> QED
  BY <1>3 DEF S

\* A step that changes no row and no object.
LEMMA ProjectSide ==
    ASSUME TypeOK, OverrunBounded, CreatorsInv, ProjectsInv, NEW r \in Reqs, NEW q \in ReqRecs,
           reqs' = [reqs EXCEPT ![r] = q], UNCHANGED <<rows, project, usage>>,
           q.pc \notin {"insert", "createCR", "deleteCR"},
           reqs[r].pc \notin {"createCR", "deleteCR"} \/ reqs[r].id \in astray',
           astray \subseteq astray'
    PROVE  OverrunBounded' /\ CreatorsInv' /\ ProjectsInv'
<1>1. reqs \in [Reqs -> ReqRecs] /\ reqs' \in [Reqs -> ReqRecs]
      /\ reqs'[r] = q /\ \A x \in Reqs \ {r} : reqs'[x] = reqs[x]
  BY DEF TypeOK
<1>2. OverrunBounded'
  <2>1. \A x \in Reqs : reqs'[x].pc = "insert" => reqs[x].pc = "insert"
    BY <1>1
  <2> QED
    BY <2>1, OverrunKept
<1>3. CreatorsInv'
  BY <1>1 DEF CreatorsInv
<1>4. ASSUME NEW i \in Ids
      PROVE  /\ rows'[i] = "none" => project'[i].st = "none"
             /\ i \notin astray' => Agrees(i, rows'[i], project'[i].st, reqs')
  <2>1. rows'[i] = rows[i] /\ project'[i] = project[i]
    OBVIOUS
  <2>2. ASSUME i \notin astray'
        PROVE  Agrees(i, rows[i], project[i].st, reqs')
    <3>1. Agrees(i, rows[i], project[i].st, reqs)
      BY <2>2 DEF ProjectsInv
    <3>2. reqs[r].pc \notin {"createCR", "deleteCR"} \/ reqs[r].id # i
      BY <2>2
    <3> QED
      BY <1>1, <3>1, <3>2, AgreesKept
  <2> QED
    BY <2>1, <2>2 DEF ProjectsInv
<1> QED
  BY <1>2, <1>3, <1>4, Zenon DEF ProjectsInv

-----------------------------------------------------------------------------
(* Steps that change neither rows nor objects, projects nor secrets. *)

LEMMA QuietStep ==
    ASSUME IInv, NEW r \in Reqs, NEW q \in ReqRecs, reqs' = [reqs EXCEPT ![r] = q],
           UNCHANGED <<project, rows, meta, k8s, sids, usage>>, fails' \in 0..usage.fails,
           keys' \in [KeyNames -> {"none", "active", "revoked"}],
           astray \subseteq astray', astray' \subseteq Ids,
           torn \subseteq torn', torn' \subseteq SecretNames,
           reqs[r].pc \notin {"createCR", "deleteCR"} \/ reqs[r].id \in astray',
           reqs[r].pc \notin HalfPCs \/ reqs[r].name \in torn',
           q.pc \notin {"insert", "createCR", "deleteCR"} \cup HalfPCs,
           q.pc # "idle" => r \in usage.reqs,
           ProjectFits(q, rows, project), SecretFits(q, sids)
    PROVE  IInv'
<1>1. /\ TypeOK /\ OverrunBounded /\ FitInv /\ CreatorsInv /\ ProjectsInv
      /\ RowIdsInv /\ SecretsInv
  BY DEF IInv
<1>2. sids \in Nat /\ sids <= sids
  BY <1>1, Numbers
<1>3. ProjectFits(q, rows', project') /\ SecretFits(q, sids') /\ sids' \in Nat /\ sids <= sids'
  BY <1>2
<1>4. FitInv' /\ reqs' \in [Reqs -> ReqRecs]
  BY <1>1, <1>3, FitKept
<1>5. TypeOK'
  BY <1>1, <1>4 DEF TypeOK
<1>6. RowIdsInv' /\ SecretsInv'
  BY <1>1, SecretSide
<1>7. OverrunBounded' /\ CreatorsInv' /\ ProjectsInv'
  BY <1>1, ProjectSide
<1> QED
  BY <1>4, <1>5, <1>6, <1>7 DEF IInv

\* What a request that begins holds.
Rec(pc, i, st, k, n, id) ==
    [pc |-> pc, id |-> i, status |-> st, key |-> k, name |-> n, sid |-> id]
LEMMA BeginFits ==
    ASSUME IInv, NEW r \in Reqs, NEW pc \in PCs, NEW i \in Ids, NEW st \in Statuses,
           NEW k \in KeyNames \cup {""}, NEW n \in SecretNames \cup {""},
           NEW id \in 0..MaxSids, id <= sids,
           pc \in {"phase", "update"} => rows[i] # "none" /\ st \notin {"none", "deleted"},
           pc \notin {"createCR", "deleteCR"},
           pc \in NamePCs => n \in SecretNames,
           pc \in {"updateSecret", "deleteSecret", "deleteMeta"} => id # 0
    PROVE  /\ Rec(pc, i, st, k, n, id) \in ReqRecs
           /\ ProjectFits(Rec(pc, i, st, k, n, id), rows, project)
           /\ SecretFits(Rec(pc, i, st, k, n, id), sids)
<1> DEFINE q == Rec(pc, i, st, k, n, id)
<1>1. q \in ReqRecs
  BY DEF ReqRecs, Rec
<1>2. q.pc = pc /\ q.id = i /\ q.status = st /\ q.name = n /\ q.sid = id
  BY DEF Rec
<1> HIDE DEF q
<1>3. ProjectFits(q, rows, project)
  BY <1>2 DEF ProjectFits, RowPCs
<1>4. q.sid <= sids
  BY <1>2, Zenon
<1>5. q.pc \in NamePCs => q.name \in SecretNames
  BY <1>2
<1>6. q.pc \in {"updateSecret", "deleteSecret", "deleteMeta"} => q.sid # 0
  BY <1>2, Zenon
<1>7. SecretFits(q, sids)
  BY <1>4, <1>5, <1>6, Zenon DEF SecretFits
<1> QED
  BY <1>1, <1>3, <1>7 DEF q

\* The facts a request starts from.
LEMMA Defaults ==
    ASSUME IInv
    PROVE  /\ TypeOK /\ FitInv /\ 0 \in 0..MaxSids /\ 0 <= sids /\ Home \in Ids
           /\ "none" \in Statuses /\ "" \in KeyNames \cup {""} /\ "" \in SecretNames \cup {""}
           /\ \A n \in SecretNames : meta[n] \in 0..MaxSids /\ meta[n] <= sids
           /\ \A i \in Ids : rows[i] \in Statuses
           /\ \A r \in Reqs : reqs[r] \in ReqRecs
<1>1. TypeOK /\ FitInv /\ RowIdsInv
  BY DEF IInv
<1>2. 0 \in 0..MaxSids /\ Home \in Ids
  BY ServiceAssumption
<1>3. sids \in Nat
  BY <1>1, Numbers
<1>4. 0 <= sids
  BY <1>3
<1>5. /\ \A n \in SecretNames : meta[n] \in 0..MaxSids
      /\ \A i \in Ids : rows[i] \in Statuses
      /\ \A r \in Reqs : reqs[r] \in ReqRecs
  BY <1>1 DEF TypeOK
<1>6. \A n \in SecretNames : meta[n] <= sids
  BY <1>1 DEF RowIdsInv
<1>7. "none" \in Statuses
  BY DEF Statuses
<1> QED
  BY <1>1, <1>2, <1>4, <1>5, <1>6, <1>7

\* The records of the program's calls, in these terms.
LEMMA Records ==
    ASSUME NEW pc, NEW i, NEW st, NEW k, NEW n, NEW id
    PROVE  /\ [Done EXCEPT !.pc = pc] = Rec(pc, Home, "none", "", "", 0)
           /\ [Done EXCEPT !.pc = pc, !.id = i] = Rec(pc, i, "none", "", "", 0)
           /\ [Done EXCEPT !.pc = pc, !.id = i, !.status = st] = Rec(pc, i, st, "", "", 0)
           /\ [Done EXCEPT !.pc = pc, !.key = k] = Rec(pc, Home, "none", k, "", 0)
           /\ [Done EXCEPT !.pc = pc, !.name = n] = Rec(pc, Home, "none", "", n, 0)
           /\ [Done EXCEPT !.pc = pc, !.name = n, !.sid = id] = Rec(pc, Home, "none", "", n, id)
<1>1. ASSUME NEW q
      PROVE  /\ q = [Done EXCEPT !.pc = pc] => q = Rec(pc, Home, "none", "", "", 0)
             /\ q = [Done EXCEPT !.pc = pc, !.id = i] => q = Rec(pc, i, "none", "", "", 0)
             /\ q = [Done EXCEPT !.pc = pc, !.id = i, !.status = st]
                    => q = Rec(pc, i, st, "", "", 0)
             /\ q = [Done EXCEPT !.pc = pc, !.key = k] => q = Rec(pc, Home, "none", k, "", 0)
             /\ q = [Done EXCEPT !.pc = pc, !.name = n] => q = Rec(pc, Home, "none", "", n, 0)
             /\ q = [Done EXCEPT !.pc = pc, !.name = n, !.sid = id]
                    => q = Rec(pc, Home, "none", "", n, id)
  BY DEF Done, Rec
<1> QED
  BY <1>1, Zenon

LEMMA InRange ==
    ASSUME NEW a \in Nat, NEW b \in Nat, NEW c \in Nat, a <= b, b <= c
    PROVE  a \in 0..c
  OBVIOUS

\* A request begins.
LEMMA BeginStep ==
    ASSUME IInv, NEW r \in Reqs, NEW i \in Ids, NEW st \in Statuses,
           NEW k \in KeyNames \cup {""}, NEW n \in SecretNames \cup {""}, NEW id \in Nat,
           id <= sids,
           NEW pc \in {"phase", "update", "insertKey", "revokeKey",
                       "createSecret", "updateSecret", "deleteSecret"},
           pc \in {"phase", "update"} => rows[i] # "none" /\ st \notin {"none", "deleted"},
           pc \in {"createSecret", "updateSecret", "deleteSecret"} => n \in SecretNames,
           pc \in {"updateSecret", "deleteSecret"} => id # 0,
           reqs[r].pc = "idle", r \in usage.reqs, Go(r, Rec(pc, i, st, k, n, id)),
           UNCHANGED <<project, tables, k8s, fails, history, astray, torn>>
    PROVE  IInv'
<1> DEFINE q == Rec(pc, i, st, k, n, id)
<1>1. UNCHANGED <<project, rows, keys, meta, k8s, sids, fails, usage, astray, torn>>
  BY DEF tables, history
<1>2. id \in 0..MaxSids
  <2>1. sids \in Nat /\ MaxSids \in Nat /\ sids <= MaxSids
    BY Numbers DEF IInv
  <2> QED
    BY <2>1, InRange, Zenon
<1>3. /\ pc \in PCs /\ pc \notin {"createCR", "deleteCR"}
      /\ pc \in {"phase", "update"} => rows[i] # "none" /\ st \notin {"none", "deleted"}
      /\ pc \in NamePCs => n \in SecretNames
      /\ pc \in {"updateSecret", "deleteSecret", "deleteMeta"} => id # 0
  <2>1. pc \in PCs /\ pc \notin {"createCR", "deleteCR"}
    BY DEF PCs
  <2>2. pc \in NamePCs => pc \in {"createSecret", "updateSecret", "deleteSecret"}
    BY DEF NamePCs
  <2>3. pc # "deleteMeta"
    OBVIOUS
  <2> QED
    BY <2>1, <2>2, <2>3
<1>4. q \in ReqRecs /\ ProjectFits(q, rows, project) /\ SecretFits(q, sids)
  BY <1>2, <1>3, BeginFits, Zenon
<1>5. q.pc = pc
  BY DEF Rec
<1>6. reqs' = [reqs EXCEPT ![r] = q]
  BY DEF Go
<1> HIDE DEF q
<1>7. /\ q.pc \notin {"insert", "createCR", "deleteCR"} \cup HalfPCs
      /\ q.pc # "idle" => r \in usage.reqs
      /\ reqs[r].pc \notin {"createCR", "deleteCR"} \cup HalfPCs
  BY <1>5 DEF HalfPCs
<1>8. /\ keys' \in [KeyNames -> {"none", "active", "revoked"}] /\ fails' \in 0..usage.fails
      /\ astray \subseteq astray' /\ astray' \subseteq Ids
      /\ torn \subseteq torn' /\ torn' \subseteq SecretNames
  BY <1>1 DEF TypeOK, IInv
<1> QED
  BY <1>1, <1>4, <1>6, <1>7, <1>8, QuietStep

\* GetProject, PauseProject, ResumeProject.
LEMMA RowRequests ==
    ASSUME IInv, NEW r \in Reqs, NEW i \in Ids,
           GetProject(r, i) \/ PauseProject(r, i) \/ ResumeProject(r, i)
    PROVE  IInv'
<1>1. /\ UNCHANGED <<project, tables, k8s, fails, history, astray, torn>>
      /\ reqs[r].pc = "idle" /\ r \in usage.reqs
  BY DEF GetProject, PauseProject, ResumeProject, Begin, At
<1>2. 0 \in Nat /\ 0 <= sids /\ "" \in KeyNames \cup {""} /\ "" \in SecretNames \cup {""}
  BY Defaults
<1>3. ASSUME NEW pc \in {"phase", "update"}, NEW st \in Statuses, rows[i] # "none",
             st \notin {"none", "deleted"}, Go(r, Rec(pc, i, st, "", "", 0))
      PROVE  IInv'
  <2>1. pc \in {"phase", "update", "insertKey", "revokeKey",
                "createSecret", "updateSecret", "deleteSecret"}
    OBVIOUS
  <2>2. /\ pc \in {"phase", "update"} => rows[i] # "none" /\ st \notin {"none", "deleted"}
        /\ pc \in {"createSecret", "updateSecret", "deleteSecret"} => "" \in SecretNames
        /\ pc \in {"updateSecret", "deleteSecret"} => 0 # 0
    BY <1>3
  <2> QED
    BY <1>1, <1>2, <1>3, <2>1, <2>2, BeginStep, Zenon
<1>4. CASE GetProject(r, i)
  <2>1. ASSUME NEW q, q = [Done EXCEPT !.pc = "phase", !.id = i, !.status = rows[i]]
        PROVE  q = Rec("phase", i, rows[i], "", "", 0)
    BY <2>1 DEF Done, Rec
  <2>2. /\ "phase" \in {"phase", "update"}
        /\ rows[i] \in Statuses /\ rows[i] \notin {"none", "deleted"} /\ rows[i] # "none"
        /\ Go(r, Rec("phase", i, rows[i], "", "", 0))
    BY <1>4, <2>1 DEF GetProject, Statuses
  <2> QED
    BY <1>3, <2>2, Zenon
<1>5. CASE PauseProject(r, i)
  <2>1. ASSUME NEW q, q = [Done EXCEPT !.pc = "update", !.id = i, !.status = "paused"]
        PROVE  q = Rec("update", i, "paused", "", "", 0)
    BY <2>1 DEF Done, Rec
  <2>2. /\ "update" \in {"phase", "update"}
        /\ "paused" \in Statuses /\ "paused" \notin {"none", "deleted"} /\ rows[i] # "none"
        /\ Go(r, Rec("update", i, "paused", "", "", 0))
    BY <1>5, <2>1 DEF PauseProject, Statuses
  <2> QED
    BY <1>3, <2>2, Zenon
<1>6. CASE ResumeProject(r, i)
  <2>1. ASSUME NEW q, q = [Done EXCEPT !.pc = "update", !.id = i, !.status = "ready"]
        PROVE  q = Rec("update", i, "ready", "", "", 0)
    BY <2>1 DEF Done, Rec
  <2>2. /\ "update" \in {"phase", "update"}
        /\ "ready" \in Statuses /\ "ready" \notin {"none", "deleted"} /\ rows[i] # "none"
        /\ Go(r, Rec("update", i, "ready", "", "", 0))
    BY <1>6, <2>1 DEF ResumeProject, Statuses
  <2> QED
    BY <1>3, <2>2, Zenon
<1> QED
  BY <1>4, <1>5, <1>6

\* CreateApiKey, RevokeApiKey.
LEMMA KeyRequests ==
    ASSUME IInv, NEW r \in Reqs, NEW k \in KeyNames, CreateApiKey(r, k) \/ RevokeApiKey(r, k)
    PROVE  IInv'
<1>1. /\ UNCHANGED <<project, tables, k8s, fails, history, astray, torn>>
      /\ reqs[r].pc = "idle" /\ r \in usage.reqs
  BY DEF CreateApiKey, RevokeApiKey, Begin, At
<1>2. /\ 0 \in Nat /\ 0 <= sids /\ Home \in Ids /\ "none" \in Statuses
      /\ k \in KeyNames \cup {""} /\ "" \in SecretNames \cup {""}
  BY Defaults
<1>3. ASSUME NEW pc \in {"insertKey", "revokeKey"}, Go(r, Rec(pc, Home, "none", k, "", 0))
      PROVE  IInv'
  <2>1. pc \in {"phase", "update", "insertKey", "revokeKey",
                "createSecret", "updateSecret", "deleteSecret"}
    OBVIOUS
  <2>2. /\ pc \in {"phase", "update"} => rows[Home] # "none" /\ "none" \notin {"none", "deleted"}
        /\ pc \in {"createSecret", "updateSecret", "deleteSecret"} => "" \in SecretNames
        /\ pc \in {"updateSecret", "deleteSecret"} => 0 # 0
    OBVIOUS
  <2> QED
    BY <1>1, <1>2, <1>3, <2>1, <2>2, BeginStep, Zenon
<1>4. CASE CreateApiKey(r, k)
  <2>1. [Done EXCEPT !.pc = "insertKey", !.key = k] = Rec("insertKey", Home, "none", k, "", 0)
    BY Records, Zenon
  <2>2. "insertKey" \in {"insertKey", "revokeKey"} /\ Go(r, Rec("insertKey", Home, "none", k, "", 0))
    BY <1>4, <2>1 DEF CreateApiKey
  <2> QED
    BY <1>3, <2>2, Zenon
<1>5. CASE RevokeApiKey(r, k)
  <2>1. [Done EXCEPT !.pc = "revokeKey", !.key = k] = Rec("revokeKey", Home, "none", k, "", 0)
    BY Records, Zenon
  <2>2. "revokeKey" \in {"insertKey", "revokeKey"} /\ Go(r, Rec("revokeKey", Home, "none", k, "", 0))
    BY <1>5, <2>1 DEF RevokeApiKey
  <2> QED
    BY <1>3, <2>2, Zenon
<1> QED
  BY <1>4, <1>5

\* CreateSecret, UpdateSecretValue, DeleteSecret.
LEMMA SecretRequests ==
    ASSUME IInv, NEW r \in Reqs, NEW n \in SecretNames,
           CreateSecret(r, n) \/ UpdateSecretValue(r, n) \/ DeleteSecret(r, n)
    PROVE  IInv'
<1>1. /\ UNCHANGED <<project, tables, k8s, fails, history, astray, torn>>
      /\ reqs[r].pc = "idle" /\ r \in usage.reqs
  BY DEF CreateSecret, UpdateSecretValue, DeleteSecret, Begin, At
<1>2. /\ 0 \in Nat /\ 0 <= sids /\ Home \in Ids /\ "none" \in Statuses
      /\ "" \in KeyNames \cup {""} /\ n \in SecretNames \cup {""}
      /\ meta[n] \in Nat /\ meta[n] <= sids
  BY Defaults, Numbers
<1>3. ASSUME NEW pc \in {"createSecret", "updateSecret", "deleteSecret"}, NEW id \in Nat,
             id <= sids, pc \in {"updateSecret", "deleteSecret"} => id # 0,
             Go(r, Rec(pc, Home, "none", "", n, id))
      PROVE  IInv'
  <2>1. pc \in {"phase", "update", "insertKey", "revokeKey",
                "createSecret", "updateSecret", "deleteSecret"}
    OBVIOUS
  <2>2. /\ pc \in {"phase", "update"} => rows[Home] # "none" /\ "none" \notin {"none", "deleted"}
        /\ pc \in {"createSecret", "updateSecret", "deleteSecret"} => n \in SecretNames
        /\ pc \in {"updateSecret", "deleteSecret"} => id # 0
    BY <1>3
  <2> QED
    BY <1>1, <1>2, <1>3, <2>1, <2>2, BeginStep, Zenon
<1>4. CASE CreateSecret(r, n)
  <2>1. [Done EXCEPT !.pc = "createSecret", !.name = n]
            = Rec("createSecret", Home, "none", "", n, 0)
    BY Records, Zenon
  <2>2. /\ "createSecret" \in {"createSecret", "updateSecret", "deleteSecret"}
        /\ "createSecret" \in {"updateSecret", "deleteSecret"} => 0 # 0
        /\ Go(r, Rec("createSecret", Home, "none", "", n, 0))
    BY <1>4, <2>1 DEF CreateSecret
  <2> QED
    BY <1>2, <1>3, <2>2, Zenon
<1>5. CASE UpdateSecretValue(r, n)
  <2>1. ASSUME NEW q, q = [Done EXCEPT !.pc = "updateSecret", !.name = n, !.sid = meta[n]]
        PROVE  q = Rec("updateSecret", Home, "none", "", n, meta[n])
    BY <2>1 DEF Done, Rec
  <2>2. /\ "updateSecret" \in {"createSecret", "updateSecret", "deleteSecret"}
        /\ Go(r, Rec("updateSecret", Home, "none", "", n, meta[n])) /\ meta[n] # 0
    BY <1>5, <2>1 DEF UpdateSecretValue
  <2> QED
    BY <1>2, <1>3, <2>2, Zenon
<1>6. CASE DeleteSecret(r, n)
  <2>1. ASSUME NEW q, q = [Done EXCEPT !.pc = "deleteSecret", !.name = n, !.sid = meta[n]]
        PROVE  q = Rec("deleteSecret", Home, "none", "", n, meta[n])
    BY <2>1 DEF Done, Rec
  <2>2. /\ "deleteSecret" \in {"createSecret", "updateSecret", "deleteSecret"}
        /\ Go(r, Rec("deleteSecret", Home, "none", "", n, meta[n])) /\ meta[n] # 0
    BY <1>6, <2>1 DEF DeleteSecret
  <2> QED
    BY <1>2, <1>3, <2>2, Zenon
<1> QED
  BY <1>4, <1>5, <1>6

\* The histories and the counter of a step that leaves them alone.
LEMMA HistoryKept ==
    ASSUME IInv, UNCHANGED <<keys, fails, astray, torn>>
    PROVE  /\ keys' \in [KeyNames -> {"none", "active", "revoked"}] /\ fails' \in 0..usage.fails
           /\ astray \subseteq astray' /\ astray' \subseteq Ids
           /\ torn \subseteq torn' /\ torn' \subseteq SecretNames
  BY DEF TypeOK, IInv

\* A request ends with nothing done that others rely on.
LEMMA QuietEnd ==
    ASSUME IInv, NEW r \in Reqs, Finish(r),
           UNCHANGED <<project, rows, meta, k8s, sids, usage>>, fails' \in 0..usage.fails,
           keys' \in [KeyNames -> {"none", "active", "revoked"}],
           astray \subseteq astray', astray' \subseteq Ids,
           torn \subseteq torn', torn' \subseteq SecretNames,
           reqs[r].pc \notin {"createCR", "deleteCR"} \/ reqs[r].id \in astray',
           reqs[r].pc \notin HalfPCs \/ reqs[r].name \in torn'
    PROVE  IInv'
<1>1. sids \in Nat
  BY Numbers DEF IInv
<1>2. ProjectFits(Done, rows, project) /\ SecretFits(Done, sids)
  BY <1>1, DoneFits
<1>3. /\ Done \in ReqRecs /\ (Done.pc # "idle" => r \in usage.reqs)
      /\ Done.pc \notin {"insert", "createCR", "deleteCR"} \cup HalfPCs
  BY DoneFacts DEF HalfPCs
<1>4. reqs' = [reqs EXCEPT ![r] = Done]
  BY DEF Finish
<1> QED
  BY <1>2, <1>3, <1>4, QuietStep

\* A generated id that is taken, GetPhase, WriteKey, Fail.
LEMMA CollisionStep ==
    ASSUME IInv, NEW r \in Reqs, IdCollision(r)
    PROVE  IInv'
<1>1. /\ UNCHANGED <<project, rows, keys, meta, k8s, sids, fails, usage, astray, torn>>
      /\ Finish(r) /\ reqs[r].pc = "insert"
  BY DEF IdCollision, At, tables, history
<1>2. reqs[r].pc \notin {"createCR", "deleteCR"} \cup HalfPCs
  BY <1>1 DEF HalfPCs
<1> QED
  BY <1>1, <1>2, HistoryKept, QuietEnd

LEMMA GetPhaseStep ==
    ASSUME IInv, NEW r \in Reqs, GetPhase(r)
    PROVE  IInv'
<1> DEFINE q == reqs[r]
           new == NewStatus(q.status, project[q.id].phase)
           u == [q EXCEPT !.pc = "update", !.status = new]
<1>1. /\ UNCHANGED <<project, rows, keys, meta, k8s, sids, fails, usage, astray, torn>>
      /\ Finish(r) \/ Go(r, u)
      /\ q.pc = "phase"
  BY DEF GetPhase, At, tables, history
<1>2. reqs[r].pc \notin {"createCR", "deleteCR"} \cup HalfPCs
  BY <1>1 DEF HalfPCs
<1>3. CASE Finish(r)
  BY <1>1, <1>2, <1>3, HistoryKept, QuietEnd
<1>4. CASE Go(r, u)
  <2>1. /\ q \in ReqRecs /\ q.id \in Ids /\ rows[q.id] # "none" /\ r \in usage.reqs
        /\ q.status \in Statuses \ {"none", "deleted"} /\ SecretFits(q, sids)
    <3>1. q \in ReqRecs /\ ProjectFits(q, rows, project) /\ SecretFits(q, sids)
          /\ r \in usage.reqs
      BY <1>1, Defaults DEF FitInv
    <3> QED
      BY <1>1, <3>1 DEF ProjectFits, RowPCs, ReqRecs
  <2>2. new \in Statuses \ {"none", "deleted"}
    BY <2>1 DEF NewStatus, Statuses
  <2>3. u \in ReqRecs
    BY <2>1, <2>2 DEF ReqRecs, PCs
  <2>4. u.pc = "update" /\ u.id = q.id /\ u.status = new /\ u.name = q.name /\ u.sid = q.sid
    BY <2>1 DEF ReqRecs
  <2> HIDE DEF u, new
  <2>5. ProjectFits(u, rows, project)
    BY <2>1, <2>2, <2>4 DEF ProjectFits
  <2>6. SecretFits(u, sids)
    BY <2>1, <2>4 DEF SecretFits, NamePCs
  <2>7. u.pc \notin {"insert", "createCR", "deleteCR"} \cup HalfPCs
    BY <2>4 DEF HalfPCs
  <2> QED
    BY <1>1, <1>2, <1>4, <2>1, <2>3, <2>5, <2>6, <2>7, HistoryKept, QuietStep DEF Go
<1> QED
  BY <1>1, <1>3, <1>4

LEMMA WriteKeyStep ==
    ASSUME IInv, NEW r \in Reqs, WriteKey(r)
    PROVE  IInv'
<1>1. /\ UNCHANGED <<project, rows, meta, k8s, sids, fails, usage, astray, torn>>
      /\ Finish(r) /\ reqs[r].pc \in {"insertKey", "revokeKey"}
      /\ InsertKey(reqs[r].key) \/ MarkRevoked(reqs[r].key)
  BY DEF WriteKey, At, history
<1>2. reqs[r].pc \notin {"createCR", "deleteCR"} \cup HalfPCs
  BY <1>1 DEF HalfPCs
<1>3. keys' \in [KeyNames -> {"none", "active", "revoked"}]
  BY <1>1 DEF InsertKey, MarkRevoked, IInv, TypeOK
<1>4. /\ fails' \in 0..usage.fails /\ astray' \subseteq Ids /\ torn' \subseteq SecretNames
      /\ astray \subseteq astray' /\ torn \subseteq torn'
  BY <1>1 DEF IInv, TypeOK
<1> QED
  BY <1>1, <1>2, <1>3, <1>4, QuietEnd

LEMMA FailStep ==
    ASSUME IInv, NEW r \in Reqs, Fail(r)
    PROVE  IInv'
<1>1. /\ UNCHANGED <<project, rows, keys, meta, k8s, sids, usage>>
      /\ fails < usage.fails /\ fails' = fails + 1 /\ Finish(r)
  BY DEF Fail, tables, history
<1>2. fails' \in 0..usage.fails
  <2>1. usage.fails \in Nat /\ fails \in Nat
    BY Numbers DEF IInv
  <2> QED
    BY <1>1, <2>1
<1>3. keys' \in [KeyNames -> {"none", "active", "revoked"}] /\ TypeOK /\ reqs[r] \in ReqRecs
  BY <1>1 DEF IInv, TypeOK
<1>4. /\ astray \subseteq astray' /\ astray' \subseteq Ids
      /\ reqs[r].pc \notin {"createCR", "deleteCR"} \/ reqs[r].id \in astray'
  BY <1>3 DEF Fail, At, TypeOK, ReqRecs
<1>5. reqs[r].pc \in HalfPCs => reqs[r].name \in SecretNames
  BY Defaults DEF FitInv, SecretFits, HalfPCs, NamePCs
<1>6. /\ torn \subseteq torn' /\ torn' \subseteq SecretNames
      /\ reqs[r].pc \notin HalfPCs \/ reqs[r].name \in torn'
  BY <1>3, <1>5 DEF Fail, At, TypeOK, HalfPCs
<1> QED
  BY <1>1, <1>2, <1>3, <1>4, <1>6, QuietEnd

-----------------------------------------------------------------------------
(* Steps that change rows of projects, or objects. *)

\* One request moves on; rows and objects change, secrets do not.
LEMMA ProjectStep ==
    ASSUME IInv, NEW r \in Reqs, NEW q \in ReqRecs, reqs' = [reqs EXCEPT ![r] = q],
           UNCHANGED <<keys, meta, k8s, sids, fails, usage, torn>>,
           project' \in [Ids -> Contract!Objects], rows' \in [Ids -> Statuses],
           astray \subseteq astray', astray' \subseteq Ids,
           q.pc # "idle" => r \in usage.reqs,
           ProjectFits(q, rows', project'), SecretFits(q, sids),
           \A i \in Ids : /\ rows[i] # "none" => rows'[i] # "none"
                          /\ rows[i] = "deleted" => rows'[i] = "deleted",
           \A x \in Reqs \ {r} : reqs[x].pc = "createCR" /\ project[reqs[x].id].st = "none"
                                    => project'[reqs[x].id].st = "none",
           q.pc \notin HalfPCs, reqs[r].pc \notin HalfPCs,
           project'[Home].st \in {"none", "live"} => project'[Home].st = project[Home].st
    PROVE  TypeOK' /\ FitInv' /\ RowIdsInv' /\ SecretsInv'
<1>1. TypeOK /\ FitInv /\ RowIdsInv /\ SecretsInv
  BY DEF IInv
<1>2. sids \in Nat /\ sids <= sids
  BY <1>1, Numbers
<1>3. SecretFits(q, sids') /\ sids' \in Nat /\ sids <= sids' /\ torn \subseteq torn'
  BY <1>2
<1>4. FitInv' /\ reqs' \in [Reqs -> ReqRecs]
  BY <1>1, <1>3, FitKept
<1>5. TypeOK'
  BY <1>1, <1>4 DEF TypeOK
<1>6. RowIdsInv' /\ SecretsInv'
  BY <1>1, <1>3, SecretSide
<1> QED
  BY <1>4, <1>5, <1>6

\* One request moves on: the others are the same.
LEMMA OthersKept ==
    ASSUME IInv, NEW r \in Reqs, NEW q \in ReqRecs, reqs' = [reqs EXCEPT ![r] = q]
    PROVE  /\ TypeOK /\ OverrunBounded /\ FitInv /\ CreatorsInv /\ ProjectsInv
           /\ RowIdsInv /\ SecretsInv
           /\ reqs \in [Reqs -> ReqRecs] /\ rows \in [Ids -> Statuses]
           /\ project \in [Ids -> Contract!Objects]
           /\ astray \subseteq Ids
           /\ reqs'[r] = q /\ \A x \in Reqs \ {r} : reqs'[x] = reqs[x]
  BY DEF IInv, TypeOK

LEMMA WriteStatusStep ==
    ASSUME IInv, NEW r \in Reqs, WriteStatus(r)
    PROVE  IInv'
<1> DEFINE p == reqs[r]
<1>1. /\ UNCHANGED <<project, keys, meta, k8s, sids, fails, usage, astray, torn>>
      /\ reqs' = [reqs EXCEPT ![r] = Done] /\ Done \in ReqRecs
      /\ p.pc = "update" /\ UpdateProjectStatus(p.id, p.status)
  BY DoneFacts DEF WriteStatus, At, Finish, history
<1>2. p.id \in Ids /\ p.status \in Statuses \ {"none", "deleted"}
  <2>1. p \in ReqRecs /\ ProjectFits(p, rows, project)
    BY Defaults DEF FitInv
  <2> QED
    BY <1>1, <2>1 DEF ReqRecs, ProjectFits
<1>3. /\ rows' \in [Ids -> Statuses]
      /\ \A i \in Ids : /\ rows[i] = "none" <=> rows'[i] = "none"
                        /\ rows[i] = "deleted" <=> rows'[i] = "deleted"
  BY <1>1, <1>2, OthersKept DEF UpdateProjectStatus, Active
<1>4. TypeOK' /\ FitInv' /\ RowIdsInv' /\ SecretsInv'
  <2>1. ProjectFits(Done, rows', project') /\ SecretFits(Done, sids)
    BY DoneFits, Numbers DEF IInv
  <2>2. Done.pc = "idle" /\ Done.pc \notin HalfPCs /\ p.pc \notin HalfPCs
    BY <1>1, DoneFacts DEF HalfPCs
  <2> QED
    BY <1>1, <1>3, <2>1, <2>2, OthersKept, ProjectStep
<1>5. OverrunBounded'
  BY <1>1, <1>3, DoneFacts, OthersKept, OverrunKept
<1>6. CreatorsInv'
  BY <1>1, DoneFacts, OthersKept DEF CreatorsInv
<1>7. ASSUME NEW i \in Ids
      PROVE  /\ rows'[i] = "none" => project'[i].st = "none"
             /\ i \notin astray' => Agrees(i, rows'[i], project'[i].st, reqs')
  <2>1. rows'[i] = "none" => project'[i].st = "none"
    BY <1>1, <1>3, OthersKept DEF ProjectsInv
  <2>2. ASSUME i \notin astray'
        PROVE  Agrees(i, rows'[i], project'[i].st, reqs')
    <3>1. Agrees(i, rows[i], project[i].st, reqs)
      BY <1>1, <2>2, OthersKept DEF ProjectsInv
    <3>2. Agrees(i, rows[i], project[i].st, reqs')
      BY <1>1, <3>1, OthersKept, AgreesKept, DoneFacts
    <3>3. Agrees(i, rows'[i], project[i].st, reqs')
      BY <1>3, <3>2 DEF Agrees
    <3> QED
      BY <1>1, <3>3
  <2> QED
    BY <2>1, <2>2
<1> QED
  BY <1>4, <1>5, <1>6, <1>7 DEF IInv, ProjectsInv

LEMMA DeleteProjectStep ==
    ASSUME IInv, NEW r \in Reqs, NEW j \in Ids, DeleteProject(r, j)
    PROVE  IInv'
<1> DEFINE q == [Done EXCEPT !.pc = "deleteCR", !.id = j]
<1>1. /\ UNCHANGED <<project, keys, meta, k8s, sids, fails, usage, astray, torn>>
      /\ reqs' = [reqs EXCEPT ![r] = q]
      /\ reqs[r].pc = "idle" /\ r \in usage.reqs
      /\ rows[j] \notin {"none", "deleted"} /\ rows' = [rows EXCEPT ![j] = "deleted"]
  BY DEF DeleteProject, Begin, At, Go, history, UpdateProjectStatus, Active
<1>2. /\ q \in ReqRecs /\ q.pc = "deleteCR" /\ q.id = j /\ q.sid = 0
      /\ \A pc \in HalfPCs \cup NamePCs : pc # "deleteCR"
  BY DoneFacts DEF ReqRecs, PCs, HalfPCs, NamePCs
<1> HIDE DEF q
<1>3. /\ rows' \in [Ids -> Statuses] /\ rows'[j] = "deleted"
      /\ \A i \in Ids \ {j} : rows'[i] = rows[i]
  BY <1>1, <1>2, OthersKept DEF Statuses
<1>4. TypeOK' /\ FitInv' /\ RowIdsInv' /\ SecretsInv'
  <2>1. ProjectFits(q, rows', project')
    BY <1>2, <1>3 DEF ProjectFits
  <2>2. SecretFits(q, sids)
    <3>1. 0 <= sids
      BY Defaults
    <3>2. q.sid <= sids
      BY <1>2, <3>1, Zenon
    <3> QED
      BY <1>2, <3>2 DEF SecretFits, NamePCs
  <2>3. q.pc \notin HalfPCs /\ reqs[r].pc \notin HalfPCs
    BY <1>1, <1>2 DEF HalfPCs
  <2> QED
    BY <1>1, <1>2, <1>3, <2>1, <2>2, <2>3, OthersKept, ProjectStep
<1>5. OverrunBounded'
  BY <1>1, <1>2, <1>3, OthersKept, OverrunKept
<1>6. CreatorsInv'
  BY <1>1, <1>2, OthersKept DEF CreatorsInv
<1>7. ASSUME NEW i \in Ids
      PROVE  /\ rows'[i] = "none" => project'[i].st = "none"
             /\ i \notin astray' => Agrees(i, rows'[i], project'[i].st, reqs')
  <2>1. CASE i = j
    <3>1. On(reqs', r, "deleteCR", i)
      BY <1>1, <1>2, <2>1, OthersKept DEF On
    <3> QED
      BY <1>3, <2>1, <3>1 DEF Agrees
  <2>2. CASE i # j
    <3>1. rows'[i] = "none" => project'[i].st = "none"
      BY <1>1, <1>3, <2>2, OthersKept, <1>2 DEF ProjectsInv
    <3>2. ASSUME i \notin astray'
          PROVE  Agrees(i, rows'[i], project'[i].st, reqs')
      <4>1. Agrees(i, rows[i], project[i].st, reqs)
        BY <1>1, <1>2, <3>2, OthersKept DEF ProjectsInv
      <4>2. Agrees(i, rows[i], project[i].st, reqs')
        BY <1>1, <1>2, <2>2, <4>1, OthersKept, AgreesKept
      <4> QED
        BY <1>1, <1>3, <2>2, <4>2
    <3> QED
      BY <3>1, <3>2
  <2> QED
    BY <2>1, <2>2
<1> QED
  BY <1>4, <1>5, <1>6, <1>7 DEF IInv, ProjectsInv

\* The sizes that OverrunBounded compares.
LEMMA Sizes ==
    ASSUME TypeOK
    PROVE  /\ IsFiniteSet({i \in Ids : Active(i)}) /\ Cardinality({i \in Ids : Active(i)}) \in Nat
           /\ IsFiniteSet({r \in Reqs : At(r, "insert")})
           /\ Cardinality({r \in Reqs : At(r, "insert")}) \in Nat
           /\ IsFiniteSet(usage.reqs) /\ Cardinality(usage.reqs) \in Nat
<1>1. IsFiniteSet({i \in Ids : Active(i)}) /\ IsFiniteSet({r \in Reqs : At(r, "insert")})
  BY ServiceAssumption, FS_Subset
<1>2. IsFiniteSet(usage.reqs)
  <2>1. usage.reqs \subseteq Reqs
    BY ServiceAssumption DEF TypeOK
  <2> QED
    BY <2>1, ServiceAssumption, FS_Subset
<1> QED
  BY <1>1, <1>2, FS_CardinalityType

LEMMA CreateProjectStep ==
    ASSUME IInv, NEW r \in Reqs, CreateProject(r)
    PROVE  IInv'
<1> DEFINE q == [Done EXCEPT !.pc = "insert"]
<1>1. /\ UNCHANGED <<project, rows, keys, meta, k8s, sids, fails, usage, astray, torn>>
      /\ reqs' = [reqs EXCEPT ![r] = q]
      /\ reqs[r].pc = "idle" /\ r \in usage.reqs
      /\ CountActiveProjects < maxProjectsPerTenant
  BY DEF CreateProject, Begin, At, Go, tables, history
<1>2. /\ q \in ReqRecs /\ q.pc = "insert" /\ q.sid = 0
      /\ \A pc \in HalfPCs \cup NamePCs \cup RowPCs : pc # "insert"
  BY DoneFacts DEF ReqRecs, PCs, HalfPCs, NamePCs, RowPCs
<1> HIDE DEF q
<1>3. TypeOK' /\ FitInv' /\ RowIdsInv' /\ SecretsInv'
  <2>1. ProjectFits(q, rows', project')
    BY <1>2 DEF ProjectFits, RowPCs
  <2>2. SecretFits(q, sids)
    <3>1. 0 <= sids
      BY Defaults
    <3>2. q.sid <= sids
      BY <1>2, <3>1, Zenon
    <3> QED
      BY <1>2, <3>2 DEF SecretFits, NamePCs
  <2>3. q.pc \notin HalfPCs /\ reqs[r].pc \notin HalfPCs
    BY <1>1, <1>2 DEF HalfPCs
  <2>4. rows' \in [Ids -> Statuses] /\ project' \in [Ids -> Contract!Objects]
    BY <1>1, <1>2, OthersKept
  <2> QED
    BY <1>1, <1>2, <2>1, <2>2, <2>3, <2>4, OthersKept, ProjectStep
<1>4. OverrunBounded'
  <2> DEFINE A == {i \in Ids : Active(i)}
             D == {x \in Reqs : At(x, "insert")'}
  <2>1. {i \in Ids : Active(i)}' = A
    BY <1>1 DEF Active
  <2>2. D \subseteq usage.reqs
    BY <1>1, <1>3 DEF FitInv, At
  <2>3. TypeOK /\ TypeOK'
    BY <1>3 DEF IInv
  <2>4. Cardinality(D) <= Cardinality(usage.reqs) /\ Cardinality(D) \in Nat
        /\ Cardinality(usage.reqs) \in Nat
    BY <2>2, <2>3, Sizes, FS_Subset, FS_CardinalityType
  <2>5. Cardinality(A) \in Nat
    BY <2>3, Sizes
  <2>6. Cardinality(A) < maxProjectsPerTenant
    BY <1>1 DEF CountActiveProjects
  <2>7. maxProjectsPerTenant \in Nat
    BY ServiceAssumption
  <2> HIDE DEF A, D
  <2>8. Cardinality(A) + Cardinality(D) <= maxProjectsPerTenant + Cardinality(usage.reqs) - 1
    BY <2>4, <2>5, <2>6, <2>7
  <2> QED
    BY <1>1, <2>1, <2>8 DEF OverrunBounded, D
<1>5. CreatorsInv'
  BY <1>1, <1>2, OthersKept DEF CreatorsInv
<1>6. ASSUME NEW i \in Ids
      PROVE  /\ rows'[i] = "none" => project'[i].st = "none"
             /\ i \notin astray' => Agrees(i, rows'[i], project'[i].st, reqs')
  <2>1. rows'[i] = "none" => project'[i].st = "none"
    BY <1>1, <1>2, OthersKept DEF ProjectsInv
  <2>2. ASSUME i \notin astray'
        PROVE  Agrees(i, rows'[i], project'[i].st, reqs')
    <3>1. Agrees(i, rows[i], project[i].st, reqs)
      BY <1>1, <1>2, <2>2, OthersKept DEF ProjectsInv
    <3>2. Agrees(i, rows[i], project[i].st, reqs')
      BY <1>1, <1>2, <3>1, OthersKept, AgreesKept
    <3> QED
      BY <1>1, <3>2
  <2> QED
    BY <2>1, <2>2
<1> QED
  BY <1>3, <1>4, <1>5, <1>6 DEF IInv, ProjectsInv

LEMMA InsertProjectStep ==
    ASSUME IInv, NEW r \in Reqs, InsertProject(r)
    PROVE  IInv'
<1>1. PICK j \in Ids :
         /\ UNCHANGED <<project, keys, meta, k8s, sids, fails, usage, astray, torn>>
         /\ reqs[r].pc = "insert" /\ rows[j] = "none" /\ rows' = [rows EXCEPT ![j] = "pending"]
         /\ reqs' = [reqs EXCEPT ![r] = [Done EXCEPT !.pc = "createCR", !.id = j]]
  <2>1. usage.ids \subseteq Ids
    BY ServiceAssumption DEF IInv, TypeOK
  <2> QED
    BY <2>1 DEF InsertProject, InsertRow, At, Go, history
<1> DEFINE q == [Done EXCEPT !.pc = "createCR", !.id = j]
<1>2. /\ q \in ReqRecs /\ q.pc = "createCR" /\ q.id = j /\ q.sid = 0
      /\ \A pc \in HalfPCs \cup NamePCs : pc # "createCR"
  BY DoneFacts DEF ReqRecs, PCs, HalfPCs, NamePCs
<1>3. reqs' = [reqs EXCEPT ![r] = q]
  BY <1>1
<1> HIDE DEF q
<1>4. /\ rows' \in [Ids -> Statuses] /\ rows'[j] = "pending"
      /\ \A i \in Ids \ {j} : rows'[i] = rows[i]
  BY <1>1, <1>2, <1>3, OthersKept DEF Statuses
<1>5. project[j].st = "none"
  BY <1>1, <1>2, <1>3, OthersKept DEF ProjectsInv
\* No request is on an id that has no row.
<1>6. \A x \in Reqs : reqs[x].pc \in RowPCs => reqs[x].id # j
  BY <1>1, <1>2, <1>3, OthersKept DEF FitInv, ProjectFits
<1>7. TypeOK' /\ FitInv' /\ RowIdsInv' /\ SecretsInv'
  <2>1. ProjectFits(q, rows', project')
    BY <1>1, <1>2, <1>4, <1>5 DEF ProjectFits
  <2>2. SecretFits(q, sids)
    <3>1. 0 <= sids
      BY Defaults
    <3>2. q.sid <= sids
      BY <1>2, <3>1, Zenon
    <3> QED
      BY <1>2, <3>2 DEF SecretFits, NamePCs
  <2>3. q.pc \notin HalfPCs /\ reqs[r].pc \notin HalfPCs
    BY <1>1, <1>2 DEF HalfPCs
  <2>4. project' \in [Ids -> Contract!Objects] /\ r \in usage.reqs
        /\ \A i \in Ids : /\ rows[i] # "none" => rows'[i] # "none"
                          /\ rows[i] = "deleted" => rows'[i] = "deleted"
    BY <1>1, <1>2, <1>3, <1>4, OthersKept DEF FitInv
  <2> QED
    BY <1>1, <1>2, <1>3, <1>4, <2>1, <2>2, <2>3, <2>4, OthersKept, ProjectStep
<1>8. OverrunBounded'
  <2> DEFINE A == {i \in Ids : Active(i)}
             C == {x \in Reqs : At(x, "insert")}
  <2>1. {i \in Ids : Active(i)}' = A \cup {j} /\ j \notin A
    BY <1>1, <1>4 DEF Active
  <2>2. {x \in Reqs : At(x, "insert")}' = C \ {r} /\ r \in C
    BY <1>1, <1>2, <1>3, OthersKept DEF At
  <2>3. TypeOK /\ OverrunBounded
    BY DEF IInv
  <2>4. IsFiniteSet(A) /\ IsFiniteSet(C) /\ Cardinality(A) \in Nat /\ Cardinality(C) \in Nat
        /\ Cardinality(usage.reqs) \in Nat
    BY <2>3, Sizes
  <2>5. Cardinality(A) + Cardinality(C) <= maxProjectsPerTenant + Cardinality(usage.reqs) - 1
    BY <2>3 DEF OverrunBounded
  <2> HIDE DEF A, C
  <2>6. Cardinality(A \cup {j}) = Cardinality(A) + 1
    BY <2>1, <2>4, FS_AddElement
  <2>7. Cardinality(C \ {r}) = Cardinality(C) - 1
    BY <2>2, <2>4, FS_RemoveElement
  <2>8. Cardinality(A \cup {j}) + Cardinality(C \ {r})
            <= maxProjectsPerTenant + Cardinality(usage.reqs) - 1
    BY <2>4, <2>5, <2>6, <2>7, ServiceAssumption
  <2> QED
    BY <1>1, <2>1, <2>2, <2>8 DEF OverrunBounded
<1>9. CreatorsInv'
  BY <1>2, <1>3, <1>6, OthersKept DEF CreatorsInv, RowPCs
<1>10. ASSUME NEW i \in Ids
      PROVE  /\ rows'[i] = "none" => project'[i].st = "none"
             /\ i \notin astray' => Agrees(i, rows'[i], project'[i].st, reqs')
  <2>1. CASE i = j
    <3>1. On(reqs', r, "createCR", i)
      BY <1>2, <1>3, <2>1, OthersKept DEF On
    <3> QED
      BY <1>4, <2>1, <3>1 DEF Agrees
  <2>2. CASE i # j
    <3>1. rows'[i] = "none" => project'[i].st = "none"
      BY <1>1, <1>2, <1>3, <1>4, <2>2, OthersKept DEF ProjectsInv
    <3>2. ASSUME i \notin astray'
          PROVE  Agrees(i, rows'[i], project'[i].st, reqs')
      <4>1. Agrees(i, rows[i], project[i].st, reqs)
        BY <1>1, <1>2, <1>3, <3>2, OthersKept DEF ProjectsInv
      <4>2. reqs \in [Reqs -> ReqRecs]
        BY <1>2, <1>3, OthersKept
      <4>3. /\ q.pc \notin {"createCR", "deleteCR"} \/ q.id # i
            /\ reqs[r].pc \notin {"createCR", "deleteCR"} \/ reqs[r].id # i
        BY <1>1, <1>2, <2>2
      <4>4. Agrees(i, rows[i], project[i].st, reqs')
        BY <1>2, <1>3, <4>1, <4>2, <4>3, AgreesKept
      <4> QED
        BY <1>1, <1>4, <2>2, <4>4
    <3> QED
      BY <3>1, <3>2
  <2> QED
    BY <2>1, <2>2
<1> QED
  BY <1>7, <1>8, <1>9, <1>10 DEF IInv, ProjectsInv

\* The rows stay, and one request is over.
LEMMA RowsKept ==
    ASSUME IInv, NEW r \in Reqs, Finish(r), UNCHANGED <<rows, usage>>
    PROVE  /\ OverrunBounded' /\ CreatorsInv'
           /\ reqs' = [reqs EXCEPT ![r] = Done] /\ Done \in ReqRecs /\ Done.pc = "idle"
<1>1. /\ reqs' = [reqs EXCEPT ![r] = Done] /\ Done \in ReqRecs /\ Done.pc = "idle"
  BY DoneFacts DEF Finish
<1>2. OverrunBounded'
  BY <1>1, OthersKept, OverrunKept
<1>3. CreatorsInv'
  BY <1>1, OthersKept DEF CreatorsInv
<1> QED
  BY <1>1, <1>2, <1>3

LEMMA CreateCRStep ==
    ASSUME IInv, NEW r \in Reqs, CreateCR(r)
    PROVE  IInv'
<1> DEFINE j == reqs[r].id
<1>1. /\ UNCHANGED <<rows, keys, meta, k8s, sids, fails, usage, astray, torn>>
      /\ Finish(r) /\ reqs[r].pc = "createCR" /\ j \in Ids
      /\ project[j].st = "none" /\ project' = [project EXCEPT ![j].st = "live"]
  BY Defaults DEF CreateCR, At, tables, history, Contract!Create, ReqRecs
<1>2. /\ reqs' = [reqs EXCEPT ![r] = Done] /\ Done \in ReqRecs /\ Done.pc = "idle"
      /\ OverrunBounded' /\ CreatorsInv'
  BY <1>1, RowsKept
<1>3. /\ project' \in [Ids -> Contract!Objects] /\ project'[j].st = "live"
      /\ \A i \in Ids \ {j} : project'[i] = project[i]
  <2>1. project \in [Ids -> Contract!Objects] /\ project[j] \in Contract!Objects
    BY <1>1, <1>2, OthersKept
  <2>2. [project[j] EXCEPT !.st = "live"] \in Contract!Objects
        /\ [project[j] EXCEPT !.st = "live"].st = "live"
    BY <2>1 DEF Contract!Objects
  <2>3. project' = [project EXCEPT ![j] = [project[j] EXCEPT !.st = "live"]]
    BY <1>1
  <2> QED
    BY <1>1, <2>1, <2>2, <2>3
<1> HIDE DEF j
<1>4. FitInv' /\ TypeOK'
  <2>1. ProjectFits(Done, rows', project') /\ SecretFits(Done, sids')
        /\ sids \in Nat /\ sids' \in Nat /\ sids <= sids'
    <3>1. sids \in Nat /\ sids' = sids
      BY <1>1, Numbers DEF IInv
    <3> QED
      BY <3>1, DoneFits
  <2>2. \A x \in Reqs \ {r} : reqs[x].pc = "createCR" /\ project[reqs[x].id].st = "none"
                                    => project'[reqs[x].id].st = "none"
    <3>1. ASSUME NEW x \in Reqs \ {r}, reqs[x].pc = "createCR"
          PROVE  reqs[x].id \in Ids \ {j}
      BY <1>1, <1>2, <3>1, OthersKept DEF CreatorsInv, j, ReqRecs
    <3> QED
      BY <1>3, <3>1
  <2>3. \A i \in Ids : /\ rows[i] # "none" => rows'[i] # "none"
                       /\ rows[i] = "deleted" => rows'[i] = "deleted"
    BY <1>1
  <2>4. FitInv' /\ reqs' \in [Reqs -> ReqRecs]
    BY <1>1, <1>2, <2>1, <2>2, <2>3, OthersKept, FitKept
  <2> QED
    BY <1>1, <1>2, <1>3, <2>4, OthersKept DEF TypeOK
<1>5. RowIdsInv' /\ SecretsInv'
  <2>1. RowIdsInv'
    BY <1>1, <1>2, OthersKept DEF RowIdsInv
  <2>2. CASE j = Home
    <3>1. /\ \A s \in K8sNames : k8s'[s] = {}
          /\ \A n \in SecretNames : meta'[n] = 0
          /\ \A x \in Reqs : reqs[x].pc \notin HalfPCs
      BY <1>1, <1>2, <2>2, OthersKept DEF SecretsInv
    <3>2. \A x \in Reqs : reqs'[x].pc \notin HalfPCs
      BY <1>2, <3>1, OthersKept DEF HalfPCs
    <3>3. ASSUME NEW n \in SecretNames
          PROVE  Settled(n, meta'[n], k8s'[SecretOf(n)], reqs')
      <4>1. meta'[n] = 0 /\ k8s'[SecretOf(n)] = {}
        BY <3>1 DEF SecretOf, K8sNames
      <4>2. \A x \in Reqs : ~For(reqs', x, "insertMeta", n) /\ ~For(reqs', x, "cleanup", n)
        BY <3>2 DEF For, HalfPCs
      <4> QED
        BY <4>1, <4>2 DEF Settled
    <3> QED
      BY <1>3, <2>1, <2>2, <3>3 DEF SecretsInv, SecretOf
  <2>3. CASE j # Home
    <3>1. project'[Home].st = project[Home].st
      BY <1>3, <2>3, ServiceAssumption
    <3>2. Done.pc \notin HalfPCs /\ reqs[r].pc \notin HalfPCs /\ torn \subseteq torn'
      BY <1>1, <1>2 DEF HalfPCs
    <3> QED
      BY <1>1, <1>2, <3>1, <3>2, OthersKept, SecretSide
  <2> QED
    BY <2>2, <2>3
<1>6. ASSUME NEW i \in Ids
      PROVE  /\ rows'[i] = "none" => project'[i].st = "none"
             /\ i \notin astray' => Agrees(i, rows'[i], project'[i].st, reqs')
  <2>1. CASE i = j
    <3>1. rows[i] # "none"
      BY <1>1, <1>2, <2>1, OthersKept DEF FitInv, ProjectFits, RowPCs, j
    <3>2. ASSUME i \notin astray', rows'[i] = "deleted"
          PROVE  \E x \in Reqs : On(reqs', x, "deleteCR", i)
      <4>1. Agrees(i, rows[i], project[i].st, reqs) /\ On(reqs, r, "createCR", i)
        BY <1>1, <1>2, <2>1, <3>2, OthersKept DEF ProjectsInv, On, j
      <4>2. PICK x \in Reqs : On(reqs, x, "deleteCR", i)
        BY <1>1, <3>2, <4>1 DEF Agrees
      <4>3. x # r
        BY <1>1, <4>2 DEF On
      <4> QED
        BY <1>2, <4>2, <4>3, OthersKept DEF On
    <3> QED
      BY <1>1, <1>3, <2>1, <3>1, <3>2 DEF Agrees
  <2>2. CASE i # j
    <3>1. rows'[i] = rows[i] /\ project'[i].st = project[i].st
      BY <1>1, <1>3, <2>2
    <3>2. rows[i] = "none" => project[i].st = "none"
      BY <1>2, OthersKept DEF ProjectsInv
    <3>3. ASSUME i \notin astray'
          PROVE  Agrees(i, rows[i], project[i].st, reqs')
      <4>1. Agrees(i, rows[i], project[i].st, reqs)
        BY <1>1, <1>2, <3>3, OthersKept DEF ProjectsInv
      <4>2. /\ Done.pc \notin {"createCR", "deleteCR"} \/ Done.id # i
            /\ reqs[r].pc \notin {"createCR", "deleteCR"} \/ reqs[r].id # i
        BY <1>2, <2>2 DEF j
      <4> QED
        BY <1>2, <4>1, <4>2, OthersKept, AgreesKept
    <3> QED
      BY <3>1, <3>2, <3>3
  <2> QED
    BY <2>1, <2>2
<1> QED
  BY <1>2, <1>4, <1>5, <1>6 DEF IInv, ProjectsInv

LEMMA DeleteCRStep ==
    ASSUME IInv, NEW r \in Reqs, DeleteCR(r)
    PROVE  IInv'
<1> DEFINE j == reqs[r].id
<1>1. /\ UNCHANGED <<rows, keys, meta, k8s, sids, fails, usage, torn>>
      /\ Finish(r) /\ reqs[r].pc = "deleteCR" /\ j \in Ids
      /\ astray' = IF project[j].st = "none" THEN astray \cup {j} ELSE astray
  BY Defaults DEF DeleteCR, At, tables, history, ReqRecs
<1>2. /\ reqs' = [reqs EXCEPT ![r] = Done] /\ Done \in ReqRecs /\ Done.pc = "idle"
      /\ OverrunBounded' /\ CreatorsInv'
  BY <1>1, RowsKept
<1>3. /\ project' \in [Ids -> Contract!Objects] /\ project'[j].st # "live"
      /\ \A i \in Ids : /\ project'[i].st \in {"none", "live"} => project'[i].st = project[i].st
                        /\ project[i].st = "none" => project'[i].st = "none"
      /\ \A i \in Ids \ {j} : project'[i] = project[i]
  <2>1. project \in [Ids -> Contract!Objects] /\ project[j] \in Contract!Objects
    BY <1>1, <1>2, OthersKept
  <2>2. CASE project[j].st = "live"
    <3>1. PICK st \in {"deleting", "gone"} : project' = [project EXCEPT ![j].st = st]
      BY <2>2 DEF DeleteCR, Contract!Live, Contract!Delete
    <3>2. [project[j] EXCEPT !.st = st] \in Contract!Objects
          /\ [project[j] EXCEPT !.st = st].st = st
      BY <2>1 DEF Contract!Objects
    <3>3. project' = [project EXCEPT ![j] = [project[j] EXCEPT !.st = st]]
      BY <3>1
    <3>4. /\ project' \in [Ids -> Contract!Objects] /\ project'[j].st = st
          /\ \A i \in Ids \ {j} : project'[i] = project[i]
      BY <1>1, <2>1, <3>2, <3>3
    <3>5. st \notin {"none", "live"}
      OBVIOUS
    <3> QED
      BY <2>2, <3>4, <3>5
  <2>3. CASE project[j].st # "live"
    <3>1. project' = project
      BY <2>3 DEF DeleteCR, Contract!Live
    <3> QED
      BY <2>1, <2>3, <3>1
  <2> QED
    BY <2>2, <2>3
<1>4. rows[j] = "deleted" /\ astray \subseteq astray' /\ astray' \subseteq Ids
  BY <1>1, <1>2, OthersKept DEF FitInv, ProjectFits
<1> HIDE DEF j
<1>5. TypeOK' /\ FitInv' /\ RowIdsInv' /\ SecretsInv'
  <2>1. ProjectFits(Done, rows', project') /\ SecretFits(Done, sids)
    BY DoneFits, Numbers DEF IInv
  <2>2. Done.pc \notin HalfPCs /\ reqs[r].pc \notin HalfPCs
    BY <1>1, <1>2 DEF HalfPCs
  <2>3. \A x \in Reqs \ {r} : reqs[x].pc = "createCR" /\ project[reqs[x].id].st = "none"
                                    => project'[reqs[x].id].st = "none"
    BY <1>3, Defaults DEF ReqRecs
  <2>4. /\ rows' \in [Ids -> Statuses] /\ Home \in Ids
        /\ \A i \in Ids : /\ rows[i] # "none" => rows'[i] # "none"
                          /\ rows[i] = "deleted" => rows'[i] = "deleted"
    BY <1>1, <1>2, OthersKept, ServiceAssumption
  <2>5. project'[Home].st \in {"none", "live"} => project'[Home].st = project[Home].st
    BY <1>3, <2>4
  <2> QED
    BY <1>1, <1>2, <1>3, <1>4, <2>1, <2>2, <2>3, <2>4, <2>5, ProjectStep
<1>6. ASSUME NEW i \in Ids
      PROVE  /\ rows'[i] = "none" => project'[i].st = "none"
             /\ i \notin astray' => Agrees(i, rows'[i], project'[i].st, reqs')
  <2>1. CASE i = j
    <3>1. ASSUME i \notin astray', NEW x \in Reqs
          PROVE  ~On(reqs', x, "createCR", i)
      <4>1. project[i].st # "none"
        BY <1>1, <2>1, <3>1
      <4>2. CASE x = r
        BY <1>2, <4>2, OthersKept DEF On
      <4>3. CASE x # r
        <5>1. reqs'[x] = reqs[x] /\ ProjectFits(reqs[x], rows, project)
          BY <1>2, <4>3, OthersKept DEF FitInv
        <5> QED
          BY <4>1, <5>1 DEF On, ProjectFits
      <4> QED
        BY <4>2, <4>3
    <3> QED
      BY <1>1, <1>3, <1>4, <2>1, <3>1 DEF Agrees
  <2>2. CASE i # j
    <3>1. rows'[i] = rows[i] /\ project'[i].st = project[i].st
      BY <1>1, <1>3, <2>2
    <3>2. rows[i] = "none" => project[i].st = "none"
      BY <1>2, OthersKept DEF ProjectsInv
    <3>3. ASSUME i \notin astray'
          PROVE  Agrees(i, rows[i], project[i].st, reqs')
      <4>1. Agrees(i, rows[i], project[i].st, reqs)
        BY <1>2, <1>4, <3>3, OthersKept DEF ProjectsInv
      <4>2. /\ Done.pc \notin {"createCR", "deleteCR"} \/ Done.id # i
            /\ reqs[r].pc \notin {"createCR", "deleteCR"} \/ reqs[r].id # i
        BY <1>2, <2>2 DEF j
      <4> QED
        BY <1>2, <4>1, <4>2, OthersKept, AgreesKept
    <3> QED
      BY <3>1, <3>2, <3>3
  <2> QED
    BY <2>1, <2>2
<1> QED
  BY <1>2, <1>5, <1>6 DEF IInv, ProjectsInv

-----------------------------------------------------------------------------
(* The controller and the end of the namespace. *)

LEMMA ControllerStep ==
    ASSUME IInv, Controller
    PROVE  IInv'
<1>1. /\ UNCHANGED <<rows, keys, meta, k8s, reqs, sids, fails, usage, astray, torn>>
      /\ Contract!Controller
  BY DEF Controller, tables, history
<1>2. /\ TypeOK /\ OverrunBounded /\ FitInv /\ CreatorsInv /\ ProjectsInv
      /\ RowIdsInv /\ SecretsInv /\ Home \in Ids
  BY ServiceAssumption DEF IInv
\* Only a Project that is being deleted changes its state.
<1>3. /\ project' \in [Ids -> Contract!Objects]
      /\ \A i \in Ids : project'[i].st = project[i].st
                        \/ (project[i].st = "deleting" /\ project'[i].st = "gone")
  <2>1. PICK j \in Ids : Contract!Admit(j) \/ Contract!Report(j) \/ Contract!Release(j)
    BY <1>1 DEF Contract!Controller
  <2>2. project \in [Ids -> Contract!Objects] /\ project[j] \in Contract!Objects
    BY <1>2 DEF TypeOK
  <2>3. CASE Contract!Release(j)
    <3>1. /\ [project[j] EXCEPT !.st = "gone"] \in Contract!Objects
          /\ [project[j] EXCEPT !.st = "gone"].st = "gone"
      BY <2>2 DEF Contract!Objects
    <3>2. project' = [project EXCEPT ![j] = [project[j] EXCEPT !.st = "gone"]]
          /\ project[j].st = "deleting"
      BY <2>3 DEF Contract!Release
    <3>3. \A i \in Ids \ {j} : project'[i] = project[i]
      BY <2>2, <3>2
    <3>4. project'[j].st = "gone" /\ project' \in [Ids -> Contract!Objects]
      BY <2>2, <3>1, <3>2
    <3>5. ASSUME NEW i \in Ids
          PROVE  project'[i].st = project[i].st
                 \/ (project[i].st = "deleting" /\ project'[i].st = "gone")
      BY <3>2, <3>3, <3>4, Zenon
    <3> QED
      BY <3>4, <3>5, Zenon
  <2>4. ASSUME NEW ph \in {"Provisioning", "Ready", "Failed"},
               project' = [project EXCEPT ![j].phase = ph]
        PROVE  /\ project' \in [Ids -> Contract!Objects]
               /\ \A i \in Ids : project'[i].st = project[i].st
    <3>1. /\ [project[j] EXCEPT !.phase = ph] \in Contract!Objects
          /\ [project[j] EXCEPT !.phase = ph].st = project[j].st
      BY <2>2 DEF Contract!Objects
    <3>2. project' = [project EXCEPT ![j] = [project[j] EXCEPT !.phase = ph]]
      BY <2>4
    <3> QED
      BY <2>2, <3>1, <3>2
  <2>5. CASE Contract!Admit(j) \/ Contract!Report(j)
    <3>1. CASE Contract!Admit(j)
      <4>1. "Provisioning" \in {"Provisioning", "Ready", "Failed"}
            /\ project' = [project EXCEPT ![j].phase = "Provisioning"]
        BY <3>1 DEF Contract!Admit
      <4>2. /\ project' \in [Ids -> Contract!Objects]
            /\ \A i \in Ids : project'[i].st = project[i].st
        BY <2>4, <4>1, Zenon
      <4> QED
        BY <4>2, Zenon
    <3>2. CASE Contract!Report(j)
      <4>1. PICK ph \in {"Provisioning", "Ready", "Failed"} :
                project' = [project EXCEPT ![j].phase = ph]
        BY <3>2 DEF Contract!Report
      <4>2. /\ project' \in [Ids -> Contract!Objects]
            /\ \A i \in Ids : project'[i].st = project[i].st
        BY <2>4, <4>1, Zenon
      <4> QED
        BY <4>2, Zenon
    <3> QED
      BY <2>5, <3>1, <3>2
  <2> QED
    BY <2>1, <2>3, <2>5
<1>4. TypeOK' /\ OverrunBounded' /\ CreatorsInv' /\ RowIdsInv'
  BY <1>1, <1>2, <1>3 DEF TypeOK, OverrunBounded, Active, At, CreatorsInv, RowIdsInv
<1>5. FitInv'
  <2>1. ASSUME NEW x \in Reqs
        PROVE  ProjectFits(reqs[x], rows, project')
    <3>1. ProjectFits(reqs[x], rows, project) /\ reqs[x].id \in Ids
      BY <1>2 DEF FitInv, TypeOK, ReqRecs
    <3> QED
      BY <1>3, <3>1 DEF ProjectFits
  <2> QED
    BY <1>1, <1>2, <2>1 DEF FitInv
<1>6. ProjectsInv'
  <2>1. ASSUME NEW i \in Ids
        PROVE  /\ rows'[i] = "none" => project'[i].st = "none"
               /\ i \notin astray' => Agrees(i, rows'[i], project'[i].st, reqs')
    <3>1. project'[i].st = "live" <=> project[i].st = "live"
      BY <1>3
    <3> QED
      BY <1>1, <1>2, <1>3, <3>1 DEF ProjectsInv, Agrees
  <2> QED
    BY <2>1 DEF ProjectsInv
<1>7. SecretsInv'
  <2>1. project'[Home].st \in {"none", "live"} => project'[Home].st = project[Home].st
    BY <1>2, <1>3
  <2> QED
    BY <1>1, <1>2, <2>1 DEF SecretsInv, SecretOf
<1> QED
  BY <1>4, <1>5, <1>6, <1>7 DEF IInv

LEMMA NamespaceStep ==
    ASSUME IInv, NamespaceTerminates
    PROVE  IInv'
<1>1. /\ UNCHANGED <<project, rows, keys, meta, reqs, sids, fails, usage, astray, torn>>
      /\ project[Home].st \in {"deleting", "gone"} /\ k8s' = [s \in K8sNames |-> {}]
  BY DEF NamespaceTerminates, tables, history
<1>2. /\ TypeOK /\ OverrunBounded /\ FitInv /\ CreatorsInv /\ ProjectsInv
      /\ RowIdsInv /\ SecretsInv
  BY DEF IInv
<1>3. TypeOK' /\ OverrunBounded' /\ CreatorsInv' /\ RowIdsInv'
  BY <1>1, <1>2 DEF TypeOK, OverrunBounded, Active, At, CreatorsInv, RowIdsInv
<1>4. FitInv' /\ ProjectsInv' /\ SecretsInv'
  BY <1>1, <1>2 DEF FitInv, ProjectsInv, SecretsInv
<1> QED
  BY <1>3, <1>4 DEF IInv

-----------------------------------------------------------------------------
(* Steps on secrets: first what each makes of the secret it is about. *)

\* One request moves on, and it was not about to delete a row.
LEMMA DoomedKept ==
    ASSUME NEW n, NEW m, NEW R \in [Reqs -> ReqRecs], NEW r \in Reqs, NEW q \in ReqRecs,
           NEW S, S = [R EXCEPT ![r] = q], R[r].pc # "deleteMeta"
    PROVE  /\ S[r] = q /\ \A x \in Reqs \ {r} : S[x] = R[x]
           /\ Doomed(n, m, R) => Doomed(n, m, S)
<1>1. S[r] = q /\ \A x \in Reqs \ {r} : S[x] = R[x]
  OBVIOUS
<1>2. ASSUME Doomed(n, m, R)
      PROVE  Doomed(n, m, S)
  <2>1. PICK x \in Reqs : For(R, x, "deleteMeta", n) /\ R[x].sid = m
    BY <1>2 DEF Doomed
  <2>2. x # r
    BY <2>1 DEF For
  <2>3. S[x] = R[x]
    BY <1>1, <2>2
  <2> QED
    BY <2>1, <2>3, Zenon DEF Doomed, For
<1> QED
  BY <1>1, <1>2

\* The Secret is created.
LEMMA Created ==
    ASSUME NEW n, NEW m, NEW R \in [Reqs -> ReqRecs], NEW r \in Reqs, NEW q \in ReqRecs,
           NEW S, S = [R EXCEPT ![r] = q],
           For(R, r, "createSecret", n), q.pc = "insertMeta", q.name = n,
           Settled(n, m, {}, R)
    PROVE  Settled(n, m, {n}, S)
<1>1. /\ S[r] = q /\ \A x \in Reqs \ {r} : S[x] = R[x]
      /\ Doomed(n, m, R) => Doomed(n, m, S)
  BY DoomedKept DEF For
<1>2. n \notin {} /\ n \in {n}
  OBVIOUS
<1>3. \A x \in Reqs : ~For(R, x, "insertMeta", n)
  BY <1>2, Zenon DEF Settled
<1>4. For(S, r, "insertMeta", n)
  BY <1>1 DEF For
<1>5. \A x \in Reqs : For(S, x, "insertMeta", n) => x = r
  BY <1>1, <1>3, Zenon DEF For
<1>6. m # 0 => Doomed(n, m, S)
  BY <1>1, <1>2, Zenon DEF Settled
<1> QED
  BY <1>2, <1>4, <1>5, <1>6, Zenon DEF Settled

\* The row is inserted.
LEMMA Inserted ==
    ASSUME NEW n, NEW m, NEW k, NEW R \in [Reqs -> ReqRecs], NEW r \in Reqs, NEW q \in ReqRecs,
           NEW S, S = [R EXCEPT ![r] = q], NEW new,
           For(R, r, "insertMeta", n), q.pc = "idle",
           \A x \in Reqs : R[x].sid # new, new # 0,
           Settled(n, m, k, R)
    PROVE  Settled(n, new, k, S)
<1>1. S[r] = q /\ \A x \in Reqs \ {r} : S[x] = R[x]
  OBVIOUS
<1>2. n \in k /\ \A x \in Reqs : For(R, x, "insertMeta", n) => x = r
  BY Zenon DEF Settled
<1>3. \A x \in Reqs, pc \in {"insertMeta", "cleanup", "deleteMeta"} : For(S, x, pc, n) => x # r
  BY <1>1 DEF For
<1>4. ~Doomed(n, new, S)
  <2>1. ASSUME NEW x \in Reqs, For(S, x, "deleteMeta", n), S[x].sid = new
        PROVE  FALSE
    BY <1>1, <1>3, <2>1
  <2> QED
    BY <2>1 DEF Doomed
<1>5. \A x \in Reqs : ~For(S, x, "insertMeta", n)
  BY <1>1, <1>2, <1>3 DEF For
<1>6. \A x \in Reqs : For(S, x, "cleanup", n) => S[x].sid # new
  BY <1>1, <1>3
<1> QED
  BY <1>2, <1>4, <1>5, <1>6, Zenon DEF Settled

\* The row cannot be inserted.
LEMMA Refused ==
    ASSUME NEW n, NEW m, NEW k, NEW R \in [Reqs -> ReqRecs], NEW r \in Reqs, NEW q \in ReqRecs,
           NEW S, S = [R EXCEPT ![r] = q],
           For(R, r, "insertMeta", n), q.pc = "cleanup", q.name = n,
           Settled(n, m, k, R)
    PROVE  Settled(n, m, k, S)
<1>1. /\ S[r] = q /\ \A x \in Reqs \ {r} : S[x] = R[x]
      /\ Doomed(n, m, R) => Doomed(n, m, S)
  BY DoomedKept DEF For
<1>2. n \in k /\ \A x \in Reqs : For(R, x, "insertMeta", n) => x = r
  BY Zenon DEF Settled
<1>3. For(S, r, "cleanup", n) /\ ~For(S, r, "insertMeta", n)
  BY <1>1 DEF For
<1>4. \A x \in Reqs : ~For(S, x, "insertMeta", n)
  BY <1>1, <1>2, <1>3, Zenon DEF For
<1>5. m # 0 => Doomed(n, m, S)
  BY <1>1, Zenon DEF Settled
<1> QED
  BY <1>2, <1>3, <1>4, <1>5, Zenon DEF Settled

\* The Secret is removed because the row could not be inserted.
LEMMA CleanedUp ==
    ASSUME NEW n, NEW m, NEW k, NEW R \in [Reqs -> ReqRecs], NEW r \in Reqs, NEW q \in ReqRecs,
           NEW S, S = [R EXCEPT ![r] = q],
           For(R, r, "cleanup", n), R[r].sid = m, q.pc = "idle",
           \A x \in Reqs : ~For(R, x, "insertMeta", n),
           Settled(n, m, k, R)
    PROVE  Settled(n, m, {}, S)
<1>1. /\ S[r] = q /\ \A x \in Reqs \ {r} : S[x] = R[x]
      /\ Doomed(n, m, R) => Doomed(n, m, S)
  BY DoomedKept DEF For
<1>2. m # 0 => Doomed(n, m, S)
  BY <1>1, Zenon DEF Settled
<1>3. ~For(S, r, "insertMeta", n)
  BY <1>1 DEF For
<1>4. \A x \in Reqs : ~For(S, x, "insertMeta", n)
  BY <1>1, <1>3, Zenon DEF For
<1>5. n \notin {}
  OBVIOUS
<1> QED
  BY <1>2, <1>4, <1>5, Zenon DEF Settled

\* The Secret is deleted, the row will be.
LEMMA SecretDeleted ==
    ASSUME NEW n, NEW m, NEW k, NEW R \in [Reqs -> ReqRecs], NEW r \in Reqs, NEW q \in ReqRecs,
           NEW S, S = [R EXCEPT ![r] = q],
           For(R, r, "deleteSecret", n), q.pc = "deleteMeta", q.name = n, q.sid = R[r].sid,
           n \in k => R[r].sid = m /\ \A x \in Reqs : ~For(R, x, "insertMeta", n),
           Settled(n, m, k, R)
    PROVE  Settled(n, m, {}, S)
<1>1. /\ S[r] = q /\ \A x \in Reqs \ {r} : S[x] = R[x]
      /\ Doomed(n, m, R) => Doomed(n, m, S)
  BY DoomedKept DEF For
<1>2. m # 0 => Doomed(n, m, S)
  <2>1. CASE n \in k
    BY <1>1, <2>1 DEF Doomed, For
  <2>2. CASE n \notin k
    BY <1>1, <2>2, Zenon DEF Settled
  <2> QED
    BY <2>1, <2>2
<1>3. \A x \in Reqs : ~For(R, x, "insertMeta", n)
  BY Zenon DEF Settled
<1>4. ~For(S, r, "insertMeta", n)
  BY <1>1 DEF For
<1>5. \A x \in Reqs : ~For(S, x, "insertMeta", n)
  BY <1>1, <1>3, <1>4, Zenon DEF For
<1>6. n \notin {}
  OBVIOUS
<1> QED
  BY <1>2, <1>5, <1>6, Zenon DEF Settled

\* The row is deleted, if it is still the one that was read.
LEMMA RowDeleted ==
    ASSUME NEW n, NEW m, NEW k, NEW R \in [Reqs -> ReqRecs], NEW r \in Reqs, NEW q \in ReqRecs,
           NEW S, S = [R EXCEPT ![r] = q], NEW new,
           For(R, r, "deleteMeta", n), q.pc = "idle",
           new = IF m = R[r].sid THEN 0 ELSE m,
           Settled(n, m, k, R)
    PROVE  Settled(n, new, k, S)
<1>1. S[r] = q /\ \A x \in Reqs \ {r} : S[x] = R[x]
  OBVIOUS
<1>2. \A x \in Reqs : /\ For(S, x, "insertMeta", n) <=> For(R, x, "insertMeta", n)
                      /\ For(S, x, "cleanup", n) <=> For(R, x, "cleanup", n)
                      /\ For(R, x, "cleanup", n) => S[x].sid = R[x].sid
  BY <1>1 DEF For
<1>3. CASE m = R[r].sid
  <2>1. new = 0 /\ Doomed(n, m, R)
    BY <1>3, Zenon DEF Doomed
  <2> QED
    BY <1>2, <2>1, Zenon DEF Settled
<1>4. CASE m # R[r].sid
  <2>1. ASSUME NEW x \in Reqs
        PROVE  For(S, x, "deleteMeta", n) /\ S[x].sid = m
                  <=> For(R, x, "deleteMeta", n) /\ R[x].sid = m
    BY <1>1, <1>4 DEF For
  <2>2. Doomed(n, m, S) <=> Doomed(n, m, R)
    BY <2>1, Zenon DEF Doomed
  <2>3. new = m
    BY <1>4
  <2> QED
    BY <1>2, <2>2, <2>3, Zenon DEF Settled
<1> QED
  BY <1>3, <1>4

\* One request on secrets moves on; rows of projects and objects stay.
LEMMA SecretStep ==
    ASSUME IInv, NEW r \in Reqs, NEW q \in ReqRecs, reqs' = [reqs EXCEPT ![r] = q],
           UNCHANGED <<project, rows, keys, usage, astray>>, fails' \in 0..usage.fails,
           meta' \in [SecretNames -> 0..MaxSids], k8s' \in [K8sNames -> SUBSET SecretNames],
           sids' \in 0..MaxSids, sids <= sids', \A n \in SecretNames : meta'[n] <= sids',
           torn \subseteq torn', torn' \subseteq SecretNames,
           reqs[r].pc \in NamePCs, q.pc \in NamePCs \cup {"idle"}, SecretFits(q, sids'),
           project[Home].st # "none",
           \A n \in SecretNames \ torn' :
               Settled(n, meta[n], k8s[SecretOf(n)], reqs)
                   => Settled(n, meta'[n], k8s'[SecretOf(n)], reqs')
    PROVE  IInv'
<1>1. /\ TypeOK /\ OverrunBounded /\ FitInv /\ CreatorsInv /\ ProjectsInv
      /\ RowIdsInv /\ SecretsInv
  BY DEF IInv
<1>2. \A pc \in {"insert", "createCR", "deleteCR", "phase", "update", "idle"} : pc \notin NamePCs
  BY DEF NamePCs
<1>3. r \in usage.reqs /\ ProjectFits(q, rows, project)
  BY <1>1, <1>2 DEF FitInv, ProjectFits, RowPCs
<1>4. FitInv' /\ reqs' \in [Reqs -> ReqRecs]
  <2>1. sids' \in Nat
    BY ServiceAssumption
  <2>2. ProjectFits(q, rows', project')
    BY <1>3
  <2>3. \A i \in Ids : /\ rows[i] # "none" => rows'[i] # "none"
                       /\ rows[i] = "deleted" => rows'[i] = "deleted"
    OBVIOUS
  <2>4. \A x \in Reqs \ {r} : reqs[x].pc = "createCR" /\ project[reqs[x].id].st = "none"
                                    => project'[reqs[x].id].st = "none"
    OBVIOUS
  <2> QED
    BY <1>1, <1>3, <2>1, <2>2, <2>3, <2>4, FitKept
<1>5. TypeOK'
  BY <1>1, <1>4 DEF TypeOK
<1>6. OverrunBounded' /\ CreatorsInv' /\ ProjectsInv'
  <2>1. q.pc \notin {"insert", "createCR", "deleteCR"} /\ reqs[r].pc \notin {"createCR", "deleteCR"}
    BY <1>2
  <2> QED
    BY <1>1, <2>1, ProjectSide
<1>7. RowIdsInv'
  BY DEF RowIdsInv
<1>8. SecretsInv'
  <2>1. ASSUME project'[Home].st = "live", NEW n \in SecretNames \ torn'
        PROVE  Settled(n, meta'[n], k8s'[SecretOf(n)], reqs')
    <3>1. Settled(n, meta[n], k8s[SecretOf(n)], reqs)
      BY <1>1, <2>1 DEF SecretsInv
    <3> QED
      BY <3>1
  <2> QED
    BY <2>1, Zenon DEF SecretsInv, SecretOf
<1> QED
  BY <1>4, <1>5, <1>6, <1>7, <1>8 DEF IInv

\* What is known of a request on a secret.
LEMMA AtSecret ==
    ASSUME IInv, NEW r \in Reqs, reqs[r].pc \in NamePCs
    PROVE  /\ TypeOK /\ reqs \in [Reqs -> ReqRecs] /\ reqs[r] \in ReqRecs
           /\ reqs[r].name \in SecretNames /\ SecretOf(reqs[r].name) \in K8sNames
           /\ SecretFits(reqs[r], sids) /\ reqs[r].sid \in Nat
           /\ meta \in [SecretNames -> 0..MaxSids] /\ k8s \in [K8sNames -> SUBSET SecretNames]
           /\ sids \in 0..MaxSids /\ sids \in Nat /\ sids <= sids /\ MaxSids \in Nat
           /\ fails \in 0..usage.fails /\ astray \subseteq Ids /\ torn \subseteq SecretNames
           /\ \A n \in SecretNames : meta[n] <= sids /\ SecretOf(n) \in K8sNames
           /\ \A pc \in HalfPCs : reqs[r].pc = pc => project[Home].st # "none"
<1>1. TypeOK /\ FitInv /\ RowIdsInv /\ SecretsInv
  BY DEF IInv
<1>2. reqs[r].name \in SecretNames /\ SecretFits(reqs[r], sids)
  BY <1>1 DEF FitInv, SecretFits
<1>3. \A n \in SecretNames : meta[n] <= sids /\ SecretOf(n) \in K8sNames
  BY <1>1 DEF RowIdsInv, SecretOf, K8sNames
<1>4. \A pc \in HalfPCs : reqs[r].pc = pc => project[Home].st # "none"
  BY <1>1 DEF SecretsInv
<1>5. sids \in Nat /\ sids <= sids /\ MaxSids \in Nat /\ reqs[r].sid \in Nat
  BY <1>1, Numbers
<1> QED
  BY <1>1, <1>2, <1>3, <1>4, <1>5 DEF TypeOK

\* The secrets that the request is not about.
LEMMA OtherSecrets ==
    ASSUME NEW n, NEW m, NEW k, NEW l, NEW r \in Reqs, NEW q \in ReqRecs,
           reqs \in [Reqs -> ReqRecs], reqs' = [reqs EXCEPT ![r] = q],
           q.pc \notin HalfPCs \/ q.name # n, reqs[r].name # n,
           Settled(n, m, k, reqs), n \in k <=> n \in l
    PROVE  Settled(n, m, l, reqs')
  BY SettledKept

\* A request on a secret ends without having changed it.
LEMMA EndOnSecret ==
    ASSUME IInv, NEW r \in Reqs, Finish(r), reqs[r].pc \in NamePCs \ HalfPCs,
           UNCHANGED <<project, tables, k8s, fails, history, astray, torn>>
    PROVE  IInv'
<1>1. UNCHANGED <<project, rows, keys, meta, k8s, sids, fails, usage, astray, torn>>
  BY DEF tables, history
<1>2. reqs[r].pc \notin {"createCR", "deleteCR"} \cup HalfPCs
  BY DEF NamePCs
<1> QED
  BY <1>1, <1>2, HistoryKept, QuietEnd

LEMMA CreateK8sSecretStep ==
    ASSUME IInv, NEW r \in Reqs, CreateK8sSecret(r)
    PROVE  IInv'
<1> DEFINE p == reqs[r]
           name == p.name
           q == [p EXCEPT !.pc = "insertMeta"]
<1>1. p.pc = "createSecret" /\ p.pc \in NamePCs \ HalfPCs
      /\ UNCHANGED <<project, tables, fails, history, astray, torn>>
  BY DEF CreateK8sSecret, At, NamePCs, HalfPCs
<1>2. CASE Finish(r) /\ UNCHANGED k8s
  BY <1>1, <1>2, EndOnSecret
<1>3. CASE /\ HasNamespace /\ k8s[SecretOf(name)] = {}
           /\ k8s' = [k8s EXCEPT ![SecretOf(name)] = {name}]
           /\ reqs' = [reqs EXCEPT ![r] = q]
  <2>1. UNCHANGED <<project, rows, keys, meta, sids, fails, usage, astray, torn>>
    BY <1>1 DEF tables, history
  <2>2. /\ p \in ReqRecs /\ q \in ReqRecs /\ q.pc = "insertMeta" /\ q.name = name
        /\ q.sid = p.sid /\ q.pc \in NamePCs
    BY <1>1, AtSecret DEF ReqRecs, PCs, NamePCs
  <2> HIDE DEF q
  <2>3. SecretFits(q, sids')
    BY <1>1, <2>1, <2>2, AtSecret DEF SecretFits
  <2>4. /\ k8s' \in [K8sNames -> SUBSET SecretNames] /\ k8s'[SecretOf(name)] = {name}
        /\ \A s \in K8sNames \ {SecretOf(name)} : k8s'[s] = k8s[s]
    BY <1>1, <1>3, AtSecret
  <2>5. project[Home].st # "none"
    BY <1>3 DEF HasNamespace, Contract!Live
  <2>6. ASSUME NEW n \in SecretNames, Settled(n, meta[n], k8s[SecretOf(n)], reqs)
        PROVE  Settled(n, meta'[n], k8s'[SecretOf(n)], reqs')
    <3>1. meta'[n] = meta[n] /\ reqs \in [Reqs -> ReqRecs] /\ SecretOf(n) \in K8sNames
      BY <1>1, <2>1, AtSecret
    <3>2. CASE n = name
      <4>1. For(reqs, r, "createSecret", n) /\ Settled(n, meta[n], {}, reqs)
        BY <1>1, <1>3, <2>6, <3>2 DEF For
      <4>2. Settled(n, meta[n], {n}, reqs')
        BY <1>3, <2>2, <3>1, <3>2, <4>1, Created
      <4> QED
        BY <2>4, <3>1, <3>2, <4>2
    <3>3. CASE n # name
      <4>1. n \in k8s[SecretOf(n)] <=> n \in k8s'[SecretOf(n)]
        BY <1>3, <2>4, <3>1, <3>3
      <4> QED
        BY <1>3, <2>2, <2>6, <3>1, <3>3, <4>1, OtherSecrets
    <3> QED
      BY <3>2, <3>3
  <2>7. /\ meta' \in [SecretNames -> 0..MaxSids] /\ sids' \in 0..MaxSids /\ sids <= sids'
        /\ \A n \in SecretNames : meta'[n] <= sids'
        /\ torn \subseteq torn' /\ torn' \subseteq SecretNames /\ fails' \in 0..usage.fails
    BY <1>1, <2>1, AtSecret
  <2> QED
    BY <1>1, <1>3, <2>1, <2>2, <2>3, <2>4, <2>5, <2>6, <2>7, SecretStep
<1> QED
  BY <1>2, <1>3 DEF CreateK8sSecret, Go

LEMMA UpdateK8sSecretStep ==
    ASSUME IInv, NEW r \in Reqs, UpdateK8sSecret(r)
    PROVE  IInv'
<1> DEFINE p == reqs[r]
           name == p.name
<1>1. p.pc = "updateSecret" /\ p.pc \in NamePCs \ HalfPCs /\ Finish(r)
      /\ UNCHANGED <<project, tables, fails, history, astray>>
  BY DEF UpdateK8sSecret, At, NamePCs, HalfPCs
<1>2. CASE UNCHANGED <<k8s, torn>>
  BY <1>1, <1>2, EndOnSecret
<1>3. CASE /\ k8s[SecretOf(name)] # {}
           /\ k8s' = [k8s EXCEPT ![SecretOf(name)] = k8s[SecretOf(name)] \cup {name}]
           /\ torn' = torn \cup ({name} \ k8s[SecretOf(name)])
  <2>1. UNCHANGED <<project, rows, keys, meta, sids, fails, usage, astray>>
    BY <1>1 DEF tables, history
  <2>2. reqs' = [reqs EXCEPT ![r] = Done] /\ Done \in ReqRecs /\ Done.pc = "idle"
    BY <1>1, DoneFacts DEF Finish
  <2>3. SecretFits(Done, sids')
    BY <1>1, <2>1, AtSecret, DoneFits
  <2>4. /\ k8s' \in [K8sNames -> SUBSET SecretNames]
        /\ k8s'[SecretOf(name)] = k8s[SecretOf(name)] \cup {name}
        /\ \A s \in K8sNames \ {SecretOf(name)} : k8s'[s] = k8s[s]
    BY <1>1, <1>3, AtSecret
  <2>5. project[Home].st # "none"
    <3>1. SecretsInv /\ SecretOf(name) \in K8sNames
      BY <1>1, AtSecret DEF IInv
    <3> QED
      BY <1>3, <3>1 DEF SecretsInv
  <2>6. ASSUME NEW n \in SecretNames \ torn', Settled(n, meta[n], k8s[SecretOf(n)], reqs)
        PROVE  Settled(n, meta'[n], k8s'[SecretOf(n)], reqs')
    <3>1. meta'[n] = meta[n] /\ reqs \in [Reqs -> ReqRecs] /\ SecretOf(n) \in K8sNames
      BY <1>1, <2>1, AtSecret
    <3>2. n \in k8s[SecretOf(n)] <=> n \in k8s'[SecretOf(n)]
      BY <1>3, <2>4, <2>6, <3>1
    <3>3. Done.pc \notin HalfPCs /\ p.pc \notin HalfPCs
      BY <1>1, <2>2 DEF HalfPCs
    <3> QED
      BY <2>2, <2>6, <3>1, <3>2, <3>3, SettledKept
  <2>7. /\ meta' \in [SecretNames -> 0..MaxSids] /\ sids' \in 0..MaxSids /\ sids <= sids'
        /\ \A n \in SecretNames : meta'[n] <= sids'
        /\ torn \subseteq torn' /\ torn' \subseteq SecretNames /\ fails' \in 0..usage.fails
    BY <1>1, <1>3, <2>1, AtSecret
  <2> QED
    BY <1>1, <2>1, <2>2, <2>3, <2>4, <2>5, <2>6, <2>7, SecretStep
<1> QED
  BY <1>2, <1>3 DEF UpdateK8sSecret

LEMMA CleanupSecretStep ==
    ASSUME IInv, NEW r \in Reqs, CleanupSecret(r)
    PROVE  IInv'
<1> DEFINE p == reqs[r]
           name == p.name
<1>1. /\ p.pc = "cleanup" /\ p.pc \in NamePCs /\ p.pc \in HalfPCs
      /\ UNCHANGED <<project, rows, keys, meta, sids, fails, usage, astray>>
      /\ k8s' = [k8s EXCEPT ![SecretOf(name)] = {}]
      /\ torn' = torn \cup (k8s[SecretOf(name)] \ {name})
                      \cup {n \in {name} : meta[n] # p.sid \/ Awaited(n)}
  BY DEF CleanupSecret, At, NamePCs, HalfPCs, tables, history
<1>2. reqs' = [reqs EXCEPT ![r] = Done] /\ Done \in ReqRecs /\ Done.pc = "idle"
  BY DoneFacts DEF CleanupSecret, Finish
<1>3. SecretFits(Done, sids')
  BY <1>1, AtSecret, DoneFits
<1>4. /\ k8s' \in [K8sNames -> SUBSET SecretNames] /\ k8s'[SecretOf(name)] = {}
      /\ \A s \in K8sNames \ {SecretOf(name)} : k8s'[s] = k8s[s]
  BY <1>1, AtSecret
<1>5. project[Home].st # "none"
  BY <1>1, AtSecret
<1>6. ASSUME NEW n \in SecretNames \ torn', Settled(n, meta[n], k8s[SecretOf(n)], reqs)
      PROVE  Settled(n, meta'[n], k8s'[SecretOf(n)], reqs')
  <2>1. meta'[n] = meta[n] /\ reqs \in [Reqs -> ReqRecs] /\ SecretOf(n) \in K8sNames
    BY <1>1, AtSecret
  <2>2. CASE n = name
    <3>1. For(reqs, r, "cleanup", n)
      BY <1>1, <2>2 DEF For
    <3>2. p.sid = meta[n] /\ ~Awaited(n)
      BY <1>1, <1>6, <2>2
    <3>3. \A x \in Reqs : ~For(reqs, x, "insertMeta", n)
      BY <3>2, Zenon DEF Awaited, At, For
    <3>4. Settled(n, meta[n], {}, reqs')
      BY <1>2, <1>6, <2>1, <3>1, <3>2, <3>3, CleanedUp
    <3> QED
      BY <1>4, <2>1, <2>2, <3>4
  <2>3. CASE n # name
    <3>1. n \in k8s[SecretOf(n)] <=> n \in k8s'[SecretOf(n)]
      BY <1>1, <1>4, <1>6, <2>1, <2>3
    <3>2. Done.pc \notin HalfPCs
      BY <1>2 DEF HalfPCs
    <3> QED
      BY <1>2, <1>6, <2>1, <2>3, <3>1, <3>2, OtherSecrets
  <2> QED
    BY <2>2, <2>3
<1>7. /\ meta' \in [SecretNames -> 0..MaxSids] /\ sids' \in 0..MaxSids /\ sids <= sids'
      /\ \A n \in SecretNames : meta'[n] <= sids'
      /\ torn \subseteq torn' /\ fails' \in 0..usage.fails
  BY <1>1, AtSecret
<1>8. torn' \subseteq SecretNames
  BY <1>1, AtSecret
<1> QED
  BY <1>1, <1>2, <1>3, <1>4, <1>5, <1>6, <1>7, <1>8, SecretStep

LEMMA DeleteK8sSecretStep ==
    ASSUME IInv, NEW r \in Reqs, DeleteK8sSecret(r)
    PROVE  IInv'
<1> DEFINE p == reqs[r]
           name == p.name
           q == [p EXCEPT !.pc = "deleteMeta"]
<1>1. /\ p.pc = "deleteSecret" /\ p.pc \in NamePCs
      /\ UNCHANGED <<project, rows, keys, meta, sids, fails, usage, astray>>
      /\ k8s' = [k8s EXCEPT ![SecretOf(name)] = {}]
      /\ torn' = torn \cup {n \in k8s[SecretOf(name)] :
                              n # name \/ meta[n] # p.sid \/ Awaited(n)}
      /\ reqs' = [reqs EXCEPT ![r] = q]
  BY DEF DeleteK8sSecret, At, NamePCs, tables, history, Go
<1>2. /\ p \in ReqRecs /\ q \in ReqRecs /\ q.pc = "deleteMeta" /\ q.name = name
      /\ q.sid = p.sid /\ q.pc \in NamePCs
  BY <1>1, AtSecret DEF ReqRecs, PCs, NamePCs
<1> HIDE DEF q
<1>3. SecretFits(q, sids')
  BY <1>1, <1>2, AtSecret DEF SecretFits
<1>4. /\ k8s' \in [K8sNames -> SUBSET SecretNames] /\ k8s'[SecretOf(name)] = {}
      /\ \A s \in K8sNames \ {SecretOf(name)} : k8s'[s] = k8s[s]
  BY <1>1, AtSecret
\* It has the id of a row, so rows have been inserted.
<1>5. project[Home].st # "none"
  <2>1. p.sid # 0 /\ p.sid <= sids /\ p.sid \in Nat
    BY <1>1, AtSecret DEF SecretFits
  <2>2. sids # 0
    BY <2>1
  <2> QED
    BY <2>2, Zenon DEF IInv, SecretsInv
<1>6. ASSUME NEW n \in SecretNames \ torn', Settled(n, meta[n], k8s[SecretOf(n)], reqs)
      PROVE  Settled(n, meta'[n], k8s'[SecretOf(n)], reqs')
  <2>1. meta'[n] = meta[n] /\ reqs \in [Reqs -> ReqRecs] /\ SecretOf(n) \in K8sNames
    BY <1>1, AtSecret
  <2>2. CASE n = name
    <3>1. For(reqs, r, "deleteSecret", n)
      BY <1>1, <2>2 DEF For
    <3>2. n \in k8s[SecretOf(n)] => p.sid = meta[n] /\ ~Awaited(n)
      BY <1>1, <1>6, <2>2
    <3>3. n \in k8s[SecretOf(n)] =>
             p.sid = meta[n] /\ \A x \in Reqs : ~For(reqs, x, "insertMeta", n)
      BY <3>2, Zenon DEF Awaited, At, For
    <3>4. Settled(n, meta[n], {}, reqs')
      BY <1>1, <1>2, <1>6, <2>1, <2>2, <3>1, <3>3, SecretDeleted
    <3> QED
      BY <1>4, <2>1, <2>2, <3>4
  <2>3. CASE n # name
    <3>1. n \in k8s[SecretOf(n)] <=> n \in k8s'[SecretOf(n)]
      BY <1>1, <1>4, <1>6, <2>1, <2>3
    <3> QED
      BY <1>1, <1>2, <1>6, <2>1, <2>3, <3>1, OtherSecrets
  <2> QED
    BY <2>2, <2>3
<1>7. /\ meta' \in [SecretNames -> 0..MaxSids] /\ sids' \in 0..MaxSids /\ sids <= sids'
      /\ \A n \in SecretNames : meta'[n] <= sids'
      /\ torn \subseteq torn' /\ fails' \in 0..usage.fails
  BY <1>1, AtSecret
<1>8. torn' \subseteq SecretNames
  BY <1>1, AtSecret
<1> QED
  BY <1>1, <1>2, <1>3, <1>4, <1>5, <1>6, <1>7, <1>8, SecretStep

\* A row gets the next id.
LEMMA NextRow ==
    ASSUME IInv, NEW r \in Reqs, reqs[r].pc = "insertMeta",
           CanInsertMeta(reqs[r].name), InsertMeta(reqs[r].name)
    PROVE  /\ meta' \in [SecretNames -> 0..MaxSids] /\ sids' \in 0..MaxSids
           /\ sids' \in Nat /\ sids <= sids' /\ sids' # 0 /\ meta'[reqs[r].name] = sids'
           /\ \A n \in SecretNames \ {reqs[r].name} : meta'[n] = meta[n]
           /\ \A n \in SecretNames : meta'[n] <= sids'
           /\ \A x \in Reqs : reqs[x].sid # sids'
           /\ \A m \in Nat : m <= sids => m <= sids'
<1> DEFINE name == reqs[r].name
<1>1. reqs[r].pc \in NamePCs
  BY DEF NamePCs
<1>2. /\ sids \in Nat /\ MaxSids \in Nat /\ name \in SecretNames
      /\ meta \in [SecretNames -> 0..MaxSids]
      /\ \A n \in SecretNames : meta[n] <= sids /\ meta[n] \in Nat
  BY <1>1, AtSecret, Numbers
<1>3. sids < MaxSids /\ sids' = sids + 1 /\ meta' = [meta EXCEPT ![name] = sids + 1]
  BY DEF CanInsertMeta, InsertMeta
<1>4. \A x \in Reqs : reqs[x].sid \in Nat /\ reqs[x].sid <= sids
  BY Numbers DEF IInv, FitInv, SecretFits
<1> HIDE DEF name
<1>5. /\ sids + 1 \in 0..MaxSids /\ sids + 1 \in Nat /\ sids <= sids + 1 /\ sids + 1 # 0
      /\ \A m \in Nat : m <= sids => m <= sids + 1 /\ m # sids + 1
  BY <1>2, <1>3
<1>6. meta' \in [SecretNames -> 0..MaxSids] /\ meta'[name] = sids + 1
      /\ \A n \in SecretNames \ {name} : meta'[n] = meta[n]
  BY <1>2, <1>3, <1>5
<1>7. \A x \in Reqs : reqs[x].sid # sids'
  BY <1>3, <1>4, <1>5, Zenon
<1>8. ASSUME NEW n \in SecretNames
      PROVE  meta'[n] <= sids'
  <2>1. CASE n = name
    BY <1>2, <1>3, <1>6, <2>1
  <2>2. CASE n # name
    BY <1>2, <1>3, <1>5, <1>6, <2>2
  <2> QED
    BY <2>1, <2>2
<1> QED
  BY <1>3, <1>5, <1>6, <1>7, <1>8, Zenon DEF name

LEMMA CreateSecretMetadataStep ==
    ASSUME IInv, NEW r \in Reqs, CreateSecretMetadata(r)
    PROVE  IInv'
<1> DEFINE p == reqs[r]
           name == p.name
           q == [p EXCEPT !.pc = "cleanup", !.sid = meta[name]]
<1>1. /\ p.pc = "insertMeta" /\ p.pc \in NamePCs /\ p.pc \in HalfPCs
      /\ UNCHANGED <<project, rows, keys, k8s, fails, usage, astray, torn>>
  BY DEF CreateSecretMetadata, At, NamePCs, HalfPCs
<1>2. /\ project[Home].st # "none" /\ reqs \in [Reqs -> ReqRecs] /\ name \in SecretNames
      /\ For(reqs, r, "insertMeta", name)
  BY <1>1, AtSecret DEF For
<1>3. /\ k8s' \in [K8sNames -> SUBSET SecretNames] /\ fails' \in 0..usage.fails
      /\ torn \subseteq torn' /\ torn' \subseteq SecretNames
  BY <1>1, AtSecret
<1>4. CASE CanInsertMeta(name) /\ InsertMeta(name) /\ Finish(r)
  <2>1. reqs' = [reqs EXCEPT ![r] = Done] /\ Done \in ReqRecs /\ Done.pc = "idle"
    BY <1>4, DoneFacts DEF Finish
  <2>2. /\ meta' \in [SecretNames -> 0..MaxSids] /\ sids' \in 0..MaxSids
        /\ sids' \in Nat /\ sids <= sids' /\ sids' # 0 /\ meta'[name] = sids'
        /\ \A n \in SecretNames \ {name} : meta'[n] = meta[n]
        /\ \A n \in SecretNames : meta'[n] <= sids'
        /\ \A x \in Reqs : reqs[x].sid # sids'
    BY <1>1, <1>4, NextRow, Zenon
  <2>3. SecretFits(Done, sids')
    BY <2>2, DoneFits
  <2>4. ASSUME NEW n \in SecretNames \ torn', Settled(n, meta[n], k8s[SecretOf(n)], reqs)
        PROVE  Settled(n, meta'[n], k8s'[SecretOf(n)], reqs')
    <3>1. CASE n = name
      <4>1. /\ For(reqs, r, "insertMeta", n) /\ reqs \in [Reqs -> ReqRecs]
            /\ reqs' = [reqs EXCEPT ![r] = Done] /\ Done \in ReqRecs /\ Done.pc = "idle"
            /\ sids' # 0 /\ \A x \in Reqs : reqs[x].sid # sids'
            /\ Settled(n, meta[n], k8s[SecretOf(n)], reqs)
        BY <1>2, <2>1, <2>2, <2>4, <3>1, Zenon
      <4>2. Settled(n, sids', k8s[SecretOf(n)], reqs')
        BY <4>1, Inserted
      <4> QED
        BY <1>1, <2>2, <3>1, <4>2 DEF SecretOf
    <3>2. CASE n # name
      <4>1. Done.pc \notin HalfPCs \/ Done.name # n
        BY <2>1 DEF HalfPCs
      <4>2. Settled(n, meta[n], k8s[SecretOf(n)], reqs')
        BY <1>2, <2>1, <2>4, <3>2, <4>1, OtherSecrets
      <4> QED
        BY <1>1, <2>2, <3>2, <4>2 DEF SecretOf
    <3> QED
      BY <3>1, <3>2
  <2> QED
    BY <1>1, <1>2, <1>3, <2>1, <2>2, <2>3, <2>4, SecretStep
<1>5. CASE reqs' = [reqs EXCEPT ![r] = q] /\ UNCHANGED <<meta, sids>>
  <2>1. p \in ReqRecs /\ meta[name] \in 0..MaxSids /\ meta[name] <= sids
    BY <1>1, <1>2, AtSecret
  <2>2. q \in ReqRecs /\ q.pc = "cleanup" /\ q.name = name /\ q.sid = meta[name]
        /\ q.pc \in NamePCs
    BY <1>1, <2>1 DEF ReqRecs, PCs, NamePCs
  <2> HIDE DEF q
  <2>3. SecretFits(q, sids')
    BY <1>2, <1>5, <2>1, <2>2 DEF SecretFits
  <2>4. ASSUME NEW n \in SecretNames \ torn', Settled(n, meta[n], k8s[SecretOf(n)], reqs)
        PROVE  Settled(n, meta'[n], k8s'[SecretOf(n)], reqs')
    <3>1. CASE n = name
      <4>1. Settled(n, meta[n], k8s[SecretOf(n)], reqs')
        BY <1>2, <1>5, <2>2, <2>4, <3>1, Refused
      <4> QED
        BY <1>1, <1>5, <4>1 DEF SecretOf
    <3>2. CASE n # name
      <4>1. Settled(n, meta[n], k8s[SecretOf(n)], reqs')
        BY <1>2, <1>5, <2>2, <2>4, <3>2, OtherSecrets
      <4> QED
        BY <1>1, <1>5, <4>1 DEF SecretOf
    <3> QED
      BY <3>1, <3>2
  <2>5. /\ meta' \in [SecretNames -> 0..MaxSids] /\ sids' \in 0..MaxSids /\ sids <= sids'
        /\ \A n \in SecretNames : meta'[n] <= sids'
    BY <1>1, <1>5, AtSecret
  <2> QED
    BY <1>1, <1>2, <1>3, <1>5, <2>2, <2>3, <2>4, <2>5, SecretStep
<1> QED
  BY <1>4, <1>5 DEF CreateSecretMetadata, Go

LEMMA DeleteSecretMetadataStep ==
    ASSUME IInv, NEW r \in Reqs, DeleteSecretMetadata(r)
    PROVE  IInv'
<1> DEFINE p == reqs[r]
           name == p.name
<1>1. /\ p.pc = "deleteMeta" /\ p.pc \in NamePCs /\ p.pc \in HalfPCs
      /\ UNCHANGED <<project, rows, keys, k8s, sids, fails, usage, astray, torn>>
      /\ meta' = IF meta[name] = p.sid THEN [meta EXCEPT ![name] = 0] ELSE meta
  BY DEF DeleteSecretMetadata, DeleteMeta, At, NamePCs, HalfPCs, history
<1>2. reqs' = [reqs EXCEPT ![r] = Done] /\ Done \in ReqRecs /\ Done.pc = "idle"
  BY DoneFacts DEF DeleteSecretMetadata, Finish
<1>3. /\ project[Home].st # "none" /\ reqs \in [Reqs -> ReqRecs] /\ name \in SecretNames
      /\ For(reqs, r, "deleteMeta", name) /\ SecretFits(Done, sids')
  BY <1>1, AtSecret, DoneFits DEF For
<1>4. /\ k8s' \in [K8sNames -> SUBSET SecretNames] /\ fails' \in 0..usage.fails
      /\ torn \subseteq torn' /\ torn' \subseteq SecretNames
      /\ sids' \in 0..MaxSids /\ sids <= sids' /\ 0 \in 0..MaxSids /\ 0 <= sids
  BY <1>1, AtSecret, Defaults
<1>5. /\ meta' \in [SecretNames -> 0..MaxSids]
      /\ meta'[name] = IF meta[name] = p.sid THEN 0 ELSE meta[name]
      /\ \A n \in SecretNames \ {name} : meta'[n] = meta[n]
  BY <1>1, <1>3, <1>4, AtSecret
<1>6. ASSUME NEW n \in SecretNames
      PROVE  meta'[n] <= sids'
  <2>1. meta'[n] = 0 \/ meta'[n] = meta[n]
    BY <1>5
  <2>2. meta[n] <= sids /\ sids' = sids
    BY <1>1, AtSecret
  <2> QED
    BY <1>4, <2>1, <2>2, Zenon
<1>7. ASSUME NEW n \in SecretNames \ torn', Settled(n, meta[n], k8s[SecretOf(n)], reqs)
      PROVE  Settled(n, meta'[n], k8s'[SecretOf(n)], reqs')
  <2>1. CASE n = name
    <3>1. meta'[n] = IF meta[n] = p.sid THEN 0 ELSE meta[n]
      BY <1>5, <2>1
    <3>2. Settled(n, meta'[n], k8s[SecretOf(n)], reqs')
      BY <1>2, <1>3, <1>7, <2>1, <3>1, RowDeleted
    <3> QED
      BY <1>1, <3>2 DEF SecretOf
  <2>2. CASE n # name
    <3>1. Done.pc \notin HalfPCs \/ Done.name # n
      BY <1>2 DEF HalfPCs
    <3>2. Settled(n, meta[n], k8s[SecretOf(n)], reqs')
      BY <1>2, <1>3, <1>7, <2>2, <3>1, OtherSecrets
    <3> QED
      BY <1>1, <1>5, <2>2, <3>2 DEF SecretOf
  <2> QED
    BY <2>1, <2>2
<1> QED
  BY <1>1, <1>2, <1>3, <1>4, <1>5, <1>6, <1>7, SecretStep

LEMMA LoseAnswerStep ==
    ASSUME IInv, NEW r \in Reqs, LoseAnswer(r)
    PROVE  IInv'
<1> DEFINE p == reqs[r]
           name == p.name
           q == [p EXCEPT !.pc = "cleanup"]
<1>1. /\ UNCHANGED <<project, rows, keys, usage, astray>>
      /\ fails < usage.fails /\ fails' = fails + 1 /\ torn' = torn \cup {name}
      /\ p.pc \in NamePCs /\ p.pc \in {"createSecret", "insertMeta"}
  BY DEF LoseAnswer, At, NamePCs
<1>2. /\ reqs \in [Reqs -> ReqRecs] /\ name \in SecretNames /\ p \in ReqRecs
      /\ SecretOf(name) \in K8sNames /\ torn' \subseteq SecretNames /\ torn \subseteq torn'
  BY <1>1, AtSecret
<1>3. fails' \in 0..usage.fails
  <2>1. usage.fails \in Nat /\ fails \in Nat
    BY Numbers DEF IInv
  <2> QED
    BY <1>1, <2>1
<1>4. CASE /\ HasNamespace /\ k8s[SecretOf(name)] = {}
           /\ k8s' = [k8s EXCEPT ![SecretOf(name)] = {name}]
           /\ Finish(r) /\ UNCHANGED <<meta, sids>>
  <2>1. reqs' = [reqs EXCEPT ![r] = Done] /\ Done \in ReqRecs /\ Done.pc = "idle"
    BY <1>4, DoneFacts DEF Finish
  <2>2. SecretFits(Done, sids')
    BY <1>1, <1>4, AtSecret, DoneFits
  <2>3. /\ k8s' \in [K8sNames -> SUBSET SecretNames] /\ k8s'[SecretOf(name)] = {name}
        /\ \A s \in K8sNames \ {SecretOf(name)} : k8s'[s] = k8s[s]
    BY <1>1, <1>2, <1>4, AtSecret
  <2>4. project[Home].st # "none"
    BY <1>4 DEF HasNamespace, Contract!Live
  <2>5. ASSUME NEW n \in SecretNames \ torn', Settled(n, meta[n], k8s[SecretOf(n)], reqs)
        PROVE  Settled(n, meta'[n], k8s'[SecretOf(n)], reqs')
    <3>1. n # name /\ meta'[n] = meta[n] /\ SecretOf(n) \in K8sNames
      BY <1>1, <1>4, <2>5, AtSecret
    <3>2. n \in k8s[SecretOf(n)] <=> n \in k8s'[SecretOf(n)]
      BY <1>4, <2>3, <3>1
    <3>3. Done.pc \notin HalfPCs
      BY <2>1 DEF HalfPCs
    <3> QED
      BY <1>2, <2>1, <2>5, <3>1, <3>2, <3>3, OtherSecrets
  <2>6. /\ meta' \in [SecretNames -> 0..MaxSids] /\ sids' \in 0..MaxSids /\ sids <= sids'
        /\ \A n \in SecretNames : meta'[n] <= sids'
    BY <1>1, <1>4, AtSecret
  <2> QED
    BY <1>1, <1>2, <1>3, <2>1, <2>2, <2>3, <2>4, <2>5, <2>6, SecretStep
<1>5. CASE /\ p.pc = "insertMeta" /\ CanInsertMeta(name) /\ InsertMeta(name)
           /\ reqs' = [reqs EXCEPT ![r] = q] /\ UNCHANGED k8s
  <2>1. /\ q \in ReqRecs /\ q.pc = "cleanup" /\ q.name = name /\ q.sid = p.sid
        /\ q.pc \in NamePCs
    BY <1>2 DEF ReqRecs, PCs, NamePCs
  <2> HIDE DEF q
  <2>2. /\ meta' \in [SecretNames -> 0..MaxSids] /\ sids' \in 0..MaxSids /\ sids <= sids'
        /\ \A n \in SecretNames \ {name} : meta'[n] = meta[n]
        /\ \A n \in SecretNames : meta'[n] <= sids'
        /\ \A m \in Nat : m <= sids => m <= sids'
    BY <1>5, NextRow, Zenon
  <2>3. SecretFits(q, sids')
    <3>1. p.sid <= sids /\ p.sid \in Nat
      BY <1>1, AtSecret DEF SecretFits
    <3>2. q.sid <= sids'
      BY <2>1, <2>2, <3>1, Zenon
    <3> QED
      BY <1>2, <2>1, <3>2 DEF SecretFits
  <2>4. project[Home].st # "none" /\ k8s' \in [K8sNames -> SUBSET SecretNames]
    BY <1>1, <1>5, AtSecret DEF HalfPCs
  <2>5. ASSUME NEW n \in SecretNames \ torn', Settled(n, meta[n], k8s[SecretOf(n)], reqs)
        PROVE  Settled(n, meta'[n], k8s'[SecretOf(n)], reqs')
    <3>1. n # name /\ meta'[n] = meta[n]
      BY <1>1, <2>2, <2>5
    <3>2. Settled(n, meta[n], k8s[SecretOf(n)], reqs')
      BY <1>2, <1>5, <2>1, <2>5, <3>1, OtherSecrets
    <3> QED
      BY <1>5, <3>1, <3>2 DEF SecretOf
  <2> QED
    BY <1>1, <1>2, <1>3, <1>5, <2>1, <2>2, <2>3, <2>4, <2>5, SecretStep
<1> QED
  BY <1>4, <1>5 DEF LoseAnswer, At, Go

-----------------------------------------------------------------------------
(* The theorems. *)

LEMMA InitIInv ==
    Init => IInv
<1> SUFFICES ASSUME Init
             PROVE  IInv
  OBVIOUS
<1>1. /\ Done \in ReqRecs /\ Done.pc = "idle" /\ Done.sid = 0 /\ 0 \in Nat /\ sids = 0
      /\ \A r \in Reqs : reqs[r] = Done
      /\ \A i \in Ids : rows[i] = "none" /\ project[i].st = "none"
  BY DoneFacts DEF Init, Contract!NoObject
<1>2. MaxSids \in Nat /\ 0 \in 0..MaxSids /\ usage \in Usages /\ usage.fails \in Nat
      /\ Home \in Ids /\ 0 \in 0..usage.fails
  BY ServiceAssumption DEF Init
<1>3. TypeOK
  <2>1. Contract!NoObject \in Contract!Objects
    BY DEF Contract!NoObject, Contract!Objects
  <2>2. project \in [Ids -> Contract!Objects] /\ rows \in [Ids -> Statuses]
    BY <2>1 DEF Init, Statuses
  <2>3. /\ keys \in [KeyNames -> {"none", "active", "revoked"}]
        /\ meta \in [SecretNames -> 0..MaxSids]
        /\ k8s \in [K8sNames -> SUBSET SecretNames]
        /\ reqs \in [Reqs -> ReqRecs]
    BY <1>1, <1>2 DEF Init
  <2>4. sids \in 0..MaxSids /\ fails \in 0..usage.fails /\ astray \subseteq Ids
        /\ torn \subseteq SecretNames
    BY <1>2 DEF Init
  <2> QED
    BY <1>2, <2>2, <2>3, <2>4 DEF TypeOK
<1>4. OverrunBounded
  <2>1. {i \in Ids : Active(i)} = {} /\ {r \in Reqs : At(r, "insert")} = {}
    BY <1>1 DEF Active, At
  <2>2. usage.reqs # {} /\ IsFiniteSet(usage.reqs)
    BY <1>2, <1>3, Sizes, ServiceAssumption
  <2>3. Cardinality(usage.reqs) \in Nat /\ Cardinality(usage.reqs) # 0
    BY <2>2, FS_CardinalityType, FS_EmptySet
  <2>4. Cardinality({}) = 0
    BY FS_EmptySet
  <2>5. maxProjectsPerTenant \in Nat \ {0}
    BY ServiceAssumption
  <2>6. 0 + 0 <= maxProjectsPerTenant + Cardinality(usage.reqs) - 1
    BY <2>3, <2>5
  <2> QED
    BY <2>1, <2>4, <2>6 DEF OverrunBounded
<1>5. FitInv /\ CreatorsInv
  <2>1. ProjectFits(Done, rows, project) /\ SecretFits(Done, sids)
    BY <1>1, DoneFits
  <2> QED
    BY <1>1, <2>1 DEF FitInv, CreatorsInv
<1>6. ProjectsInv
  BY <1>1 DEF ProjectsInv, Agrees
<1>7. RowIdsInv /\ SecretsInv
  <2>1. \A r \in Reqs : reqs[r].pc \notin HalfPCs
    BY <1>1 DEF HalfPCs
  <2>2. /\ \A s \in K8sNames : k8s[s] = {}
        /\ \A n \in SecretNames : meta[n] = 0
    BY DEF Init
  <2>3. RowIdsInv
    BY <1>1, <2>2 DEF RowIdsInv
  <2> QED
    BY <1>1, <1>2, <2>1, <2>2, <2>3 DEF SecretsInv
<1> QED
  BY <1>3, <1>4, <1>5, <1>6, <1>7 DEF IInv

LEMMA NextIInv ==
    IInv /\ [Next]_vars => IInv'
<1> SUFFICES ASSUME IInv, [Next]_vars
             PROVE  IInv'
  OBVIOUS
<1>1. CASE UNCHANGED vars
  <2>1. UNCHANGED <<project, rows, keys, meta, k8s, reqs, sids, fails, usage, astray, torn>>
    BY <1>1 DEF vars, tables, history
  <2>2. /\ TypeOK /\ OverrunBounded /\ FitInv /\ CreatorsInv /\ ProjectsInv
        /\ RowIdsInv /\ SecretsInv
    BY DEF IInv
  <2>3. TypeOK' /\ OverrunBounded' /\ CreatorsInv' /\ RowIdsInv'
    BY <2>1, <2>2 DEF TypeOK, OverrunBounded, Active, At, CreatorsInv, RowIdsInv
  <2>4. FitInv' /\ ProjectsInv' /\ SecretsInv'
    BY <2>1, <2>2 DEF FitInv, ProjectsInv, SecretsInv, SecretOf
  <2> QED
    BY <2>3, <2>4 DEF IInv
<1>2. CASE Controller
  BY <1>2, ControllerStep
<1>3. CASE NamespaceTerminates
  BY <1>3, NamespaceStep
<1>4. ASSUME NEW r \in Reqs, Request(r)
      PROVE  IInv'
  <2>1. usage.names \subseteq SecretNames
    BY ServiceAssumption DEF IInv, TypeOK
  <2>2. CASE CreateProject(r)
    BY <2>2, CreateProjectStep
  <2>3. ASSUME NEW i \in Ids, GetProject(r, i) \/ PauseProject(r, i) \/ ResumeProject(r, i)
        PROVE  IInv'
    BY <2>3, RowRequests
  <2>4. ASSUME NEW i \in Ids, DeleteProject(r, i)
        PROVE  IInv'
    BY <2>4, DeleteProjectStep
  <2>5. ASSUME NEW k \in KeyNames, CreateApiKey(r, k) \/ RevokeApiKey(r, k)
        PROVE  IInv'
    BY <2>5, KeyRequests
  <2>6. ASSUME NEW n \in usage.names,
               CreateSecret(r, n) \/ UpdateSecretValue(r, n) \/ DeleteSecret(r, n)
        PROVE  IInv'
    BY <2>1, <2>6, SecretRequests
  <2> QED
    BY <1>4, <2>2, <2>3, <2>4, <2>5, <2>6, Zenon DEF Request
<1>5. ASSUME NEW r \in Reqs, Step(r)
      PROVE  IInv'
  BY <1>5, InsertProjectStep, CollisionStep, CreateCRStep, GetPhaseStep, WriteStatusStep,
     DeleteCRStep, WriteKeyStep, CreateK8sSecretStep, CreateSecretMetadataStep,
     CleanupSecretStep, UpdateK8sSecretStep, DeleteK8sSecretStep,
     DeleteSecretMetadataStep, Zenon DEF Step
<1>6. ASSUME NEW r \in Reqs, Fail(r) \/ LoseAnswer(r)
      PROVE  IInv'
  BY <1>6, FailStep, LoseAnswerStep
<1> QED
  BY <1>1, <1>2, <1>3, <1>4, <1>5, <1>6, Zenon DEF Next

(* The invariant holds in every state.                                     *)
THEOREM Invariance == Spec => []IInv
<1> QED
  BY InitIInv, NextIInv, PTL DEF Spec

(* The variables have their types.                                         *)
THEOREM TypeCorrect == Spec => []TypeOK
<1>1. IInv => TypeOK
  BY DEF IInv
<1> QED
  BY <1>1, Invariance, PTL

(* Counting and inserting are two statements, but each request counts      *)
(* once, and only while there is room: the limit is exceeded by at most    *)
(* the requests in flight, less one (property OverrunBounded).             *)
THEOREM OverrunIsBounded == Spec => []OverrunBounded
<1>1. IInv => OverrunBounded
  BY DEF IInv
<1> QED
  BY <1>1, Invariance, PTL

\* With no request left there is no one that a disagreement could wait for.
LEMMA AgreeWhenIdle ==
    IInv => StoresAgree
<1> SUFFICES ASSUME IInv, Idle
             PROVE  ProjectsAgree /\ SecretsAgree
  BY DEF StoresAgree
<1>1. \A r \in Reqs : reqs[r].pc = "idle"
  BY DEF Idle, At
<1>2. ASSUME NEW i \in Ids \ astray
      PROVE  /\ Active(i) => Contract!Live(i)
             /\ rows[i] = "deleted" => ~Contract!Live(i)
  <2>1. Agrees(i, rows[i], project[i].st, reqs)
    BY DEF IInv, ProjectsInv
  <2>2. \A r \in Reqs : ~On(reqs, r, "createCR", i) /\ ~On(reqs, r, "deleteCR", i)
    BY <1>1 DEF On
  <2> QED
    BY <2>1, <2>2 DEF Agrees, Active, Contract!Live
<1>3. ASSUME Contract!Live(Home), NEW n \in SecretNames \ torn
      PROVE  meta[n] # 0 <=> n \in k8s[SecretOf(n)]
  <2>1. Settled(n, meta[n], k8s[SecretOf(n)], reqs)
    BY <1>3 DEF IInv, SecretsInv, Contract!Live
  <2>2. /\ ~Doomed(n, meta[n], reqs)
        /\ \A r \in Reqs : ~For(reqs, r, "insertMeta", n) /\ ~For(reqs, r, "cleanup", n)
    BY <1>1 DEF Doomed, For
  <2> QED
    BY <2>1, <2>2, Zenon DEF Settled
<1> QED
  BY <1>2, <1>3 DEF ProjectsAgree, SecretsAgree

(* Whatever ran before, once no request is in flight a project has an      *)
(* object unless it is deleted, and a secret a row and a Secret or         *)
(* neither, but for those in astray and torn (property StoresAgree).       *)
THEOREM StoresAgreed == Spec => []StoresAgree
<1> QED
  BY AgreeWhenIdle, Invariance, PTL
=============================================================================
