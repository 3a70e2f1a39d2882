-------------------------- MODULE FunctionServiceProofs --------------------------
(***************************************************************************)
(* Theorems about FunctionService, for every number of concurrent          *)
(* requests, fields and values, and every bound: its types, that a deleted *)
(* row stays deleted, and that a ready row has an image.  And about the    *)
(* lists of the services: pages of a keyset list neither skip nor repeat a *)
(* row, for any table, any writes between two pages and any page sizes.    *)
(***************************************************************************)
EXTENDS FunctionService, ListingWalk, TLAPS

(* A row that was inserted has a status and a spec, and so has the row a   *)
(* request holds.                                                          *)
Inserted(rw) == rw.status # "none" /\ rw.spec \in Specs
SpecsPresent ==
    /\ row.status # "none" => Inserted(row)
    /\ \A r \in Reqs : ~At(r, "idle") => Inserted(row) /\ Inserted(reqs[r].row)

(* A request that is about to store "ready" stores an image with it.       *)
SyncsHaveImage ==
    \A r \in Reqs :
        (At(r, "sync") /\ reqs[r].row.status = "ready") => reqs[r].row.image # 0

(* An object that is Ready or built names an image.                        *)
NamesImage(c) == (c.phase = "Ready" \/ c.build = "Succeeded") => c.image # 0

(* The inductive invariant.                                                *)
IInv == /\ TypeOK /\ NamesImage(cr)
        /\ SpecsPresent /\ SyncsHaveImage /\ ReadyRowHasImage

-----------------------------------------------------------------------------
(* No object at all has a type and names no image.                         *)
LEMMA NoCRFacts == NoCR \in CRs /\ NamesImage(NoCR)
BY BoundsAssumption DEF NoCR, NewCR, CRs, Phases, Builds, NamesImage

(* The invariant holds initially.                                          *)
LEMMA InitIInv == Init => IInv
<1> SUFFICES ASSUME Init PROVE IInv
  OBVIOUS
<1>1. NoRow \in Rows
  BY BoundsAssumption DEF NoRow, Rows, Statuses
<1>2. Done \in ReqRecs
  BY <1>1, NoCRFacts DEF Done, ReqRecs, PCs
<1>3. TypeOK
  BY <1>1, <1>2, NoCRFacts, BoundsAssumption, ServiceAssumption DEF Init, TypeOK
<1> QED BY <1>3, NoCRFacts
        DEF Init, IInv, SpecsPresent, SyncsHaveImage, ReadyRowHasImage,
            NoRow, Done, At

(* The controller keeps the object well-formed and consistent.             *)
LEMMA ControllerFacts ==
    ASSUME cr \in CRs, NamesImage(cr), Contract!Controller
    PROVE  cr' \in CRs /\ NamesImage(cr') /\ uids' = uids
<1>1. /\ Contract!WithBuilding(cr) = WithBuilding(cr)
      /\ Contract!WithBuilt(cr) = WithBuilt(cr)
      /\ Contract!WithBuildFailed(cr) = WithBuildFailed(cr)
      /\ Contract!WithFailed(cr) = WithFailed(cr)
      /\ Contract!WithReady(cr) = WithReady(cr)
      /\ Contract!NoCR = NoCR
  BY DEF WithBuilding, WithBuilt, WithBuildFailed, WithFailed, WithReady, NoCR, NewCR,
         Contract!WithBuilding, Contract!WithBuilt, Contract!WithBuildFailed,
         Contract!WithFailed, Contract!WithReady, Contract!NoCR, Contract!NewCR
<1>2. CASE Contract!AddFinalizer
  BY <1>2 DEF Contract!AddFinalizer, Contract!Controller, CRs, NamesImage
<1>3. CASE Contract!ReportBuilding \/ Contract!ReportBuilt \/ Contract!ReportBuildFailed
  <2>1. cr.gen # 0 /\ cr.gen \in 0..MaxGen /\ 0 \in 0..MaxGen /\ uids' = uids
    BY <1>3, BoundsAssumption
       DEF Contract!ReportBuilding, Contract!ReportBuilt, Contract!ReportBuildFailed,
           Contract!Controller, CRs
  <2>2. cr' \in {WithBuilding(cr), WithBuilt(cr), WithBuildFailed(cr)}
    BY <1>1, <1>3
       DEF Contract!ReportBuilding, Contract!ReportBuilt, Contract!ReportBuildFailed
  <2> QED BY <2>1, <2>2 DEF WithBuilding, WithBuilt, WithBuildFailed, CRs, Phases, Builds,
                            NamesImage
<1>4. CASE Contract!ReportFailed
  BY <1>1, <1>4 DEF Contract!ReportFailed, Contract!Controller, WithFailed, CRs, Phases, NamesImage
<1>5. CASE Contract!ReportReady
  BY <1>1, <1>5 DEF Contract!ReportReady, Contract!Controller, WithReady, CRs, Phases, NamesImage
<1>6. CASE Contract!Release
  BY <1>1, <1>6, NoCRFacts DEF Contract!Release, Contract!Controller
<1> QED BY <1>2, <1>3, <1>4, <1>5, <1>6 DEF Contract!Controller

(* What a request writes to the API server keeps it so too.                *)
LEMMA ApiFacts ==
    ASSUME cr \in CRs, NamesImage(cr), uids \in 0..MaxUid, NEW s \in Specs,
           ApiCreate(s) \/ ApiUpdate(cr, s) \/ ApiDelete
    PROVE  cr' \in CRs /\ NamesImage(cr') /\ uids' \in 0..MaxUid
<1>1. CASE ApiCreate(s)
  <2>1. uids + 1 \in 0..MaxUid
    BY <1>1, BoundsAssumption DEF ApiCreate
  <2> QED BY <1>1, <2>1, BoundsAssumption
          DEF ApiCreate, NewCR, CRs, Phases, Builds, NamesImage
<1>2. CASE ApiUpdate(cr, s)
  <2>1. CASE cr.deleting
    BY <1>2, <2>1, NoCRFacts DEF ApiUpdate, Replaced
  <2>2. CASE ~cr.deleting
    <3> DEFINE g == IF s = cr.spec THEN cr.gen ELSE cr.gen + 1
    <3>1. g \in 0..MaxGen
      BY <1>2, BoundsAssumption DEF ApiUpdate, CanReplace, CRs
    <3>2. cr' = [cr EXCEPT !.spec = s, !.fin = FALSE, !.gen = g] /\ uids' = uids
      BY <1>2, <2>2 DEF ApiUpdate, Replaced
    <3> HIDE DEF g
    <3> QED BY <3>1, <3>2 DEF CRs, NamesImage
  <2> QED BY <2>1, <2>2
<1>3. CASE ApiDelete
  BY <1>3, NoCRFacts DEF ApiDelete, CRs, NamesImage
<1> QED BY <1>1, <1>2, <1>3

(* Moving one request on keeps the invariant when its new state fits it.   *)
LEMMA RequestFacts ==
    ASSUME IInv, NEW r \in Reqs, NEW q \in ReqRecs,
           reqs' = [reqs EXCEPT ![r] = q],
           q.pc # "idle" => Inserted(q.row),
           (q.pc = "sync" /\ q.row.status = "ready") => q.row.image # 0
    PROVE  /\ reqs' \in [Reqs -> ReqRecs]
           /\ \A r2 \in Reqs : reqs'[r2].pc # "idle" => Inserted(reqs'[r2].row)
           /\ SyncsHaveImage'
BY DEF IInv, TypeOK, SpecsPresent, SyncsHaveImage, At

(* A finished request fits.                                                *)
LEMMA FinishFacts ==
    ASSUME IInv, NEW r \in Reqs, Finish(r)
    PROVE  /\ reqs' \in [Reqs -> ReqRecs]
           /\ \A r2 \in Reqs : reqs'[r2].pc # "idle" => Inserted(reqs'[r2].row)
           /\ SyncsHaveImage'
<1>1. Done \in ReqRecs /\ Done.pc = "idle"
  BY NoCRFacts, BoundsAssumption DEF Done, ReqRecs, PCs, NoRow, Rows, Statuses
<1> QED BY <1>1, RequestFacts DEF Finish

(* A request that goes on with a row that fits does.                       *)
LEMMA ContinueFacts ==
    ASSUME IInv, NEW r \in Reqs, NEW pc \in PCs, NEW rw \in Rows,
           Continue(r, pc, rw), Inserted(rw),
           (pc = "sync" /\ rw.status = "ready") => rw.image # 0
    PROVE  /\ reqs' \in [Reqs -> ReqRecs]
           /\ \A r2 \in Reqs : reqs'[r2].pc # "idle" => Inserted(reqs'[r2].row)
           /\ SyncsHaveImage'
<1>1. reqs[r] \in ReqRecs
  BY DEF IInv, TypeOK
<1> DEFINE q == [reqs[r] EXCEPT !.pc = pc, !.row = rw]
<1>2. q \in ReqRecs /\ q.pc = pc /\ q.row = rw
  BY <1>1 DEF ReqRecs
<1>3. reqs' = [reqs EXCEPT ![r] = q]
  BY <1>1 DEF Continue, IInv, TypeOK
<1> HIDE DEF q
<1> QED BY <1>2, <1>3, RequestFacts

-----------------------------------------------------------------------------
(* Requests that read or write the row.                                    *)
LEMMA RowStep ==
    ASSUME IInv, NEW r \in Reqs, Request(r) \/ UpdateWrite(r) \/ SyncStatus(r)
    PROVE  IInv'
<1> USE DEF crVars
<1>1. /\ UNCHANGED <<cr, uids, fails>>
      /\ row \in Rows /\ reqs[r] \in ReqRecs
  BY DEF Request, CreateFunction, UpdateRead, DeleteFunction, GetFunction,
         UpdateWrite, SyncStatus, IInv, TypeOK
<1>2. ASSUME row' \in Rows, Inserted(row'),
             ReadyRowHasImage',
             reqs' \in [Reqs -> ReqRecs],
             \A r2 \in Reqs : reqs'[r2].pc # "idle" => Inserted(reqs'[r2].row),
             SyncsHaveImage'
      PROVE  IInv'
  BY <1>1, <1>2 DEF IInv, TypeOK, SpecsPresent, At
<1>3. ASSUME NEW s \in Specs, CreateFunction(r, s) PROVE IInv'
  <2>1. /\ row' \in Rows /\ Inserted(row') /\ row'.status = "pending"
        /\ Continue(r, "lookup", row')
    BY <1>3, BoundsAssumption DEF CreateFunction, Rows, Statuses, Inserted
  <2> QED BY <1>2, <2>1, ContinueFacts DEF PCs, ReadyRowHasImage
<1>4. ASSUME NEW f \in Fields, NEW v \in Values, UpdateRead(r, f, v) PROVE IInv'
  <2>1. Inserted(row)
    BY <1>4 DEF UpdateRead, Active, IInv, SpecsPresent
  <2>2. /\ [row EXCEPT !.spec[f] = v] \in Rows
        /\ Inserted([row EXCEPT !.spec[f] = v])
        /\ [row EXCEPT !.spec[f] = v].status = row.status
        /\ [row EXCEPT !.spec[f] = v].image = row.image
    BY <1>1, <2>1, ServiceAssumption DEF Rows, Inserted
  <2>3. UNCHANGED row /\ ReadyRowHasImage'
    BY <1>4 DEF UpdateRead, IInv, ReadyRowHasImage
  <2>4. /\ reqs' \in [Reqs -> ReqRecs] /\ SyncsHaveImage'
        /\ \A r2 \in Reqs : reqs'[r2].pc # "idle" => Inserted(reqs'[r2].row)
    <3> DEFINE rw == [row EXCEPT !.spec[f] = v]
    <3>1. rw \in Rows /\ Inserted(rw) /\ Continue(r, "merge", rw)
      BY <1>4, <2>2 DEF UpdateRead
    <3> HIDE DEF rw
    <3> QED BY <3>1, ContinueFacts DEF PCs
  <2> QED BY <1>1, <1>2, <2>1, <2>3, <2>4
<1>5. CASE DeleteFunction(r)
  <2>1. /\ row' \in Rows /\ Inserted(row') /\ row'.status = "deleted"
        /\ Continue(r, "delete", row')
    BY <1>1, <1>5 DEF DeleteFunction, Active, Rows, Statuses, IInv, SpecsPresent, Inserted
  <2> QED BY <1>2, <2>1, ContinueFacts DEF PCs, ReadyRowHasImage
<1>6. CASE GetFunction(r)
  <2>1. Inserted(row)
    BY <1>6 DEF GetFunction, Active, IInv, SpecsPresent
  <2> QED BY <1>1, <1>2, <1>6, <2>1, ContinueFacts
          DEF GetFunction, PCs, IInv, TypeOK, SpecsPresent, ReadyRowHasImage
<1>7. CASE UpdateWrite(r)
  <2>1. CASE Active
    <3>1. Inserted(reqs[r].row) /\ Inserted(row)
      BY <1>7 DEF UpdateWrite, At, IInv, SpecsPresent
    <3>2. /\ row' \in Rows /\ Inserted(row')
          /\ row'.status = row.status /\ row'.image = row.image
          /\ Continue(r, "lookup", row')
      BY <1>1, <1>7, <2>1, <3>1 DEF UpdateWrite, Rows, ReqRecs, Inserted
    <3> QED BY <1>2, <3>2, ContinueFacts DEF PCs, IInv, ReadyRowHasImage
  <2>2. CASE ~Active
    BY <1>1, <1>2, <1>7, <2>2, FinishFacts
       DEF UpdateWrite, At, IInv, TypeOK, SpecsPresent, ReadyRowHasImage
  <2> QED BY <2>1, <2>2
<1>8. CASE SyncStatus(r)
  <2>1. Inserted(row) /\ Inserted(reqs[r].row)
    BY <1>8 DEF SyncStatus, At, IInv, SpecsPresent
  <2>2. row' \in Rows /\ Inserted(row') /\ ReadyRowHasImage'
    <3>1. CASE row' = row
      BY <1>1, <2>1, <3>1 DEF IInv, ReadyRowHasImage
    <3>2. CASE row' = [row EXCEPT !.status = reqs[r].row.status,
                                  !.image = reqs[r].row.image]
      <4>1. reqs[r].row.status = "ready" => reqs[r].row.image # 0
        BY <1>8 DEF SyncStatus, IInv, SyncsHaveImage
      <4> QED BY <1>1, <2>1, <3>2, <4>1 DEF Rows, ReqRecs, Inserted, ReadyRowHasImage
    <3> QED BY <1>8, <3>1, <3>2 DEF SyncStatus
  <2> QED BY <1>2, <1>8, <2>2, FinishFacts DEF SyncStatus
<1> QED BY <1>3, <1>4, <1>5, <1>6, <1>7, <1>8 DEF Request

(* Requests that read or write the object.                                 *)
LEMMA ObjectStep ==
    ASSUME IInv, NEW r \in Reqs,
           GetStatus(r) \/ LookupCR(r) \/ ApplyCR(r) \/ DeleteCR(r) \/ Fail(r)
    PROVE  IInv'
<1> USE DEF crVars
<1>1. /\ UNCHANGED row /\ row \in Rows
      /\ Inserted(row) /\ Inserted(reqs[r].row) /\ reqs[r] \in ReqRecs
  BY DEF GetStatus, LookupCR, ApplyCR, DeleteCR, Fail, At, IInv, TypeOK, SpecsPresent
<1>2. ASSUME cr' \in CRs, NamesImage(cr'), uids' \in 0..MaxUid, fails' \in 0..MaxFails,
             reqs' \in [Reqs -> ReqRecs],
             \A r2 \in Reqs : reqs'[r2].pc # "idle" => Inserted(reqs'[r2].row),
             SyncsHaveImage'
      PROVE  IInv'
  BY <1>1, <1>2 DEF IInv, TypeOK, SpecsPresent, ReadyRowHasImage, At
<1>3. CASE GetStatus(r)
  <2> DEFINE old == reqs[r].row
             new == [old EXCEPT !.status = mapPhaseToStatus(cr.phase),
                                !.image = cr.image]
  <2>1. UNCHANGED <<cr, uids, fails>>
    BY <1>3 DEF GetStatus
  <2>2. CASE Finish(r)
    BY <1>2, <2>1, <2>2, FinishFacts DEF IInv, TypeOK
  <2>3. CASE Continue(r, "lookup", old)
    BY <1>1, <1>2, <2>1, <2>3, ContinueFacts DEF IInv, TypeOK, ReqRecs, PCs
  <2>4. CASE Exists(cr) /\ cr.phase # "None" /\ Continue(r, "sync", new)
    <3>1. cr.phase \in {"Building", "Ready", "Failed"} /\ cr.image \in 0..MaxGen
      BY <2>4 DEF IInv, TypeOK, CRs, Phases
    <3>2. /\ new \in Rows /\ Inserted(new)
          /\ new.status = "ready" => new.image # 0
      BY <1>1, <3>1 DEF mapPhaseToStatus, Rows, ReqRecs, Statuses, Inserted,
                        IInv, NamesImage
    <3> HIDE DEF new
    <3> QED BY <1>2, <2>1, <2>4, <3>2, ContinueFacts DEF IInv, TypeOK, PCs
  <2> QED BY <1>3, <2>2, <2>3, <2>4 DEF GetStatus
<1>4. CASE LookupCR(r)
  <2> DEFINE q == [reqs[r] EXCEPT !.pc = "apply", !.crd = cr]
  <2>1. /\ q \in ReqRecs /\ q.pc = "apply" /\ q.row = reqs[r].row
        /\ reqs' = [reqs EXCEPT ![r] = q]
    BY <1>1, <1>4 DEF LookupCR, ReqRecs, PCs, IInv, TypeOK
  <2> HIDE DEF q
  <2> QED BY <1>1, <1>2, <1>4, <2>1, RequestFacts DEF LookupCR, IInv, TypeOK
<1>5. CASE ApplyCR(r)
  <2>1. UNCHANGED crVars \/ \E s \in Specs : ApiCreate(s) \/ ApiUpdate(cr, s)
    BY <1>1, <1>5 DEF ApplyCR, Inserted
  <2>2. cr' \in CRs /\ NamesImage(cr') /\ uids' \in 0..MaxUid
    BY <2>1, ApiFacts DEF IInv, TypeOK
  <2> QED BY <1>2, <1>5, <2>2, FinishFacts DEF ApplyCR, IInv, TypeOK
<1>6. CASE DeleteCR(r)
  <2>1. cr' \in CRs /\ NamesImage(cr') /\ uids' \in 0..MaxUid
    BY <1>1, <1>6, ApiFacts DEF DeleteCR, Inserted, IInv, TypeOK
  <2> QED BY <1>2, <1>6, <2>1, FinishFacts DEF DeleteCR, IInv, TypeOK
<1>7. CASE Fail(r)
  <2>1. fails' \in 0..MaxFails
    BY <1>7, ServiceAssumption DEF Fail, IInv, TypeOK
  <2> QED BY <1>2, <1>7, <2>1, FinishFacts DEF Fail, IInv, TypeOK
<1> QED BY <1>3, <1>4, <1>5, <1>6, <1>7

(* Every step of the requests and of the controller keeps it.              *)
LEMMA NextIInv == IInv /\ [Next]_vars => IInv'
<1> SUFFICES ASSUME IInv, [Next]_vars PROVE IInv'
  OBVIOUS
<1>1. CASE UNCHANGED vars
  BY <1>1 DEF vars, crVars, serviceVars, IInv, TypeOK, SpecsPresent, SyncsHaveImage,
              ReadyRowHasImage, At
<1>2. CASE Controller
  <2>1. cr' \in CRs /\ NamesImage(cr') /\ uids' = uids
    BY <1>2, ControllerFacts DEF Controller, IInv, TypeOK
  <2> QED BY <1>2, <2>1 DEF Controller, serviceVars, IInv, TypeOK, SpecsPresent,
                            SyncsHaveImage, ReadyRowHasImage, At
<1>3. ASSUME NEW r \in Reqs, Request(r) \/ Step(r) \/ Fail(r) PROVE IInv'
  BY <1>3, RowStep, ObjectStep DEF Step
<1> QED BY <1>1, <1>2, <1>3 DEF Next

(* Every reachable state satisfies the inductive invariant.                *)
THEOREM Invariance == Spec => []IInv
<1> QED BY InitIInv, NextIInv, PTL DEF Spec

(* Every variable keeps its type.                                          *)
THEOREM TypeCorrect == Spec => []TypeOK
<1>1. IInv => TypeOK
  BY DEF IInv
<1> QED BY <1>1, Invariance, PTL

(* A row is never "ready" without an image, however the syncs of any       *)
(* number of requests interleave with builds and updates.                  *)
THEOREM ReadyRowsHaveImages == Spec => []ReadyRowHasImage
<1>1. IInv => ReadyRowHasImage
  BY DEF IInv
<1> QED BY <1>1, Invariance, PTL

(* No request brings a deleted row back or changes it.                     *)
THEOREM DeletedStaysDeleted == Spec => DeletedForGood
<1>1. [Next]_vars => [row.status = "deleted" => row' = row]_vars
  BY DEF Next, vars, serviceVars, Controller, Request, Step, CreateFunction,
     UpdateRead, UpdateWrite, DeleteFunction, GetFunction, Active, GetStatus,
     SyncStatus, LookupCR, ApplyCR, DeleteCR, Fail
<1> QED BY <1>1, PTL DEF Spec, DeletedForGood

-----------------------------------------------------------------------------
(* Pages of a keyset list.                                                 *)


(* The order of the cursor: strict, and total on keys.                     *)
LEMMA AboveOrder ==
    ASSUME NEW r \in Key, NEW s \in Key, NEW t \in Key
    PROVE  /\ ~Above(r, r)
           /\ Above(r, s) => ~Above(s, r)
           /\ Above(r, s) /\ Above(s, t) => Above(r, t)
BY DEF Above, Key

(* A page of S below a cursor: some of its rows; all of them when there is *)
(* no token; and with a token, which is its last row, whatever does not    *)
(* come below the token.                                                   *)
IsPage(page, S, c) ==
    LET R == RowsOf(page)
        B == Below(S, c)
    IN /\ R \subseteq B
       /\ page.next = {} => B \subseteq R
       /\ page.next # {} =>
            \E k \in R : /\ page.next = {k}
                         /\ \A r \in R : ~Above(k, r)
                         /\ \A s \in B : s \in R \/ Above(k, s)

(* Every answer of a keyset list is such a page.                           *)
LEMMA PageFacts ==
    ASSUME NEW S \in SUBSET Key, NEW c \in SUBSET Key, NEW n \in Nat \ {0},
           NEW page \in Pages(S, c, n)
    PROVE  IsPage(page, S, c)
<1> DEFINE B == Below(S, c)
           R == RowsOf(page)
<1>1. PICK rows \in Newest(B, n + 1) : page = PageOf(rows, n)
  BY DEF Pages
<1>2. PICK m \in 0..(n + 1) : rows \in [1..m -> B]
  BY <1>1 DEF Newest
<1>3. /\ \A i, j \in 1..m : i < j => Above(rows[i], rows[j])
      /\ \A s \in B : \/ \E i \in 1..m : rows[i] = s
                      \/ m = n + 1 /\ \A i \in 1..m : Above(rows[i], s)
  <2>1. IsNewest(rows, B, n + 1) /\ DOMAIN rows = 1..m /\ rows \in Seq(B)
    BY <1>1, <1>2 DEF Newest
  <2>2. Len(rows) = m
    BY <2>1, <1>2
  <2> QED BY <2>1, <2>2 DEF IsNewest
<1>4. rows \in Seq(B) /\ Len(rows) = m /\ DOMAIN rows = 1..m
  BY <1>2
<1>5. B \subseteq Key
  BY DEF Below
<1>6. CASE m <= n
  <2>1. Cut(rows, n) = rows /\ page.rows = rows /\ page.next = {}
    BY <1>1, <1>4, <1>6 DEF PageOf, Cut, Token
  <2>2. R = {rows[i] : i \in 1..m}
    BY <2>1, <1>4 DEF RowsOf
  <2>3. B \subseteq R
    BY <2>2, <1>3, <1>6
  <2>4. R \subseteq B
    BY <2>2, <1>2
  <2> HIDE DEF B, R
  <2> QED BY <2>1, <2>3, <2>4 DEF IsPage, B, R
<1>7. CASE m = n + 1
  <2>1. Len(rows) > n
    BY <1>4, <1>7
  <2>2. Cut(rows, n) = SubSeq(rows, 1, n)
    BY <2>1 DEF Cut
  <2>3. /\ page.rows = [i \in 1..n |-> rows[i]]
        /\ Len(page.rows) = n /\ DOMAIN page.rows = 1..n /\ page.rows # <<>>
    <3>1. page.rows = SubSeq(rows, 1, n)
      BY <1>1, <2>2 DEF PageOf
    <3>2. SubSeq(rows, 1, n) = [i \in 1..n |-> rows[i]] /\ SubSeq(rows, 1, n) \in Seq(B)
      BY <1>4, <1>7
    <3>3. Len(page.rows) = n /\ DOMAIN page.rows = 1..n
      BY <3>1, <3>2
    <3>4. page.rows # <<>>
      BY <3>3
    <3> QED BY <3>1, <3>2, <3>3, <3>4
  <2>4. rows[n] \in B
    BY <1>2, <1>7
  <2>5. page.next = {rows[n]}
    <3>1. page.next = {[created_at |-> rows[n].created_at, id |-> rows[n].id]}
      BY <1>1, <2>1, <2>2, <2>3 DEF PageOf, Token
    <3> QED BY <3>1, <2>4, <1>5 DEF Key
  <2>6. R = {rows[i] : i \in 1..n}
    BY <2>3 DEF RowsOf
  <2>7. \A r \in R : ~Above(rows[n], r)
    <3>1. SUFFICES ASSUME NEW i \in 1..n PROVE ~Above(rows[n], rows[i])
      BY <2>6
    <3>2. rows[i] \in Key /\ rows[n] \in Key
      BY <1>2, <1>5, <1>7
    <3>3. i = n \/ Above(rows[i], rows[n])
      BY <1>3, <1>7
    <3> QED BY <3>2, <3>3, AboveOrder
  <2>8. \A s \in B : s \in R \/ Above(rows[n], s)
    <3>1. SUFFICES ASSUME NEW s \in B PROVE s \in R \/ Above(rows[n], s)
      OBVIOUS
    <3>2. CASE \E i \in 1..m : rows[i] = s
      <4>1. PICK i \in 1..m : rows[i] = s
        BY <3>2
      <4>2. i \in 1..n \/ i = n + 1
        BY <1>7
      <4>3. i = n + 1 => Above(rows[n], rows[i])
        BY <1>3, <1>7
      <4> QED BY <4>1, <4>2, <4>3, <2>6
    <3>3. CASE \A i \in 1..m : Above(rows[i], s)
      BY <3>3, <1>7
    <3> QED BY <3>2, <3>3, <1>3
  <2>9. R \subseteq B /\ rows[n] \in R
    <3>1. \A i \in 1..n : rows[i] \in B
      BY <1>2, <1>7
    <3>2. n \in 1..n
      OBVIOUS
    <3> QED BY <3>1, <3>2, <2>6
  <2>11. page.next # {}
    BY <2>5
  <2> HIDE DEF B, R
  <2> QED BY <2>5, <2>7, <2>8, <2>9, <2>11 DEF IsPage, B, R
<1>8. m <= n \/ m = n + 1
  BY <1>2
<1> QED BY <1>6, <1>7, <1>8

(* What the client was given lies at or above its cursor, and what it has  *)
(* still to be given, below.                                               *)
WalkInv ==
    /\ WalkTypeOK
    /\ cursor = {} /\ ~done => given = {}
    /\ cursor # {} => \E k \in Key : cursor = {k} /\ \A g \in given : ~Above(k, g)
    /\ ~done => \A r \in kept : r \in given \/ \A k \in cursor : Above(k, r)
    /\ NothingRepeated
    /\ NothingSkipped

LEMMA FetchKeeps ==
    ASSUME Row \subseteq Key, NEW size \in Nat \ {0}, WalkInv, Fetch(size)
    PROVE  WalkInv'
<1>1. PICK page \in Pages(selected, cursor, size) :
         /\ given' = given \cup RowsOf(page)
         /\ repeated' = (RowsOf(page) \cap given # {})
         /\ cursor' = page.next
         /\ done' = (page.next = {})
  BY DEF Fetch
<1> DEFINE R == RowsOf(page)
           B == Below(selected, cursor)
<1>2. /\ given' = given \cup R /\ repeated' = (R \cap given # {})
      /\ cursor' = page.next /\ done' = (page.next = {})
      /\ ~done /\ selected' = selected /\ kept' = kept
  BY <1>1 DEF Fetch
<1>3. selected \in SUBSET Key /\ cursor \in SUBSET Key /\ given \subseteq Row /\ kept \subseteq selected
  BY DEF WalkInv, WalkTypeOK
<1>4. /\ R \subseteq B
      /\ page.next = {} => B \subseteq R
      /\ page.next # {} => \E k \in R : /\ page.next = {k}
                                        /\ \A r \in R : ~Above(k, r)
                                        /\ \A s \in B : s \in R \/ Above(k, s)
  <2>1. IsPage(page, selected, cursor)
    BY <1>3, PageFacts
  <2> QED BY <2>1 DEF IsPage
<1>5. R \subseteq selected /\ R \subseteq Key /\ R \subseteq Row
  BY <1>3, <1>4 DEF Below, WalkInv, WalkTypeOK
<1>6. R \cap given = {}
  <2>1. SUFFICES ASSUME NEW g \in R, g \in given PROVE FALSE
    OBVIOUS
  <2>2. PICK k \in Key : cursor = {k} /\ ~Above(k, g)
    BY <2>1, <1>2 DEF WalkInv
  <2>3. Above(k, g)
    BY <2>1, <2>2, <1>4 DEF Below
  <2> QED BY <2>2, <2>3
<1>7. \A r \in kept : r \in given \/ r \in B
  BY <1>2, <1>3 DEF WalkInv, Below
<1>8. CASE page.next = {}
  <2>1. kept' \subseteq given'
    BY <1>2, <1>4, <1>7, <1>8
  <2>2. done' /\ cursor' = {} /\ ~repeated' /\ repeated' \in BOOLEAN
    BY <1>2, <1>6, <1>8
  <2>3. given' \subseteq Row /\ selected' \subseteq Row /\ kept' \subseteq selected'
    BY <1>2, <1>3, <1>5 DEF WalkInv, WalkTypeOK
  <2> QED BY <2>1, <2>2, <2>3 DEF WalkInv, WalkTypeOK, NothingRepeated, NothingSkipped
<1>9. CASE page.next # {}
  <2>1. PICK k \in R : /\ page.next = {k}
                       /\ \A r \in R : ~Above(k, r)
                       /\ \A s \in B : s \in R \/ Above(k, s)
    BY <1>4, <1>9
  <2>2. k \in Key /\ \A l \in cursor : Above(l, k)
    BY <2>1, <1>4, <1>5 DEF Below
  <2>3. \A g \in given : ~Above(k, g)
    <3>1. SUFFICES ASSUME NEW g \in given, Above(k, g) PROVE FALSE
      OBVIOUS
    <3>2. PICK l \in Key : cursor = {l} /\ ~Above(l, g)
      BY <3>1, <1>2 DEF WalkInv
    <3>3. g \in Key
      BY <1>3
    <3>4. Above(l, k)
      BY <3>2, <2>2
    <3> QED BY <3>1, <3>2, <3>3, <3>4, <2>2, AboveOrder
  <2>4. \A g \in given' : ~Above(k, g)
    BY <2>1, <2>3, <1>2
  <2>5. \A r \in kept' : r \in given' \/ \A l \in cursor' : Above(l, r)
    BY <2>1, <1>2, <1>7
  <2>6. cursor' = {k} /\ ~done'
    BY <2>1, <1>2, <1>9
  <2> QED BY <2>2, <2>4, <2>5, <2>6, <1>2, <1>3, <1>5, <1>6
          DEF WalkInv, WalkTypeOK, NothingRepeated, NothingSkipped
<1> QED BY <1>8, <1>9

(* WalkInv is an invariant: a write only takes rows out of kept.              *)
THEOREM WalkInvariance ==
    ASSUME Row \subseteq Key, Sizes \subseteq Nat \ {0}
    PROVE  WalkSpec => []WalkInv
<1>1. WalkInit => WalkInv
  BY DEF WalkInit, WalkInv, WalkTypeOK, NothingRepeated, NothingSkipped
<1>2. WalkInv /\ [WalkNext]_walkVars => WalkInv'
  <2> SUFFICES ASSUME WalkInv, [WalkNext]_walkVars PROVE WalkInv'
    OBVIOUS
  <2>1. CASE Write
    BY <2>1 DEF Write, WalkInv, WalkTypeOK, NothingRepeated, NothingSkipped
  <2>2. ASSUME NEW size \in Sizes, Fetch(size) PROVE WalkInv'
    BY <2>2, FetchKeeps
  <2>3. CASE UNCHANGED walkVars
    BY <2>3 DEF walkVars, WalkInv, WalkTypeOK, NothingRepeated, NothingSkipped
  <2> QED BY <2>1, <2>2, <2>3 DEF WalkNext
<1> QED BY <1>1, <1>2, PTL DEF WalkSpec

(* A client that follows the tokens of ListFunctions, or of a list like    *)
(* it, to the end has been given every row that was there all along, and   *)
(* none twice.                                                             *)
THEOREM EveryRowOnce ==
    ASSUME Row \subseteq Key, Sizes \subseteq Nat \ {0}
    PROVE  WalkSpec => [](NothingSkipped /\ NothingRepeated)
<1>1. WalkInv => NothingSkipped /\ NothingRepeated
  BY DEF WalkInv
<1> QED BY <1>1, WalkInvariance, PTL

(* The six keyset calls answer with such pages: the services' clamp of the *)
(* limit at 101 never takes away the row the handlers ask for on top of a  *)
(* page of at most 100.                                                    *)
THEOREM ListsArePages ==
    ASSUME NEW db, NEW req, req.size \in Int
    PROVE  /\ ListFunctions(db, req) \subseteq Pages(FunctionsOf(db, req), req.cursor, PageSize(req))
           /\ ListInvocations(db, req) \subseteq Pages(InvocationsOf(db, req), req.cursor, PageSize(req))
           /\ ListProjects(db, req) \subseteq Pages(ProjectsOf(db, req), req.cursor, PageSize(req))
           /\ ListApiKeys(db, req) \subseteq Pages(ApiKeysOf(db, req), req.cursor, PageSize(req))
           /\ ListSecrets(db, req) \subseteq Pages(SecretsOf(db, req), req.cursor, PageSize(req))
           /\ req.function = {} =>
                ListEventHistory(db, req) \subseteq Pages(ProjectEvents(db, req), req.cursor, PageSize(req))
           /\ req.function # {} =>
                ListEventHistory(db, req) \subseteq Pages(FunctionEvents(db, req), req.cursor, PageSize(req))
<1>1. WellFormed(req) => Clamped(PageSize(req) + 1) = PageSize(req) + 1
  BY DEF WellFormed, Clamped, PageSize, Smaller
<1>2. ListFunctions(db, req) \subseteq Pages(FunctionsOf(db, req), req.cursor, PageSize(req))
  BY <1>1 DEF ListFunctions, FunctionRows, ListFunctionsByProjectID, Pages
<1>3. ListInvocations(db, req) \subseteq Pages(InvocationsOf(db, req), req.cursor, PageSize(req))
  BY <1>1 DEF ListInvocations, InvocationRows, ListInvocationsByFunctionID, Pages
<1>4. ListProjects(db, req) \subseteq Pages(ProjectsOf(db, req), req.cursor, PageSize(req))
  BY <1>1 DEF ListProjects, ProjectRows, ListProjectsByTenantID, Pages, ProjectWellFormed
<1>5. ListApiKeys(db, req) \subseteq Pages(ApiKeysOf(db, req), req.cursor, PageSize(req))
  BY <1>1 DEF ListApiKeys, ApiKeyRows, ListApiKeysByProjectID, Pages, ProjectWellFormed
<1>6. ListSecrets(db, req) \subseteq Pages(SecretsOf(db, req), req.cursor, PageSize(req))
  BY <1>1 DEF ListSecrets, SecretRows, ListSecretsByProjectID, Pages, ProjectWellFormed
<1>7. req.function = {} =>
        ListEventHistory(db, req) \subseteq Pages(ProjectEvents(db, req), req.cursor, PageSize(req))
  BY <1>1 DEF ListEventHistory, EventRows, ListEventHistoryByProjectID, Pages, EventWellFormed
<1>8. req.function # {} =>
        ListEventHistory(db, req) \subseteq Pages(FunctionEvents(db, req), req.cursor, PageSize(req))
  BY <1>1 DEF ListEventHistory, EventRows, ListEventHistoryByFunctionID, Pages, EventWellFormed
<1> QED BY <1>2, <1>3, <1>4, <1>5, <1>6, <1>7, <1>8
=============================================================================
