------------------------- MODULE EventDeliveryProofs -------------------------
(***************************************************************************)
(* Theorems about EventDelivery, for every number of events, sidecars,     *)
(* deliveries and attempts: its types, and that it implements              *)
(* EventContract: no event is acknowledged that no call has succeeded for, *)
(* none comes back, and the calls for one are bounded, although deliveries *)
(* of it to several sidecars overlap.                                      *)
(*                                                                         *)
(* The bound is where the invariant is needed: the calls made, and those   *)
(* the sidecars that hold the event may still make, number at most         *)
(* maxRetries + 1 for each of its deliveries.                              *)
(***************************************************************************)
EXTENDS EventDelivery, FiniteSetTheorems, TLAPS

-----------------------------------------------------------------------------
(* The inductive invariant. *)

\* The attempts left: each sidecar in the middle of a delivery, with the attempts
\* it may make for the event.
Budget == maxRetries + 1
Left(sd, e) == {a \in Sidecars \X (0..maxRetries) :
                   sd[a[1]].pc = "post" /\ sd[a[1]].ev = e /\ sd[a[1]].attempt <= a[2]}

\* A sidecar is busy with an event that was delivered, and acknowledges only what
\* it had a success for.
Holding(m, sub, ans) ==
    m.pc \in {"post", "ack", "nak"} =>
        /\ m.ev \in Events /\ sub[m.ev] # ""
        /\ m.pc = "ack" => m.ev \in ans
SideInv == \A s \in Sidecars :
    /\ Holding(side[s], subject, answered)
    /\ side[s].pc \in {"post", "ack", "nak"} => msg[side[s].ev].st # "new"

\* What the consumer has not looked at was not delivered, and not called for.
NewInv == \A e \in Events :
    /\ ~Stored(e) => msg[e].st = "new"
    /\ msg[e].st = "new" => msg[e].count = 0 /\ tries[e] = 0
\* Without a consumer nothing is to be delivered.
BoundInv == ~Bound => \A e \in Events : msg[e].st \notin {"pending", "again"}

BudgetInv == \A e \in Events :
    tries[e] + Cardinality(Left(side, e)) <= msg[e].count * Budget

IInv == TypeOK /\ SideInv /\ NewInv /\ BoundInv /\ BudgetInv

-----------------------------------------------------------------------------
(* The attempts left. *)

\* The parameters.
LEMMA Parameters ==
    /\ IsFiniteSet(Sidecars) /\ MaxEvents \in Nat /\ maxRetries \in Nat
    /\ MaxDeliver \in Nat /\ MaxDeliver > 0 /\ Budget \in Nat /\ Budget > 0
BY DeliveryAssumption DEF Budget

\* They are finitely many.
LEMMA LeftFinite ==
    ASSUME NEW sd, NEW e
    PROVE  IsFiniteSet(Left(sd, e)) /\ Cardinality(Left(sd, e)) \in Nat
<1>1. IsFiniteSet(0..maxRetries)
  BY Parameters, FS_Interval
<1>2. IsFiniteSet(Sidecars \X (0..maxRetries))
  BY <1>1, Parameters, FS_Product
<1>3. Left(sd, e) \subseteq Sidecars \X (0..maxRetries)
  BY DEF Left
<1> QED
  BY <1>2, <1>3, FS_Subset, FS_CardinalityType

\* Fewer are left of fewer.
LEMMA LeftSubset ==
    ASSUME NEW sd, NEW td, NEW e, Left(td, e) \subseteq Left(sd, e)
    PROVE  Cardinality(Left(td, e)) <= Cardinality(Left(sd, e))
BY LeftFinite, FS_Subset

\* A sidecar that is done with its event, or gives it up, makes no more attempts.
LEMMA Quits ==
    ASSUME NEW sd \in [Sidecars -> SideRecs], NEW s \in Sidecars, NEW m, m.pc # "post"
    PROVE  LET td == [sd EXCEPT ![s] = m] IN
           /\ \A e : Left(td, e) \subseteq Left(sd, e)
           /\ \A e : Cardinality(Left(td, e)) <= Cardinality(Left(sd, e))
<1> DEFINE td == [sd EXCEPT ![s] = m]
<1>1. ASSUME NEW e PROVE Left(td, e) \subseteq Left(sd, e)
  BY DEF Left
<1> HIDE DEF td
<1>2. ASSUME NEW e PROVE Cardinality(Left(td, e)) <= Cardinality(Left(sd, e))
  BY <1>1, LeftSubset
<1> QED
  BY <1>1, <1>2 DEF td

\* An attempt that is made is not left any more.
LEMMA Spends ==
    ASSUME NEW sd \in [Sidecars -> SideRecs], NEW s \in Sidecars, NEW m \in SideRecs,
           sd[s].pc = "post",
           \/ m.pc # "post"
           \/ m.ev = sd[s].ev /\ m.attempt = sd[s].attempt + 1
    PROVE  LET td == [sd EXCEPT ![s] = m] IN
           /\ Cardinality(Left(td, sd[s].ev)) + 1 <= Cardinality(Left(sd, sd[s].ev))
           /\ \A e : Cardinality(Left(td, e)) <= Cardinality(Left(sd, e))
<1> DEFINE td == [sd EXCEPT ![s] = m]
           n == sd[s].attempt
           a == <<s, n>>
           d == sd[s].ev
<1>1. n \in Nat /\ n \in 0..maxRetries
  BY Parameters DEF SideRecs
<1>2. a \in Left(sd, d)
  BY <1>1 DEF Left
<1>3. ASSUME NEW e PROVE Left(td, e) \subseteq Left(sd, e) \ {a}
  <2>1. ASSUME NEW b \in Left(td, e)
        PROVE  b \in Left(sd, e) /\ b # a
    <3>1. /\ b \in Sidecars \X (0..maxRetries)
          /\ td[b[1]].pc = "post" /\ td[b[1]].ev = e /\ td[b[1]].attempt <= b[2]
      BY <2>1 DEF Left
    <3>2. CASE b[1] # s
      <4>1. td[b[1]] = sd[b[1]]
        BY <3>1, <3>2
      <4> QED
        BY <3>1, <3>2, <4>1 DEF Left
    <3>3. CASE b[1] = s
      <4>1. td[s] = m
        OBVIOUS
      <4>2. m.pc = "post" /\ m.ev = e /\ m.attempt <= b[2] /\ b[2] \in 0..maxRetries
        BY <3>1, <3>3, <4>1
      <4>3. e = d /\ m.attempt = n + 1
        BY <4>2
      <4>4. n + 1 <= b[2] /\ b[2] \in Int
        BY <4>2, <4>3
      <4>5. n <= b[2] /\ b[2] # n
        BY <1>1, <4>4
      <4>6. b # a
        BY <4>5
      <4> QED
        BY <3>1, <3>3, <4>3, <4>5, <4>6 DEF Left
    <3> QED
      BY <3>2, <3>3
  <2> QED
    BY <2>1
<1> HIDE DEF td, n, a, d
<1>4. ASSUME NEW e PROVE Cardinality(Left(td, e)) <= Cardinality(Left(sd, e))
  BY <1>3, LeftSubset
<1>5. Cardinality(Left(td, d)) + 1 <= Cardinality(Left(sd, d))
  <2>1. /\ IsFiniteSet(Left(sd, d)) /\ Cardinality(Left(sd, d)) \in Nat
        /\ Cardinality(Left(td, d)) \in Nat
    BY LeftFinite
  <2>2. IsFiniteSet(Left(sd, d) \ {a}) /\ Cardinality(Left(sd, d) \ {a}) = Cardinality(Left(sd, d)) - 1
    BY <1>2, <2>1, FS_RemoveElement
  <2>3. Cardinality(Left(td, d)) <= Cardinality(Left(sd, d) \ {a})
    BY <1>3, <2>2, FS_Subset
  <2> QED
    BY <2>1, <2>2, <2>3
<1> QED
  BY <1>4, <1>5 DEF td, d

\* A delivery brings a sidecar all its attempts.
LEMMA Takes ==
    ASSUME NEW sd \in [Sidecars -> SideRecs], NEW s \in Sidecars, NEW d \in Events,
           sd[s].pc # "post"
    PROVE  LET td == [sd EXCEPT ![s] = [pc |-> "post", ev |-> d, attempt |-> 0]] IN
           /\ Cardinality(Left(td, d)) <= Cardinality(Left(sd, d)) + Budget
           /\ \A e : e # d => Cardinality(Left(td, e)) <= Cardinality(Left(sd, e))
<1> DEFINE m == [pc |-> "post", ev |-> d, attempt |-> 0]
           td == [sd EXCEPT ![s] = m]
           new == {s} \X (0..maxRetries)
<1>1. td[s] = m /\ \A t \in Sidecars \ {s} : td[t] = sd[t]
  OBVIOUS
<1>2. m.ev = d
  OBVIOUS
<1>3. Left(td, d) \subseteq Left(sd, d) \cup new
  <2> HIDE DEF td, m
  <2> QED
    BY <1>1 DEF Left
<1>4. ASSUME NEW e, e # d PROVE Left(td, e) \subseteq Left(sd, e)
  <2> HIDE DEF td, m
  <2> QED
    BY <1>1, <1>2, <1>4 DEF Left
<1>5. IsFiniteSet(new) /\ Cardinality(new) = Budget
  <2>1. IsFiniteSet(0..maxRetries) /\ Cardinality(0..maxRetries) = Budget
    BY Parameters, FS_Interval DEF Budget
  <2>2. IsFiniteSet({s}) /\ Cardinality({s}) = 1
    BY FS_Singleton
  <2>3. IsFiniteSet(new) /\ Cardinality(new) = 1 * Budget
    BY <2>1, <2>2, FS_Product
  <2> QED
    BY <2>3, Parameters
<1> HIDE DEF td, m, new
<1>6. /\ IsFiniteSet(Left(sd, d)) /\ Cardinality(Left(sd, d)) \in Nat
      /\ Cardinality(Left(td, d)) \in Nat
  BY LeftFinite
<1>7. /\ IsFiniteSet(Left(sd, d) \cup new)
      /\ Cardinality(Left(sd, d) \cup new)
            = Cardinality(Left(sd, d)) + Cardinality(new) - Cardinality(Left(sd, d) \cap new)
  BY <1>5, <1>6, FS_Union
<1>8. Cardinality(Left(sd, d) \cap new) \in Nat
  BY <1>6, FS_Intersection, FS_CardinalityType
<1>9. Cardinality(Left(td, d)) <= Cardinality(Left(sd, d) \cup new)
  BY <1>3, <1>7, FS_Subset
<1>10. Cardinality(Left(td, d)) <= Cardinality(Left(sd, d)) + Budget
  BY <1>5, <1>6, <1>7, <1>8, <1>9, Parameters
<1>11. ASSUME NEW e, e # d PROVE Cardinality(Left(td, e)) <= Cardinality(Left(sd, e))
  BY <1>4, <1>11, LeftSubset
<1> QED
  BY <1>10, <1>11 DEF td, m

-----------------------------------------------------------------------------
(* Every step keeps the invariant. *)

\* What the consumer makes of an event: never "new" again, deliveries counted.
Moves(m, n) == n.st # "new" /\ n.count = m.count /\ n \in [st : MsgStates, count : 0..MaxDeliver]

\* The states of a consumer's event, and of a sidecar.
LEMMA Records ==
    /\ \A m \in [st : MsgStates, count : 0..MaxDeliver] :
          /\ m.count \in Nat
          /\ \A st \in MsgStates \ {"new"} : Moves(m, [m EXCEPT !.st = st])
          /\ m.count < MaxDeliver =>
                [st |-> "pending", count |-> m.count + 1] \in [st : MsgStates, count : 0..MaxDeliver]
    /\ Down \in SideRecs /\ Down.pc = "down"
    /\ Fetching \in SideRecs /\ Fetching.pc = "fetch"
    /\ \A e \in Events : [pc |-> "post", ev |-> e, attempt |-> 0] \in SideRecs
    /\ \A m \in SideRecs : m.attempt \in Nat /\ m.attempt <= maxRetries
<1>1. \A m \in [st : MsgStates, count : 0..MaxDeliver] :
          /\ m.count \in Nat
          /\ \A st \in MsgStates \ {"new"} : Moves(m, [m EXCEPT !.st = st])
          /\ m.count < MaxDeliver =>
                [st |-> "pending", count |-> m.count + 1] \in [st : MsgStates, count : 0..MaxDeliver]
  BY Parameters DEF Moves, MsgStates
<1>2. Down \in SideRecs /\ Down.pc = "down"
  BY Parameters DEF Down, SideRecs, PCs
<1>3. Fetching \in SideRecs /\ Fetching.pc = "fetch"
  BY Parameters DEF Down, Fetching, SideRecs, PCs
<1>4. \A e \in Events : [pc |-> "post", ev |-> e, attempt |-> 0] \in SideRecs
  BY Parameters DEF Events, SideRecs, PCs
<1>5. \A m \in SideRecs : m.attempt \in Nat /\ m.attempt <= maxRetries
  BY Parameters DEF SideRecs
<1> QED
  BY <1>1, <1>2, <1>3, <1>4, <1>5

\* The budget when no more attempts are left than before, and none was made.
LEMMA SameBudget ==
    ASSUME TypeOK, BudgetInv, UNCHANGED tries,
           \A e \in Events : msg'[e].count = msg[e].count,
           \A e \in Events : Cardinality(Left(side', e)) <= Cardinality(Left(side, e))
    PROVE  BudgetInv'
<1> SUFFICES ASSUME NEW e \in Events
             PROVE  tries'[e] + Cardinality(Left(side', e)) <= msg'[e].count * Budget
  BY DEF BudgetInv
<1>1. \A t, l, k, b \in Nat : t + l <= b /\ k <= l => t + k <= b
  OBVIOUS
<1>2. /\ tries[e] \in Nat /\ tries'[e] = tries[e] /\ msg'[e].count = msg[e].count
      /\ msg[e].count \in Nat
  BY Records DEF TypeOK
<1>3. /\ Cardinality(Left(side, e)) \in Nat /\ Cardinality(Left(side', e)) \in Nat
      /\ Cardinality(Left(side', e)) <= Cardinality(Left(side, e))
  BY LeftFinite
<1>4. tries[e] + Cardinality(Left(side, e)) <= msg[e].count * Budget
  BY DEF BudgetInv
<1>5. \A c \in Nat : c * Budget \in Nat
  BY Parameters
<1> QED
  BY <1>1, <1>2, <1>3, <1>4, <1>5

\* A step of the consumer that settles or passes over events.
LEMMA ConsumerStep ==
    ASSUME IInv, UNCHANGED <<subject, side, usage, tries, answered>>,
           filter' \subseteq Subjects, updates' \in 0..usage.updates,
           msg' \in [Events -> [st : MsgStates, count : 0..MaxDeliver]],
           \A e \in Events : msg'[e] = msg[e] \/ (Stored(e) /\ Moves(msg[e], msg'[e])),
           filter' = {} => \A e \in Events : msg'[e].st \notin {"pending", "again"}
    PROVE  IInv'
<1>1. TypeOK'
  BY DEF IInv, TypeOK
<1>2. SideInv'
  BY DEF IInv, SideInv, Holding, Moves
<1>3. NewInv'
  BY DEF IInv, NewInv, Moves, Stored
<1>4. BoundInv'
  BY DEF BoundInv, Bound
<1>5. \A e \in Events : msg'[e].count = msg[e].count
  BY DEF Moves
<1>6. \A e \in Events : Cardinality(Left(side', e)) <= Cardinality(Left(side, e))
  BY LeftFinite
<1>7. BudgetInv'
  BY <1>5, <1>6, SameBudget DEF IInv
<1> QED
  BY <1>1, <1>2, <1>3, <1>4, <1>7 DEF IInv

\* A sidecar that lets its event go, whatever becomes of that event.
LEMMA LetGo ==
    ASSUME IInv, UNCHANGED <<subject, filter, usage, updates, tries, answered>>,
           NEW s \in Sidecars, NEW m \in {Down, Fetching}, Become(s, m),
           msg' \in [Events -> [st : MsgStates, count : 0..MaxDeliver]],
           \A e \in Events : msg'[e] = msg[e] \/ (Stored(e) /\ Moves(msg[e], msg'[e])),
           filter = {} => UNCHANGED msg
    PROVE  IInv'
<1>1. m \in SideRecs /\ m.pc \notin {"post", "ack", "nak"}
  BY Records
<1>2. side \in [Sidecars -> SideRecs] /\ side' = [side EXCEPT ![s] = m]
  BY DEF IInv, TypeOK, Become
<1>3. TypeOK'
  BY <1>1, <1>2 DEF IInv, TypeOK
<1>4. SideInv'
  BY <1>1, <1>2 DEF IInv, SideInv, Holding, Moves
<1>5. NewInv'
  BY DEF IInv, NewInv, Moves, Stored
<1>6. BoundInv'
  BY DEF IInv, BoundInv, Bound
<1>7. \A e \in Events : msg'[e].count = msg[e].count
  BY DEF Moves
<1>8. \A e \in Events : Cardinality(Left(side', e)) <= Cardinality(Left(side, e))
  BY <1>1, <1>2, Quits
<1>9. BudgetInv'
  BY <1>7, <1>8, SameBudget DEF IInv
<1> QED
  BY <1>3, <1>4, <1>5, <1>6, <1>9 DEF IInv

\* The event is published; what is held was stored before.
LEMMA PublishStep == ASSUME IInv, NEW e \in Events, NEW subj \in Subjects, Publish(e, subj) PROVE IInv'
<1>1. TypeOK'
  BY DEF IInv, TypeOK, Publish
<1>2. SideInv' /\ NewInv' /\ BoundInv'
  BY DEF Publish, IInv, TypeOK, SideInv, Holding, NewInv, BoundInv, Bound, Stored
<1>3. \A d \in Events : msg'[d].count = msg[d].count
  BY DEF Publish
<1>4. \A d \in Events : Cardinality(Left(side', d)) <= Cardinality(Left(side, d))
  BY LeftFinite DEF Publish
<1>5. BudgetInv'
  BY <1>3, <1>4, SameBudget DEF IInv, Publish
<1> QED
  BY <1>1, <1>2, <1>5 DEF IInv

\* The operator creates, changes or deletes the consumer.
LEMMA OperatorStep ==
    ASSUME IInv, (\E f \in SUBSET Subjects : EnsureConsumer(f)) \/ DeleteConsumer
    PROVE  IInv'
<1>1. \A m \in [st : MsgStates, count : 0..MaxDeliver] : Moves(m, [m EXCEPT !.st = "passed"])
  BY Records DEF MsgStates
<1>2. updates \in Nat /\ usage.updates \in Nat
  <2>1. usage \in Usages /\ updates \in 0..usage.updates
    BY DEF IInv, TypeOK
  <2>2. \A u \in Usages : u.updates \in Nat
    BY DeliveryAssumption
  <2> QED
    BY <2>1, <2>2
<1>3. updates < usage.updates /\ updates' = updates + 1
  BY DEF EnsureConsumer, DeleteConsumer
<1>4. updates' \in 0..usage.updates
  BY <1>2, <1>3
<1>5. msg \in [Events -> [st : MsgStates, count : 0..MaxDeliver]]
  BY DEF IInv, TypeOK
<1>6. CASE \E f \in SUBSET Subjects : EnsureConsumer(f)
  <2>1. PICK f \in SUBSET Subjects : EnsureConsumer(f)
    BY <1>6
  <2>2. /\ msg' \in [Events -> [st : MsgStates, count : 0..MaxDeliver]]
        /\ \A e \in Events : msg'[e] = msg[e] \/ (Stored(e) /\ Moves(msg[e], msg'[e]))
    BY <1>1, <1>5, <2>1 DEF EnsureConsumer, Moves
  <2>3. filter' \subseteq Subjects /\ filter' # {}
    BY <2>1 DEF EnsureConsumer
  <2> QED
    BY <1>4, <2>1, <2>2, <2>3, ConsumerStep DEF EnsureConsumer
<1>7. CASE DeleteConsumer
  <2>1. /\ msg' \in [Events -> [st : MsgStates, count : 0..MaxDeliver]]
        /\ \A e \in Events : msg'[e] = msg[e] \/ (Stored(e) /\ Moves(msg[e], msg'[e]))
    BY <1>1, <1>5, <1>7 DEF DeleteConsumer, Moves
  <2>2. filter' = {}
    BY <1>7 DEF DeleteConsumer
  <2>3. ASSUME NEW e \in Events PROVE msg'[e].st \notin {"pending", "again"}
    <3>1. ~Stored(e) => msg[e].st = "new"
      BY DEF IInv, NewInv
    <3>2. msg[e] \in [st : MsgStates, count : 0..MaxDeliver]
      BY <1>5
    <3> QED
      BY <1>7, <3>1, <3>2 DEF DeleteConsumer
  <2> QED
    BY <1>4, <1>7, <2>1, <2>2, <2>3, ConsumerStep DEF DeleteConsumer
<1> QED
  BY <1>6, <1>7

\* The consumer passes over, waits for or gives up an event.
LEMMA ServerStep == ASSUME IInv, NEW e \in Events, Server(e) PROVE IInv'
<1>1. PICK st \in MsgStates \ {"new"} : Mark(e, st)
  BY DEF Server, Skip, AckWait, Exceeded, MsgStates
<1>2. msg \in [Events -> [st : MsgStates, count : 0..MaxDeliver]]
  BY DEF IInv, TypeOK
<1>3. Moves(msg[e], [msg[e] EXCEPT !.st = st]) /\ msg' = [msg EXCEPT ![e] = [msg[e] EXCEPT !.st = st]]
  BY <1>1, <1>2, Records DEF Mark
<1>4. Stored(e) /\ Bound
  BY DEF Server, Skip, FirstNew, AckWait, Exceeded, IInv, NewInv, BoundInv
<1>5. /\ msg' \in [Events -> [st : MsgStates, count : 0..MaxDeliver]]
      /\ \A d \in Events : msg'[d] = msg[d] \/ (Stored(d) /\ Moves(msg[d], msg'[d]))
  BY <1>2, <1>3, <1>4 DEF Moves
<1>6. UNCHANGED <<subject, filter, side, usage, updates, tries, answered>>
  BY DEF Server, Skip, AckWait, Exceeded
<1> QED
  BY <1>4, <1>5, <1>6, ConsumerStep DEF IInv, TypeOK, Bound

\* What a delivery adds to the budget.
LEMMA Grows ==
    ASSUME NEW t \in Nat, NEW l \in Nat, NEW k \in Nat, NEW c \in Nat,
           t + l <= c * Budget, k <= l + Budget
    PROVE  t + k <= (c + 1) * Budget
<1>1. c * Budget \in Nat /\ (c + 1) * Budget = c * Budget + Budget
  BY Parameters
<1> HIDE DEF Budget
<1>2. \A b \in Nat : t + l <= b => t + k <= b + Budget
  BY Parameters
<1> QED
  BY <1>1, <1>2

\* A delivery, to a sidecar or to nobody.
LEMMA DeliverStep ==
    ASSUME IInv, NEW e \in Events,
           DeliverToNobody(e) \/ \E s \in Sidecars : Deliver(s, e)
    PROVE  IInv'
<1> DEFINE n == [st |-> "pending", count |-> msg[e].count + 1]
<1>1. /\ Deliverable(e) /\ Send(e)
      /\ UNCHANGED <<subject, filter, usage, updates, tries, answered>>
  BY DEF DeliverToNobody, Deliver
<1>2. /\ side \in [Sidecars -> SideRecs] /\ tries \in [Events -> Nat]
      /\ msg \in [Events -> [st : MsgStates, count : 0..MaxDeliver]]
  BY DEF IInv, TypeOK
<1>3. msg[e].count \in Nat /\ msg[e].count < MaxDeliver
  <2>1. msg[e].count \in Nat
    BY <1>2, Records
  <2>2. msg[e].st = "new" => msg[e].count = 0
    BY DEF IInv, NewInv
  <2>3. msg[e].st = "new" \/ msg[e].count < MaxDeliver
    BY <1>1 DEF Deliverable, FirstNew
  <2> QED
    BY <2>1, <2>2, <2>3, Parameters
<1>4. n \in [st : MsgStates, count : 0..MaxDeliver] /\ n.st = "pending" /\ n.count = msg[e].count + 1
  BY <1>2, <1>3, Records
<1>5. msg' = [msg EXCEPT ![e] = n]
  BY <1>1, <1>2 DEF Send
<1>6. Stored(e) /\ Bound
  BY <1>1 DEF Deliverable, FirstNew, IInv, NewInv
<1> HIDE DEF n
<1>7. msg' \in [Events -> [st : MsgStates, count : 0..MaxDeliver]] /\ msg'[e] = n
      /\ \A d \in Events \ {e} : msg'[d] = msg[d]
  BY <1>2, <1>4, <1>5
<1>8. NewInv' /\ BoundInv'
  BY <1>1, <1>4, <1>6, <1>7 DEF IInv, NewInv, BoundInv, Bound, Stored
<1>9. \A d \in Events : msg'[d].st = "new" => msg[d].st = "new"
  BY <1>4, <1>7
<1>10. ASSUME \A d \in Events \ {e} : Cardinality(Left(side', d)) <= Cardinality(Left(side, d)),
              Cardinality(Left(side', e)) <= Cardinality(Left(side, e)) + Budget
       PROVE  BudgetInv'
  <2> SUFFICES ASSUME NEW d \in Events
               PROVE  tries[d] + Cardinality(Left(side', d)) <= msg'[d].count * Budget
    BY <1>1 DEF BudgetInv
  <2>1. tries[d] + Cardinality(Left(side, d)) <= msg[d].count * Budget
    BY DEF IInv, BudgetInv
  <2>2. /\ tries[d] \in Nat /\ msg[d].count \in Nat /\ Cardinality(Left(side, d)) \in Nat
        /\ Cardinality(Left(side', d)) \in Nat
    BY <1>2, Records, LeftFinite
  <2>3. CASE d = e
    <3>1. tries[d] + Cardinality(Left(side', d)) <= (msg[d].count + 1) * Budget
      BY <1>10, <2>1, <2>2, <2>3, Grows
    <3> QED
      BY <1>4, <1>7, <2>3, <3>1
  <2>4. CASE d # e
    <3>1. \A t, l, k, b \in Nat : t + l <= b /\ k <= l => t + k <= b
      OBVIOUS
    <3>2. msg[d].count * Budget \in Nat
      BY <2>2, Parameters
    <3> QED
      BY <1>7, <1>10, <2>1, <2>2, <2>4, <3>1, <3>2
  <2> QED
    BY <2>3, <2>4
<1>11. CASE DeliverToNobody(e)
  <2>1. side' = side
    BY <1>11 DEF DeliverToNobody
  <2>2. TypeOK'
    BY <1>1, <1>7, <2>1 DEF IInv, TypeOK
  <2>3. SideInv'
    BY <1>1, <1>9, <2>1 DEF IInv, SideInv, Holding
  <2>4. BudgetInv'
    BY <1>10, <2>1, LeftFinite, Parameters
  <2> QED
    BY <1>8, <2>2, <2>3, <2>4 DEF IInv
<1>12. ASSUME NEW s \in Sidecars, Deliver(s, e)
       PROVE  IInv'
  <2> DEFINE m == [pc |-> "post", ev |-> e, attempt |-> 0]
  <2>1. side' = [side EXCEPT ![s] = m] /\ side[s].pc # "post"
    BY <1>12 DEF Deliver, Become
  <2>2. m \in SideRecs /\ m.pc = "post" /\ m.ev = e
    BY Records
  <2>3. BudgetInv'
    BY <1>2, <1>10, <2>1, Takes
  <2> HIDE DEF m
  <2>4. side' \in [Sidecars -> SideRecs]
    BY <1>2, <2>1, <2>2
  <2>5. TypeOK'
    BY <1>1, <1>7, <2>4 DEF IInv, TypeOK
  <2>6. SideInv'
    <3>1. ASSUME NEW t \in Sidecars, t # s
          PROVE  /\ Holding(side'[t], subject', answered')
                 /\ side'[t].pc \in {"post", "ack", "nak"} => msg'[side'[t].ev].st # "new"
      BY <1>1, <1>2, <1>9, <2>1, <3>1 DEF IInv, SideInv, Holding
    <3>2. /\ Holding(side'[s], subject', answered')
          /\ side'[s].pc \in {"post", "ack", "nak"} => msg'[side'[s].ev].st # "new"
      <4>1. side'[s] = m /\ subject[e] # ""
        BY <1>2, <1>6, <2>1 DEF Stored
      <4> QED
        BY <1>1, <1>4, <1>7, <2>2, <4>1 DEF Holding
    <3> QED
      BY <3>1, <3>2 DEF SideInv
  <2> QED
    BY <1>8, <2>3, <2>5, <2>6 DEF IInv
<1> QED
  BY <1>11, <1>12

\* One attempt is made.
LEMMA AttemptStep ==
    ASSUME IInv, NEW s \in Sidecars, NEW answer \in Answers, processMessage(s, answer)
    PROVE  IInv'
<1> DEFINE e == side[s].ev
<1>1. /\ side \in [Sidecars -> SideRecs] /\ side[s] \in SideRecs /\ side[s].pc = "post"
      /\ tries \in [Events -> Nat]
      /\ msg \in [Events -> [st : MsgStates, count : 0..MaxDeliver]]
  BY DEF IInv, TypeOK, processMessage
<1>2. e \in Events /\ subject[e] # "" /\ msg[e].st # "new"
  BY <1>1 DEF IInv, SideInv, Holding
<1>3. PICK m : /\ Become(s, m)
               /\ m = IF Success(answer) THEN [side[s] EXCEPT !.pc = "ack"] ELSE NextAttempt(side[s])
  BY DEF processMessage
<1>4. /\ tries' = [tries EXCEPT ![e] = tries[e] + 1]
      /\ answered' = IF answer = "2xx" THEN answered \cup {e} ELSE answered
      /\ UNCHANGED <<subject, filter, msg, usage, updates>>
  BY <1>1, <1>2 DEF processMessage, server
<1>5. /\ m \in SideRecs /\ m.ev = e
      /\ m.pc \in {"post", "ack", "nak"}
      /\ m.pc = "ack" => answer = "2xx"
      /\ m.pc # "post" \/ m.attempt = side[s].attempt + 1
  <2>1. CASE Success(answer)
    BY <1>1, <1>3, <2>1 DEF Success, SideRecs, PCs
  <2>2. CASE ~Success(answer) /\ side[s].attempt < maxRetries
    <3>1. m = [side[s] EXCEPT !.attempt = side[s].attempt + 1]
      BY <1>3, <2>2 DEF NextAttempt
    <3>2. side[s].attempt + 1 \in 0..maxRetries
      BY <1>1, <2>2, Records, Parameters
    <3> QED
      BY <1>1, <3>1, <3>2 DEF SideRecs
  <2>3. CASE ~Success(answer) /\ ~(side[s].attempt < maxRetries)
    <3>1. m = [side[s] EXCEPT !.pc = "nak"]
      BY <1>3, <2>3 DEF NextAttempt
    <3> QED
      BY <1>1, <3>1 DEF SideRecs, PCs
  <2> QED
    BY <2>1, <2>2, <2>3
<1>6. side' = [side EXCEPT ![s] = m]
  BY <1>3 DEF Become
<1>7. /\ Cardinality(Left(side', e)) + 1 <= Cardinality(Left(side, e))
      /\ \A d : Cardinality(Left(side', d)) <= Cardinality(Left(side, d))
  BY <1>1, <1>5, <1>6, Spends
<1> HIDE DEF e
<1>8. TypeOK'
  <2>1. side' \in [Sidecars -> SideRecs]
    BY <1>1, <1>5, <1>6
  <2>2. tries[e] + 1 \in Nat
    <3>1. tries[e] \in Nat
      BY <1>1, <1>2
    <3>2. \A n \in Nat : n + 1 \in Nat
      OBVIOUS
    <3> QED
      BY <3>1, <3>2
  <2>3. tries' \in [Events -> Nat]
    BY <1>1, <1>4, <2>2
  <2>4. answered \subseteq Events
    BY DEF IInv, TypeOK
  <2>5. answered' \subseteq Events
    BY <1>2, <1>4, <2>4
  <2> QED
    BY <1>4, <2>1, <2>3, <2>5 DEF IInv, TypeOK
<1>9. SideInv'
  <2>1. ASSUME NEW t \in Sidecars, t # s
        PROVE  /\ Holding(side'[t], subject', answered')
               /\ side'[t].pc \in {"post", "ack", "nak"} => msg'[side'[t].ev].st # "new"
    BY <1>1, <1>4, <1>6, <2>1 DEF IInv, SideInv, Holding
  <2>2. Holding(side'[s], subject', answered') /\ msg'[side'[s].ev].st # "new"
    BY <1>1, <1>2, <1>4, <1>5, <1>6 DEF Holding
  <2> QED
    BY <2>1, <2>2 DEF SideInv
<1>10. NewInv' /\ BoundInv'
  BY <1>1, <1>2, <1>4 DEF IInv, NewInv, BoundInv, Bound, Stored
<1>11. BudgetInv'
  <2> SUFFICES ASSUME NEW d \in Events
               PROVE  tries'[d] + Cardinality(Left(side', d)) <= msg[d].count * Budget
    BY <1>4 DEF BudgetInv
  <2>1. tries[d] + Cardinality(Left(side, d)) <= msg[d].count * Budget
    BY DEF IInv, BudgetInv
  <2>2. /\ tries[d] \in Nat /\ Cardinality(Left(side, d)) \in Nat
        /\ Cardinality(Left(side', d)) \in Nat /\ msg[d].count * Budget \in Nat
    BY <1>1, Records, LeftFinite, Parameters
  <2>3. \A t, l, k, b \in Nat : t + l <= b /\ k <= l => t + k <= b
    OBVIOUS
  <2>4. \A t, l, k, b \in Nat : t + l <= b /\ k + 1 <= l => (t + 1) + k <= b
    OBVIOUS
  <2>5. tries'[d] = IF d = e THEN tries[d] + 1 ELSE tries[d]
    BY <1>1, <1>4
  <2>6. CASE d = e
    BY <1>7, <2>1, <2>2, <2>4, <2>5, <2>6
  <2>7. CASE d # e
    BY <1>7, <2>1, <2>2, <2>3, <2>5, <2>7
  <2> QED
    BY <2>6, <2>7
<1> QED
  BY <1>8, <1>9, <1>10, <1>11 DEF IInv

\* A sidecar starts, stops, or acknowledges.
LEMMA SidecarStep ==
    ASSUME IInv, NEW s \in Sidecars, Start(s) \/ FetchFails(s) \/ Stop(s) \/ AckSync(s) \/ Nak(s)
    PROVE  IInv'
<1> DEFINE e == side[s].ev
<1>1. /\ msg \in [Events -> [st : MsgStates, count : 0..MaxDeliver]]
      /\ UNCHANGED <<subject, filter, usage, updates, tries, answered>>
  BY DEF IInv, TypeOK, Start, FetchFails, Stop, AckSync, Nak, server
<1>2. Become(s, Down) \/ Become(s, Fetching)
  BY DEF Start, FetchFails, Stop, AckSync, Nak
<1>3. \/ UNCHANGED msg
      \/ /\ AckSync(s) \/ Nak(s)
         /\ Bound /\ \E st \in MsgStates \ {"new"} : Mark(e, st)
  BY DEF Start, FetchFails, Stop, AckSync, Nak, server, MsgStates
<1>4. ASSUME AckSync(s) \/ Nak(s)
      PROVE  e \in Events /\ Stored(e)
  BY <1>4 DEF IInv, SideInv, Holding, AckSync, Nak, Stored
<1>5. /\ msg' \in [Events -> [st : MsgStates, count : 0..MaxDeliver]]
      /\ \A d \in Events : msg'[d] = msg[d] \/ (Stored(d) /\ Moves(msg[d], msg'[d]))
  <2>1. CASE UNCHANGED msg
    BY <1>1, <2>1
  <2>2. CASE (AckSync(s) \/ Nak(s)) /\ \E st \in MsgStates \ {"new"} : Mark(e, st)
    <3>0. PICK st \in MsgStates \ {"new"} : Mark(e, st)
      BY <2>2
    <3>1. msg' = [msg EXCEPT ![e] = [msg[e] EXCEPT !.st = st]]
      BY <3>0 DEF Mark
    <3>2. Moves(msg[e], [msg[e] EXCEPT !.st = st])
      BY <1>1, <1>4, <2>2, <3>0, Records
    <3> QED
      BY <1>1, <1>4, <2>2, <3>1, <3>2 DEF Moves
  <2> QED
    BY <1>3, <2>1, <2>2
<1>6. filter = {} => UNCHANGED msg
  BY <1>3 DEF Bound
<1> QED
  BY <1>1, <1>2, <1>5, <1>6, LetGo

\* Initially nothing is stored, delivered or called.
LEMMA InitInvariant == Init => IInv
<1> SUFFICES ASSUME Init PROVE IInv
  OBVIOUS
<1>1. TypeOK
  <2>1. \A u \in Usages : u.updates \in Nat
    BY DeliveryAssumption
  <2>2. side \in [Sidecars -> SideRecs]
    BY Records DEF Init
  <2>3. msg \in [Events -> [st : MsgStates, count : 0..MaxDeliver]]
    <3>1. [st |-> "new", count |-> 0] \in [st : MsgStates, count : 0..MaxDeliver]
      BY Parameters DEF MsgStates
    <3> QED
      BY <3>1 DEF Init
  <2>4. usage \in Usages /\ updates \in 0..usage.updates
    <3>1. usage \in Usages /\ updates = 0
      BY DEF Init
    <3> QED
      BY <2>1, <3>1
  <2> QED
    BY <2>2, <2>3, <2>4 DEF Init, TypeOK
<1>2. SideInv
  BY Records DEF Init, SideInv, Holding
<1>3. NewInv /\ BoundInv
  BY DEF Init, NewInv, BoundInv
<1>4. BudgetInv
  <2> SUFFICES ASSUME NEW e \in Events
               PROVE  tries[e] + Cardinality(Left(side, e)) <= msg[e].count * Budget
    BY DEF BudgetInv
  <2>1. Left(side, e) = {}
    BY Records DEF Init, Left
  <2>2. tries[e] = 0 /\ msg[e].count = 0
    BY DEF Init
  <2> QED
    BY <2>1, <2>2, FS_EmptySet, Parameters
<1> QED
  BY <1>1, <1>2, <1>3, <1>4 DEF IInv

\* Every step keeps the invariant.
LEMMA NextInvariant == IInv /\ [Next]_vars => IInv'
<1> SUFFICES ASSUME IInv, [Next]_vars PROVE IInv'
  OBVIOUS
<1>1. CASE UNCHANGED vars
  BY <1>1 DEF vars, IInv, TypeOK, SideInv, NewInv, BoundInv, BudgetInv, Bound, Stored
<1>2. ASSUME NEW subj \in Subjects, NEW e \in Events, Publish(e, subj) PROVE IInv'
  BY <1>2, PublishStep
<1>3. CASE (\E f \in SUBSET Subjects : EnsureConsumer(f)) \/ DeleteConsumer
  BY <1>3, OperatorStep
<1>4. ASSUME NEW e \in Events, Server(e) PROVE IInv'
  BY <1>4, ServerStep
<1>5. ASSUME NEW e \in Events, DeliverToNobody(e) \/ \E s \in Sidecars : Deliver(s, e) PROVE IInv'
  BY <1>5, DeliverStep
<1>6. ASSUME NEW s \in Sidecars, Start(s) \/ FetchFails(s) \/ Stop(s) \/ Work(s) PROVE IInv'
  BY <1>6, SidecarStep, AttemptStep DEF Work
<1> QED
  BY <1>1, <1>2, <1>3, <1>4, <1>5, <1>6 DEF Next

(* The invariant holds in every state. *)
THEOREM Invariance == Spec => []IInv
BY InitInvariant, NextInvariant, PTL DEF Spec

-----------------------------------------------------------------------------
(* Refinement: what each step is to the contract. *)

\* What has become of an event: its subject, its state at the consumer, and whether
\* there is one, decide it.
FateOf(subj, st, bound) ==
    IF subj = "" THEN "none"
    ELSE IF st = "new" THEN (IF bound THEN "due" ELSE "stored")
    ELSE IF st = "acked" THEN "done"
    ELSE IF st = "exceeded" THEN "given up"
    ELSE IF st = "passed" THEN "passed"
    ELSE "due"

\* The fate that the contract speaks of is FateOf.
LEMMA FateNow ==
    ASSUME NewInv
    PROVE  fate = [e \in Events |-> FateOf(subject[e], msg[e].st, Bound)]
BY DEF fate, FateOf, NewInv, Stored

\* The same of the next state.
LEMMA FateThen ==
    ASSUME NewInv'
    PROVE  fate' = [e \in Events |-> FateOf(subject'[e], msg'[e].st, Bound')]
BY DEF fate, FateOf, NewInv, Stored

\* The fate of some events changes.
LEMMA Becomes ==
    ASSUME NEW S, NEW new, NewInv',
           \A e \in Events : FateOf(subject'[e], msg'[e].st, Bound') = IF e \in S THEN new ELSE fate[e]
    PROVE  Contract!Become(S, new)
BY FateThen DEF Contract!Become

\* The fate of none changes.
LEMMA SameFate ==
    ASSUME NewInv, NewInv',
           \A e \in Events : FateOf(subject'[e], msg'[e].st, Bound') = FateOf(subject[e], msg[e].st, Bound)
    PROVE  fate' = fate
BY FateNow, FateThen

\* The consumer's view of one event changes, and its fate with it, or not.
LEMMA OneFate ==
    ASSUME NewInv, NewInv', NEW e \in Events, UNCHANGED <<subject, filter>>,
           \A d \in Events : d # e => msg'[d] = msg[d]
    PROVE  /\ Contract!Become({e}, FateOf(subject[e], msg'[e].st, Bound))
           /\ FateOf(subject[e], msg'[e].st, Bound) = FateOf(subject[e], msg[e].st, Bound) => fate' = fate
<1>1. Bound' = Bound
  BY DEF Bound
<1>2. \A d \in Events : FateOf(subject'[d], msg'[d].st, Bound') =
          IF d \in {e} THEN FateOf(subject[e], msg'[e].st, Bound) ELSE fate[d]
  BY <1>1, FateNow
<1>3. Contract!Become({e}, FateOf(subject[e], msg'[e].st, Bound))
  BY <1>2, Becomes
<1>4. FateOf(subject[e], msg'[e].st, Bound) = FateOf(subject[e], msg[e].st, Bound) => fate' = fate
  BY <1>1, SameFate
<1> QED
  BY <1>3, <1>4

\* What creating and deleting the consumer are to the fates.
LEMMA CreatedFate ==
    \A subj, st : st \in MsgStates \ {"pending", "again"} =>
       FateOf(subj, IF subj # "" /\ st = "new" THEN "passed" ELSE st, TRUE) =
           IF FateOf(subj, st, FALSE) = "stored" THEN "passed" ELSE FateOf(subj, st, FALSE)
BY DEF FateOf, MsgStates
\* The same for a consumer that is deleted.
LEMMA RemovedFate ==
    \A subj, st : st \in MsgStates =>
       FateOf(subj, IF subj # "" /\ st \in {"new", "pending", "again"} THEN "passed" ELSE st, FALSE) =
           IF FateOf(subj, st, TRUE) = "due" THEN "passed" ELSE FateOf(subj, st, TRUE)
BY DEF FateOf, MsgStates

\* Nothing the contract speaks of changes.
LEMMA Stutter ==
    ASSUME fate' = fate, UNCHANGED <<tries, answered>>
    PROVE  [Contract!Next]_(Contract!vars)
BY DEF Contract!vars

\* The stream, and the operator.
LEMMA StreamSteps ==
    ASSUME TypeOK, NewInv, NewInv', BoundInv,
           \/ \E subj \in Subjects, e \in Events : Publish(e, subj)
           \/ \E f \in SUBSET Subjects : EnsureConsumer(f)
           \/ DeleteConsumer
    PROVE  [Contract!Next]_(Contract!vars)
<1>0. /\ subject \in [Events -> Subjects \cup {""}]
      /\ msg \in [Events -> [st : MsgStates, count : 0..MaxDeliver]]
  BY DEF TypeOK
<1>1. ASSUME NEW subj \in Subjects, NEW e \in Events, Publish(e, subj)
      PROVE  [Contract!Next]_(Contract!vars)
  <2>1. /\ subject[e] = "" /\ subject' = [subject EXCEPT ![e] = subj]
        /\ UNCHANGED <<filter, msg, tries, answered>>
    BY <1>1 DEF Publish, Stored
  <2>2. Bound' = Bound
    BY <2>1 DEF Bound
  <2>3. msg[e].st = "new" /\ fate[e] = "none"
    BY <2>1, FateNow DEF NewInv, Stored, FateOf
  <2>4. \A d \in Events : d # e => subject'[d] = subject[d]
    BY <1>0, <2>1
  <2>6. \A d \in Events : d # e => FateOf(subject'[d], msg'[d].st, Bound') = fate[d]
    BY <2>1, <2>2, <2>4, FateNow
  <2>7. FateOf(subject'[e], msg'[e].st, Bound') \in {"none", "due", "stored"}
    BY <2>1, <2>3 DEF FateOf
  <2>8. ASSUME NEW new, FateOf(subject'[e], msg'[e].st, Bound') = new
        PROVE  Contract!Become({e}, new)
    BY <2>6, <2>8, Becomes
  <2>9. CASE FateOf(subject'[e], msg'[e].st, Bound') = "none"
    <3>1. \A d \in Events : FateOf(subject'[d], msg'[d].st, Bound') = fate[d]
      BY <2>3, <2>6, <2>9
    <3>2. fate' = fate
      BY <3>1, FateNow, FateThen
    <3> QED
      BY <2>1, <3>2, Stutter
  <2>10. CASE FateOf(subject'[e], msg'[e].st, Bound') \in {"due", "stored"}
    <3>1. Contract!Publish(e)
      BY <2>1, <2>3, <2>8, <2>10 DEF Contract!Publish
    <3> QED
      BY <3>1 DEF Contract!Next
  <2> QED
    BY <2>7, <2>9, <2>10
<1>2. ASSUME NEW f \in SUBSET Subjects, EnsureConsumer(f)
      PROVE  [Contract!Next]_(Contract!vars)
  <2>1. /\ f # {} /\ filter' = f /\ UNCHANGED <<subject, tries, answered>>
        /\ msg' = [e \in Events |-> IF ~Bound /\ Stored(e) /\ msg[e].st = "new"
                                    THEN [msg[e] EXCEPT !.st = "passed"] ELSE msg[e]]
    BY <1>2 DEF EnsureConsumer
  <2>2. Bound'
    BY <2>1 DEF Bound
  <2>3. CASE Bound
    <3>1. \A e \in Events : msg'[e] = msg[e]
      BY <2>1, <2>3
    <3>2. \A e \in Events :
             FateOf(subject'[e], msg'[e].st, Bound') = FateOf(subject[e], msg[e].st, Bound)
      BY <2>1, <2>2, <2>3, <3>1
    <3>3. fate' = fate
      BY <3>2, SameFate
    <3> QED
      BY <2>1, <3>3, Stutter
  <2>4. CASE ~Bound
    <3>1. ASSUME NEW e \in Events
          PROVE  FateOf(subject'[e], msg'[e].st, Bound') =
                   IF e \in Contract!With("stored") THEN "passed" ELSE fate[e]
      <4>1. e \in Contract!With("stored") <=> fate[e] = "stored"
        BY DEF Contract!With
      <4>2. fate[e] = FateOf(subject[e], msg[e].st, FALSE)
        <5>1. Bound = FALSE
          BY <2>4 DEF Bound
        <5> QED
          BY <5>1, FateNow, Zenon
      <4>3. msg[e].st \in MsgStates \ {"pending", "again"}
        BY <1>0, <2>4 DEF BoundInv
      <4>4. msg'[e].st = IF Stored(e) /\ msg[e].st = "new" THEN "passed" ELSE msg[e].st
        BY <1>0, <2>1, <2>4
      <4>5. Bound' = TRUE /\ subject'[e] = subject[e]
        BY <2>1 DEF Bound
      <4>6. FateOf(subject'[e], msg'[e].st, Bound') =
               FateOf(subject[e], IF subject[e] # "" /\ msg[e].st = "new"
                                  THEN "passed" ELSE msg[e].st, TRUE)
        BY <4>4, <4>5, Zenon DEF Stored
      <4> QED
        BY <4>1, <4>2, <4>3, <4>6, CreatedFate, Zenon
    <3>2. Contract!Become(Contract!With("stored"), "passed")
      BY <3>1, Becomes
    <3> QED
      BY <2>1, <3>2 DEF Contract!Next, Contract!Created
  <2> QED
    BY <2>3, <2>4
<1>3. CASE DeleteConsumer
  <2>1. /\ Bound /\ filter' = {} /\ UNCHANGED <<subject, tries, answered>>
        /\ msg' = [e \in Events |-> IF Stored(e) /\ msg[e].st \in {"new", "pending", "again"}
                                    THEN [msg[e] EXCEPT !.st = "passed"] ELSE msg[e]]
    BY <1>3 DEF DeleteConsumer
  <2>2. ~Bound'
    BY <2>1 DEF Bound
  <2>3. ASSUME NEW e \in Events
        PROVE  FateOf(subject'[e], msg'[e].st, Bound') =
                 IF e \in Contract!With("due") THEN "passed" ELSE fate[e]
    <3>1. e \in Contract!With("due") <=> fate[e] = "due"
      BY DEF Contract!With
    <3>2. fate[e] = FateOf(subject[e], msg[e].st, TRUE)
      <4>1. Bound = TRUE
        BY <2>1 DEF Bound
      <4> QED
        BY <4>1, FateNow, Zenon
    <3>3. msg'[e].st = IF Stored(e) /\ msg[e].st \in {"new", "pending", "again"}
                       THEN "passed" ELSE msg[e].st
      BY <1>0, <2>1
    <3>4. msg[e].st \in MsgStates
      BY <1>0
    <3>5. Bound' = FALSE /\ subject'[e] = subject[e]
      BY <2>1 DEF Bound
    <3>6. FateOf(subject'[e], msg'[e].st, Bound') =
             FateOf(subject[e], IF subject[e] # "" /\ msg[e].st \in {"new", "pending", "again"}
                                THEN "passed" ELSE msg[e].st, FALSE)
      BY <3>3, <3>5, Zenon DEF Stored
    <3> QED
      BY <3>1, <3>2, <3>4, <3>6, RemovedFate, Zenon
  <2>4. Contract!Become(Contract!With("due"), "passed")
    BY <2>3, Becomes
  <2> QED
    BY <2>1, <2>4 DEF Contract!Next, Contract!Removed
<1> QED
  BY <1>1, <1>2, <1>3

\* The states of an event on its way are the same to the contract: it is due.
LEMMA DueFate ==
    ASSUME NewInv, BoundInv, NEW e \in Events, Stored(e) \/ msg[e].st # "new",
           msg[e].st \in {"pending", "again"} \/ (Bound /\ msg[e].st = "new")
    PROVE  fate[e] = "due" /\ Stored(e) /\ Bound
<1>1. subject[e] # "" /\ Stored(e) /\ Bound
  BY DEF NewInv, BoundInv, Stored
<1>2. Bound = TRUE
  BY <1>1 DEF Bound
<1>3. fate[e] = FateOf(subject[e], msg[e].st, TRUE)
  BY <1>2, FateNow, Zenon
<1> QED
  BY <1>1, <1>3 DEF FateOf

\* An event is moved on its way, or to an end.
LEMMA Moved ==
    ASSUME TypeOK, NewInv, NewInv', BoundInv, NEW e \in Events, Stored(e),
           msg[e].st \in {"pending", "again"} \/ (Bound /\ msg[e].st = "new"),
           UNCHANGED <<subject, filter>>, NEW rec, msg' = [msg EXCEPT ![e] = rec]
    PROVE  /\ rec.st \in {"pending", "again"} => fate' = fate
           /\ rec.st = "acked" => Contract!Become({e}, "done")
           /\ rec.st = "exceeded" => Contract!Become({e}, "given up")
           /\ rec.st = "passed" => Contract!Become({e}, "passed")
<1>1. msg'[e] = rec /\ \A d \in Events : d # e => msg'[d] = msg[d]
  BY DEF TypeOK
<1>2. subject[e] # ""
  BY DEF Stored
<1>3. fate[e] = "due" /\ fate[e] = FateOf(subject[e], msg[e].st, Bound)
  BY DueFate, FateNow
<1>4. /\ Contract!Become({e}, FateOf(subject[e], rec.st, Bound))
      /\ FateOf(subject[e], rec.st, Bound) = "due" => fate' = fate
  BY <1>1, <1>3, OneFate
<1>5. /\ rec.st \in {"pending", "again"} => FateOf(subject[e], rec.st, Bound) = "due"
      /\ rec.st = "acked" => FateOf(subject[e], rec.st, Bound) = "done"
      /\ rec.st = "exceeded" => FateOf(subject[e], rec.st, Bound) = "given up"
      /\ rec.st = "passed" => FateOf(subject[e], rec.st, Bound) = "passed"
  BY <1>2 DEF FateOf
<1> QED
  BY <1>4, <1>5

\* The server: it skips and gives up, and what else it does the contract does not see.
LEMMA ServerSteps ==
    ASSUME TypeOK, NewInv, NewInv', BoundInv, NEW e \in Events,
           Server(e) \/ DeliverToNobody(e) \/ \E s \in Sidecars : Deliver(s, e)
    PROVE  [Contract!Next]_(Contract!vars)
<1>1. CASE Skip(e)
  <2>1. Bound /\ Stored(e) /\ msg[e].st = "new" /\ UNCHANGED <<subject, filter, tries, answered>>
    BY <1>1 DEF Skip, FirstNew
  <2>2. msg' = [msg EXCEPT ![e] = [msg[e] EXCEPT !.st = "passed"]]
    BY <1>1 DEF Skip, Mark
  <2>3. [msg[e] EXCEPT !.st = "passed"].st = "passed"
    BY DEF TypeOK
  <2>4. Contract!Become({e}, "passed")
    BY <2>1, <2>2, <2>3, Moved
  <2>5. fate[e] = "due" /\ tries[e] = 0
    BY <2>1, DueFate DEF NewInv
  <2>6. Contract!Skip(e)
    BY <2>1, <2>4, <2>5 DEF Contract!Skip
  <2> QED
    BY <2>6 DEF Contract!Next
<1>2. CASE AckWait(e)
  <2>1. msg[e].st = "pending" /\ UNCHANGED <<subject, filter, tries, answered>>
    BY <1>2 DEF AckWait
  <2>2. msg' = [msg EXCEPT ![e] = [msg[e] EXCEPT !.st = "again"]]
    BY <1>2 DEF AckWait, Mark
  <2>3. [msg[e] EXCEPT !.st = "again"].st = "again"
    BY DEF TypeOK
  <2>4. Stored(e)
    BY <2>1 DEF NewInv
  <2>5. fate' = fate
    BY <2>1, <2>2, <2>3, <2>4, Moved
  <2> QED
    BY <2>1, <2>5, Stutter
<1>3. CASE Exceeded(e)
  <2>1. msg[e].st = "again" /\ UNCHANGED <<subject, filter, tries, answered>>
    BY <1>3 DEF Exceeded
  <2>2. msg' = [msg EXCEPT ![e] = [msg[e] EXCEPT !.st = "exceeded"]]
    BY <1>3 DEF Exceeded, Mark
  <2>3. [msg[e] EXCEPT !.st = "exceeded"].st = "exceeded"
    BY DEF TypeOK
  <2>4. Stored(e) /\ fate[e] = "due"
    BY <2>1, DueFate DEF NewInv
  <2>5. Contract!Become({e}, "given up")
    BY <2>1, <2>2, <2>3, <2>4, Moved
  <2>6. Contract!GiveUp(e)
    BY <2>1, <2>4, <2>5 DEF Contract!GiveUp
  <2> QED
    BY <2>6 DEF Contract!Next
<1>4. CASE DeliverToNobody(e) \/ \E s \in Sidecars : Deliver(s, e)
  <2>1. /\ Deliverable(e) /\ Send(e)
        /\ UNCHANGED <<subject, filter, tries, answered>>
    BY <1>4 DEF DeliverToNobody, Deliver
  <2>2. Bound /\ Stored(e) /\ msg[e].st \in {"new", "again"}
    BY <2>1 DEF Deliverable, FirstNew, NewInv
  <2>3. msg' = [msg EXCEPT ![e] = [st |-> "pending", count |-> msg[e].count + 1]]
    BY <2>1 DEF Send
  <2>4. [st |-> "pending", count |-> msg[e].count + 1].st = "pending"
    OBVIOUS
  <2>5. fate' = fate
    BY <2>1, <2>2, <2>3, <2>4, Moved
  <2> QED
    BY <2>1, <2>5, Stutter
<1> QED
  BY <1>1, <1>2, <1>3, <1>4 DEF Server

\* A call spends one of the attempts the deliveries so far allow.
LEMMA CallsBounded ==
    ASSUME IInv, IInv', NEW e \in Events, tries'[e] = tries[e] + 1, UNCHANGED msg
    PROVE  tries[e] < MaxDeliver * (maxRetries + 1)
<1>1. tries'[e] + Cardinality(Left(side', e)) <= msg[e].count * Budget
  BY DEF IInv, BudgetInv
<1>2. Cardinality(Left(side', e)) \in Nat
  BY LeftFinite DEF IInv, TypeOK
<1>3. tries[e] \in Nat /\ msg[e].count \in 0..MaxDeliver
  BY DEF IInv, TypeOK
<1>4. \A t, l, c, b, m \in Nat : c <= m /\ (t + 1) + l <= c * b => t < m * b
  <2> SUFFICES ASSUME NEW t \in Nat, NEW l \in Nat, NEW c \in Nat, NEW b \in Nat, NEW m \in Nat,
                      c <= m, (t + 1) + l <= c * b
               PROVE  t < m * b
    OBVIOUS
  <2>1. c * b <= m * b
    OBVIOUS
  <2>2. c * b \in Nat /\ m * b \in Nat
    OBVIOUS
  <2> QED
    BY <2>1, <2>2
<1>5. Budget \in Nat /\ MaxDeliver \in Nat /\ Budget = maxRetries + 1
  BY Parameters DEF Budget
<1>6. msg[e].count \in Nat /\ msg[e].count <= MaxDeliver
  BY <1>3, <1>5
<1>7. (tries[e] + 1) + Cardinality(Left(side', e)) <= msg[e].count * Budget
  BY <1>1
<1>8. tries[e] < MaxDeliver * Budget
  BY <1>2, <1>3, <1>4, <1>5, <1>6, <1>7
<1> QED
  BY <1>5, <1>8

\* The sidecars: a call, an acknowledgement of a call that succeeded, or nothing.
LEMMA SidecarSteps ==
    ASSUME IInv, IInv', NEW s \in Sidecars, Start(s) \/ FetchFails(s) \/ Stop(s) \/ Work(s)
    PROVE  [Contract!Next]_(Contract!vars)
<1> DEFINE e == side[s].ev
<1>0. /\ msg \in [Events -> [st : MsgStates, count : 0..MaxDeliver]]
      /\ tries \in [Events -> Nat]
      /\ TypeOK /\ NewInv /\ NewInv' /\ BoundInv
  BY DEF IInv, TypeOK
<1>1. ASSUME UNCHANGED <<subject, filter, msg>>
      PROVE  fate' = fate
  <2>1. Bound' = Bound
    BY <1>1 DEF Bound
  <2> QED
    BY <1>0, <1>1, <2>1, SameFate
<1>2. CASE Start(s) \/ FetchFails(s) \/ Stop(s)
  <2>1. UNCHANGED <<subject, filter, msg, tries, answered>>
    BY <1>2 DEF Start, FetchFails, Stop, server
  <2> QED
    BY <1>1, <2>1, Stutter
<1>3. ASSUME NEW answer \in Answers, processMessage(s, answer)
      PROVE  [Contract!Next]_(Contract!vars)
  <2>1. /\ side[s].pc = "post" /\ UNCHANGED <<subject, filter, msg>>
        /\ tries' = [tries EXCEPT ![e] = tries[e] + 1]
        /\ answered' \in {answered, answered \cup {e}}
    BY <1>3 DEF processMessage, server
  <2>2. e \in Events /\ Stored(e) /\ msg[e].st # "new"
    BY <2>1 DEF IInv, SideInv, Holding, Stored
  <2>3. fate' = fate
    BY <1>1, <2>1
  <2>4. tries'[e] = tries[e] + 1
    BY <1>0, <2>1, <2>2
  <2>5. tries[e] < MaxDeliver * (maxRetries + 1)
    BY <2>1, <2>2, <2>4, CallsBounded
  <2>6. fate[e] \notin {"none", "stored"}
    BY <1>0, <2>2, FateNow DEF FateOf, Stored
  <2>7. Contract!Call(e)
    BY <2>1, <2>2, <2>3, <2>5, <2>6 DEF Contract!Call
  <2> QED
    BY <2>2, <2>7 DEF Contract!Next
<1>4. CASE AckSync(s)
  <2>1. /\ side[s].pc = "ack" /\ UNCHANGED <<subject, filter, tries, answered>>
        /\ \/ UNCHANGED msg
           \/ /\ msg[e].st \in {"pending", "again"}
              /\ msg' = [msg EXCEPT ![e] = [msg[e] EXCEPT !.st = "acked"]]
    BY <1>4 DEF AckSync, Mark
  <2>2. e \in Events /\ e \in answered /\ Stored(e)
    BY <2>1 DEF IInv, SideInv, Holding, Stored
  <2>3. CASE UNCHANGED msg
    BY <1>1, <2>1, <2>3, Stutter
  <2>4. CASE /\ msg[e].st \in {"pending", "again"}
             /\ msg' = [msg EXCEPT ![e] = [msg[e] EXCEPT !.st = "acked"]]
    <3>1. [msg[e] EXCEPT !.st = "acked"].st = "acked"
      BY <1>0, <2>2
    <3>2. Contract!Become({e}, "done")
      BY <1>0, <2>1, <2>2, <2>4, <3>1, Moved
    <3>3. fate[e] = "due"
      BY <1>0, <2>2, <2>4, DueFate
    <3>4. Contract!Settle(e)
      BY <2>1, <2>2, <3>2, <3>3 DEF Contract!Settle
    <3> QED
      BY <2>2, <3>4 DEF Contract!Next
  <2> QED
    BY <2>1, <2>3, <2>4
<1>5. CASE Nak(s)
  <2>1. /\ side[s].pc = "nak" /\ UNCHANGED <<subject, filter, tries, answered>>
        /\ \/ UNCHANGED msg
           \/ /\ msg[e].st = "pending"
              /\ msg' = [msg EXCEPT ![e] = [msg[e] EXCEPT !.st = "again"]]
    BY <1>5 DEF Nak, Mark
  <2>2. e \in Events /\ Stored(e)
    BY <2>1 DEF IInv, SideInv, Holding, Stored
  <2>3. CASE UNCHANGED msg
    BY <1>1, <2>1, <2>3, Stutter
  <2>4. CASE /\ msg[e].st = "pending"
             /\ msg' = [msg EXCEPT ![e] = [msg[e] EXCEPT !.st = "again"]]
    <3>1. [msg[e] EXCEPT !.st = "again"].st = "again"
      BY <1>0, <2>2
    <3>2. fate' = fate
      BY <1>0, <2>1, <2>2, <2>4, <3>1, Moved
    <3> QED
      BY <2>1, <3>2, Stutter
  <2> QED
    BY <2>1, <2>3, <2>4
<1> QED
  BY <1>2, <1>3, <1>4, <1>5 DEF Work

\* Every step is one of the contract's, or nothing to it.
LEMMA StepContract == IInv /\ IInv' /\ [Next]_vars => [Contract!Next]_(Contract!vars)
<1> SUFFICES ASSUME IInv, IInv', [Next]_vars PROVE [Contract!Next]_(Contract!vars)
  OBVIOUS
<1>0. TypeOK /\ NewInv /\ NewInv' /\ BoundInv
  BY DEF IInv
<1>1. CASE UNCHANGED vars
  <2>1. UNCHANGED <<subject, filter, msg, tries, answered>>
    BY <1>1 DEF vars
  <2>2. Bound' = Bound
    BY <2>1 DEF Bound
  <2>3. fate' = fate
    BY <1>0, <2>1, <2>2, SameFate
  <2> QED
    BY <2>1, <2>3, Stutter
<1>2. CASE \/ \E subj \in Subjects, e \in Events : Publish(e, subj)
           \/ \E f \in SUBSET Subjects : EnsureConsumer(f)
           \/ DeleteConsumer
  BY <1>0, <1>2, StreamSteps
<1>3. ASSUME NEW e \in Events, Server(e) \/ DeliverToNobody(e) \/ \E s \in Sidecars : Deliver(s, e)
      PROVE  [Contract!Next]_(Contract!vars)
  BY <1>0, <1>3, ServerSteps
<1>4. ASSUME NEW s \in Sidecars, Start(s) \/ FetchFails(s) \/ Stop(s) \/ Work(s)
      PROVE  [Contract!Next]_(Contract!vars)
  BY <1>4, SidecarSteps
<1> QED
  BY <1>1, <1>2, <1>3, <1>4 DEF Next

\* The initial states are the contract's.
LEMMA InitContract == Init => Contract!Init
<1> SUFFICES ASSUME Init PROVE Contract!Init
  OBVIOUS
<1>1. NewInv
  BY DEF Init, NewInv, Stored
<1>2. \A e \in Events : fate[e] = "none"
  BY <1>1, FateNow DEF Init, FateOf
<1>3. fate = [e \in Events |-> "none"]
  BY <1>1, <1>2, FateNow
<1> QED
  BY <1>3 DEF Init, Contract!Init

(* The variables have their types.                                         *)
THEOREM TypeCorrect == Spec => []TypeOK
<1>1. IInv => TypeOK
  BY DEF IInv
<1> QED
  BY <1>1, Invariance, PTL

(* EventDelivery implements EventContract (property ImplementsContract).   *)
THEOREM ContractImplemented == Spec => ImplementsContract
BY InitInvariant, NextInvariant, InitContract, StepContract, PTL
   DEF Spec, ImplementsContract, Contract!Spec
================================================================================
