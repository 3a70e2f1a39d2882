-------------------------- MODULE ObjectStorageProofs --------------------------
(***************************************************************************)
(* Theorems about ObjectStorage and the TenantPools it runs on, for every  *)
(* number of requests, connections and pools: the types, with the count of *)
(* the connections in use; no pool is lost; and the object store, the row  *)
(* and the event agree on the last write that nothing met.                 *)
(*                                                                         *)
(* Pools: the callers that wait for a creation are those in the flight,    *)
(* one of them runs it, and the map has no entry while it does.  Requests: *)
(* a writer that is not in overlap is the only one, and what it has        *)
(* written so far is still there.                                          *)
(***************************************************************************)
EXTENDS ObjectStorage, FiniteSetTheorems, TLAPS

-----------------------------------------------------------------------------
(* The invariant of the pools. *)

\* The callers with a connection of a pool.
InTxOf(cl, p) == {c \in Callers : cl[c] = At("tx", p)}

\* Who waits for a creation, and who runs it.
Creators == {"check", "create", "store"}
Waiters == Creators \cup {"join"}
FlightInv ==
    /\ flight = {c \in Callers : caller[c].pc \in Waiters}
    /\ \A c, d \in Callers : caller[c].pc \in Creators /\ caller[d].pc \in Creators => c = d
    /\ \A c \in Callers : caller[c].pc \in {"create", "store"} => entry = 0

\* Pools are numbered as they are made, and the one that closes is not open.
MadeInv ==
    /\ entry <= made
    /\ \A c \in Callers : caller[c].pool <= made /\ (caller[c].pc = "tx" => caller[c].pool # 0)
    /\ mu = "closing" => entry \notin open

PoolsInv == PoolsTypeOK /\ FlightInv /\ MadeInv /\ NoPoolLost

-----------------------------------------------------------------------------
(* The invariant of the requests. *)

\* A request outside its transactions is not in the pools; the steps of each operation.
PlaceInv == \A r \in Requests :
    /\ req[r].at \in Steps \ (TxSteps \cup {"drop"}) => caller[r] = Out
    /\ req[r].at = "put" => req[r].op = "Upload"
    /\ req[r].at = "erase" => req[r].op = "DeleteObject"
    /\ req[r].at = "head" => req[r].op = "UploadComplete"
    /\ req[r].at = "publish" => req[r].op \in ObjectOps
    /\ req[r].op = "DeleteObject" => req[r].content = 0

\* URLs come from requests that are done.
UrlsInv == urls <= Cardinality({r \in Requests : req[r].at = "done"})

\* Writers that meet are in overlap; what one that met none has written is there.
WritersInv ==
    /\ \A r, q \in Writers : r # q => r \in overlap
    /\ \A r \in Writers \ overlap :
          /\ req[r].at \in {"write", "publish"} => bytes = req[r].content
          /\ req[r].at = "publish" => row = req[r].content
\* Once a write is acknowledged, the next one makes it unknown; only a bucket that has
\* no object may be about to go.
AckedInv == acked.known => \A r \in Writers : req[r].at = "drop" /\ row = 0

IInv == PoolsInv /\ TypeOK /\ PlaceInv /\ UrlsInv /\ WritersInv /\ AckedInv /\ ViewsAgree

-----------------------------------------------------------------------------
(* Facts about the parameters and the states of a caller. *)

\* The parameters are finite sets and numbers; a request is a caller.
LEMMA Parameters ==
    /\ IsFiniteSet(Callers) /\ IsFiniteSet(Requests) /\ Callers = Requests
    /\ MaxConns \in Nat /\ MaxConns # 0 /\ MaxPools \in Nat /\ MaxRequests \in Nat
BY PoolsAssumption, StorageAssumption

\* The fields of a caller, and what it is in.
LEMMA AtFields ==
    ASSUME NEW pc, NEW p
    PROVE  At(pc, p).pc = pc /\ At(pc, p).pool = p
BY DEF At

\* A state of a caller has its type.
LEMMA AtTyped ==
    ASSUME NEW pc \in CallerPCs, NEW p \in 0..MaxPools
    PROVE  At(pc, p) \in [pc : CallerPCs, pool : 0..MaxPools]
BY DEF At

\* A caller that is in a transaction is in that of one pool.
LEMMA AtTx ==
    ASSUME NEW x \in [pc : CallerPCs, pool : 0..MaxPools], NEW p
    PROVE  x = At("tx", p) <=> x.pc = "tx" /\ x.pool = p
<1>1. x = [pc |-> x.pc, pool |-> x.pool]
  OBVIOUS
<1> QED
  BY <1>1 DEF At

\* Where a caller is before and after a call of WithRLS.
LEMMA OutAndCalling ==
    /\ Out \in [pc : CallerPCs, pool : 0..MaxPools] /\ Out.pc = "out" /\ Out.pool = 0
    /\ Calling \in [pc : CallerPCs, pool : 0..MaxPools] /\ Calling.pc = "get" /\ Calling.pool = 0
BY Parameters DEF Out, Calling, At, CallerPCs

\* The callers in a transaction: finite; unchanged, one more, one less.
LEMMA TxFinite ==
    ASSUME NEW cl, NEW p
    PROVE  IsFiniteSet(InTxOf(cl, p)) /\ Cardinality(InTxOf(cl, p)) \in Nat
<1>1. InTxOf(cl, p) \subseteq Callers
  BY DEF InTxOf
<1> QED
  BY <1>1, Parameters, FS_Subset, FS_CardinalityType

\* No caller enters or leaves a transaction on the pool.
LEMMA TxSame ==
    ASSUME NEW old, NEW new, NEW p,
           \A c \in Callers : new[c] = At("tx", p) <=> old[c] = At("tx", p)
    PROVE  InTxOf(new, p) = InTxOf(old, p)
BY DEF InTxOf

\* One caller enters a transaction on the pool.
LEMMA TxMore ==
    ASSUME NEW old, NEW new, NEW p, NEW c \in Callers,
           new[c] = At("tx", p), old[c] # At("tx", p),
           \A d \in Callers : d # c => new[d] = old[d]
    PROVE  Cardinality(InTxOf(new, p)) = Cardinality(InTxOf(old, p)) + 1
<1>1. InTxOf(new, p) = InTxOf(old, p) \cup {c} /\ c \notin InTxOf(old, p)
  BY DEF InTxOf
<1> QED
  BY <1>1, TxFinite, FS_AddElement

\* One caller leaves a transaction on the pool.
LEMMA TxLess ==
    ASSUME NEW old, NEW new, NEW p, NEW c \in Callers,
           old[c] = At("tx", p), new[c] # At("tx", p),
           \A d \in Callers : d # c => new[d] = old[d]
    PROVE  Cardinality(InTxOf(new, p)) = Cardinality(InTxOf(old, p)) - 1
<1>1. InTxOf(new, p) = InTxOf(old, p) \ {c} /\ c \in InTxOf(old, p)
  BY DEF InTxOf
<1> QED
  BY <1>1, TxFinite, FS_RemoveElement

-----------------------------------------------------------------------------
(* The steps of the pools. *)

\* PoolsTypeOK without the count of the connections, and that count.
PoolsTypes ==
    /\ entry \in 0..MaxPools /\ idle \in BOOLEAN /\ open \subseteq 1..made /\ made \in 0..MaxPools
    /\ conns \in [Pools -> 0..MaxConns] /\ mu \in {"free", "closing"} /\ stopped \in BOOLEAN
    /\ flight \subseteq Callers /\ caller \in [Callers -> [pc : CallerPCs, pool : 0..MaxPools]]
CountInv == \A p \in Pools : conns[p] = Cardinality(InTxOf(caller, p))

\* The two parts are PoolsTypeOK.
LEMMA TypesAndCount == PoolsTypeOK <=> PoolsTypes /\ CountInv
BY Zenon DEF PoolsTypeOK, PoolsTypes, CountInv, InTxOf

\* The same of the next state.
LEMMA TypesAndCountThen == PoolsTypeOK' <=> PoolsTypes' /\ CountInv'
BY Zenon DEF PoolsTypeOK, PoolsTypes, CountInv, InTxOf

\* NoPoolLost, of each pool.
Known1(q, ent, cl) == q = ent \/ \E d \in Callers : cl[d].pc = "store" /\ cl[d].pool = q
\* It is NoPoolLost.
LEMMA PoolsKnown == NoPoolLost <=> stopped \/ \A q \in open : Known1(q, entry, caller)
BY Zenon DEF NoPoolLost, Known1

\* The same of the next state.
LEMMA PoolsKnownThen == NoPoolLost' <=> stopped' \/ \A q \in open' : Known1(q, entry', caller')
BY Zenon DEF NoPoolLost, Known1

\* The parts of the invariant at a caller that runs a creation: the entry is free, and no
\* other caller runs one.
LEMMA TheCreator ==
    ASSUME FlightInv, NEW c \in Callers, caller[c].pc \in Creators
    PROVE  /\ c \in flight
           /\ caller[c].pc \in {"create", "store"} => entry = 0
           /\ \A d \in Callers : caller[d].pc \in Creators => d = c
BY DEF FlightInv, Waiters

\* A caller moves outside the creation and outside transactions.
LEMMA CallerMoves ==
    ASSUME PoolsInv, NEW c \in Callers, NEW rec \in [pc : CallerPCs, pool : 0..MaxPools],
           caller' = [caller EXCEPT ![c] = rec], rec.pool <= made,
           caller[c].pc \notin Waiters \cup {"tx"}, rec.pc \notin Waiters \cup {"tx"},
           UNCHANGED <<entry, open, made, conns, mu, stopped, flight>>, idle' \in BOOLEAN
    PROVE  PoolsInv'
<1>1. PoolsTypes /\ CountInv /\ FlightInv /\ MadeInv /\ NoPoolLost
  BY TypesAndCount DEF PoolsInv
<1>2. /\ caller \in [Callers -> [pc : CallerPCs, pool : 0..MaxPools]]
      /\ caller'[c] = rec /\ \A d \in Callers : d # c => caller'[d] = caller[d]
  BY <1>1 DEF PoolsTypes
<1>3. PoolsTypes'
  BY <1>1 DEF PoolsTypes
<1>4. CountInv'
  <2> SUFFICES ASSUME NEW p \in Pools PROVE conns'[p] = Cardinality(InTxOf(caller', p))
    BY DEF CountInv
  <2>1. \A d \in Callers : caller'[d] = At("tx", p) <=> caller[d] = At("tx", p)
    BY <1>2, AtFields
  <2>2. InTxOf(caller', p) = InTxOf(caller, p)
    BY <2>1, TxSame
  <2>3. conns[p] = Cardinality(InTxOf(caller, p)) /\ conns' = conns
    BY <1>1 DEF CountInv
  <2> QED
    BY <2>2, <2>3
<1>5. FlightInv'
  BY <1>1, <1>2 DEF FlightInv, Waiters, Creators
<1>6. MadeInv'
  BY <1>1, <1>2 DEF MadeInv
<1>7. NoPoolLost'
  <2>1. ASSUME NEW q, Known1(q, entry, caller) PROVE Known1(q, entry', caller')
    BY <1>2, <2>1 DEF Known1, Waiters, Creators
  <2> QED
    BY <1>1, <2>1, PoolsKnown, PoolsKnownThen
<1> QED
  BY <1>3, <1>4, <1>5, <1>6, <1>7, TypesAndCountThen DEF PoolsInv

\* A creation ends for all its callers, and no pool is left to one that stores it.
LEMMA LandStep ==
    ASSUME PoolsInv, NEW pc \in {"begin", "err"}, NEW p \in 0..made, Land(pc, p),
           UNCHANGED <<open, made, conns, mu, stopped>>, idle' \in BOOLEAN,
           entry' \in 0..made, mu = "closing" => entry' = entry,
           stopped \/ open \subseteq {entry'}
    PROVE  PoolsInv'
<1>1. PoolsTypes /\ CountInv /\ FlightInv /\ MadeInv /\ NoPoolLost
  BY TypesAndCount DEF PoolsInv
<1>2. /\ flight' = {}
      /\ \A d \in Callers : caller'[d] = IF d \in flight THEN At(pc, p) ELSE caller[d]
      /\ caller' = [d \in Callers |-> IF d \in flight THEN At(pc, p) ELSE caller[d]]
  BY DEF Land
<1>3. \A d \in Callers : d \in flight <=> caller[d].pc \in Waiters
  BY <1>1 DEF FlightInv
<1>4. p \in 0..MaxPools /\ entry' \in 0..MaxPools /\ pc \in CallerPCs
  BY <1>1, Parameters DEF PoolsTypes, CallerPCs
<1>5. At(pc, p) \in [pc : CallerPCs, pool : 0..MaxPools] /\ At(pc, p).pc = pc /\ At(pc, p).pool = p
  BY <1>4, AtTyped, AtFields
<1>6. PoolsTypes'
  BY <1>1, <1>2, <1>4, <1>5 DEF PoolsTypes
<1>7. CountInv'
  <2> SUFFICES ASSUME NEW q \in Pools PROVE conns'[q] = Cardinality(InTxOf(caller', q))
    BY DEF CountInv
  <2>1. \A d \in Callers : caller'[d] = At("tx", q) <=> caller[d] = At("tx", q)
    BY <1>2, <1>3, <1>5, AtFields DEF Waiters, Creators
  <2>2. InTxOf(caller', q) = InTxOf(caller, q)
    BY <2>1, TxSame
  <2>3. conns[q] = Cardinality(InTxOf(caller, q)) /\ conns' = conns
    BY <1>1 DEF CountInv
  <2> QED
    BY <2>2, <2>3
<1>8. \A d \in Callers : caller'[d].pc \notin Waiters
  BY <1>2, <1>3, <1>5 DEF Waiters, Creators
<1>9. FlightInv'
  BY <1>2, <1>8 DEF FlightInv, Waiters, Creators
<1>10. MadeInv'
  <2>1. entry' <= made' /\ (mu' = "closing" => entry' \notin open')
    BY <1>1, Parameters DEF MadeInv, PoolsTypes
  <2>2. \A d \in Callers : caller'[d].pool <= made'
    BY <1>1, <1>2, <1>5, Parameters DEF MadeInv, PoolsTypes
  <2>3. \A d \in Callers : caller'[d].pc = "tx" => caller'[d].pool # 0
    BY <1>1, <1>2, <1>5 DEF MadeInv
  <2> QED
    BY <2>1, <2>2, <2>3 DEF MadeInv
<1>11. NoPoolLost'
  BY PoolsKnownThen DEF Known1
<1> QED
  BY <1>6, <1>7, <1>9, <1>10, <1>11, TypesAndCountThen DEF PoolsInv

\* The one step into the creation, or in it.
LEMMA CreationStep ==
    ASSUME PoolsInv, NEW c \in Callers, NEW rec \in [pc : CallerPCs, pool : 0..MaxPools],
           caller' = [caller EXCEPT ![c] = rec], rec.pool <= made',
           caller[c].pc \in {"do", "check", "create"}, rec.pc \in Waiters,
           flight' = flight \cup {c},
           rec.pc \in Creators => \A d \in Callers : caller[d].pc \in Creators => d = c,
           rec.pc \in {"create", "store"} => entry = 0,
           made' \in {made, made + 1}, made' <= MaxPools,
           open' = IF made' = made THEN open ELSE open \cup {made'},
           made' # made => rec.pc = "store" /\ rec.pool = made',
           UNCHANGED <<entry, idle, conns, mu, stopped>>
    PROVE  PoolsInv'
<1>1. PoolsTypes /\ CountInv /\ FlightInv /\ MadeInv /\ NoPoolLost
  BY TypesAndCount DEF PoolsInv
<1>2. /\ caller \in [Callers -> [pc : CallerPCs, pool : 0..MaxPools]]
      /\ caller'[c] = rec /\ \A d \in Callers : d # c => caller'[d] = caller[d]
  BY <1>1 DEF PoolsTypes
<1>3. made \in Nat /\ made' \in 0..MaxPools /\ made <= made' /\ entry \in Nat /\ entry <= made
  BY <1>1, Parameters DEF PoolsTypes, MadeInv
<1>4. PoolsTypes'
  <2>1. open' \subseteq 1..made'
    BY <1>1, <1>3 DEF PoolsTypes
  <2> QED
    BY <1>1, <1>3, <2>1 DEF PoolsTypes
<1>5. CountInv'
  <2> SUFFICES ASSUME NEW p \in Pools PROVE conns'[p] = Cardinality(InTxOf(caller', p))
    BY DEF CountInv
  <2>1. \A d \in Callers : caller'[d] = At("tx", p) <=> caller[d] = At("tx", p)
    BY <1>2, AtFields DEF Waiters, Creators
  <2>2. InTxOf(caller', p) = InTxOf(caller, p)
    BY <2>1, Zenon DEF InTxOf
  <2>3. conns[p] = Cardinality(InTxOf(caller, p)) /\ conns' = conns
    BY <1>1 DEF CountInv
  <2> QED
    BY <2>2, <2>3
<1>6. FlightInv'
  BY <1>1, <1>2 DEF FlightInv, Waiters, Creators
<1>7. MadeInv'
  <2>1. \A d \in Callers : caller[d].pool <= made /\ caller[d].pool \in Nat
    BY <1>1, Parameters DEF MadeInv, PoolsTypes
  <2>2. \A d \in Callers : caller'[d].pool <= made'
    BY <1>2, <1>3, <2>1
  <2>3. \A d \in Callers : caller'[d].pc = "tx" => caller'[d].pool # 0
    BY <1>1, <1>2 DEF MadeInv, Waiters, Creators
  <2>4. entry' <= made'
    BY <1>3
  <2>5. made' # made => made' = made + 1
    OBVIOUS
  <2>6. made' # made => made' # entry
    BY <1>3, <2>5
  <2>7. mu' = "closing" => entry' \notin open'
    BY <1>1, <2>6 DEF MadeInv
  <2> QED
    BY <2>2, <2>3, <2>4, <2>7 DEF MadeInv
<1>8. NoPoolLost'
  <2>1. ASSUME NEW q, Known1(q, entry, caller) PROVE Known1(q, entry', caller')
    BY <1>2, <2>1 DEF Known1
  <2>2. made' # made => Known1(made', entry', caller')
    BY <1>2 DEF Known1
  <2>3. \A q \in open' : q \in open \/ (made' # made /\ q = made')
    OBVIOUS
  <2> QED
    BY <1>1, <2>1, <2>2, <2>3, PoolsKnown, PoolsKnownThen
<1> QED
  BY <1>4, <1>5, <1>6, <1>7, <1>8, TypesAndCountThen DEF PoolsInv

\* A step of a call of WithRLS, up to its transaction.
LEMMA CallerStepKeeps ==
    ASSUME PoolsInv, NEW c \in Callers, CallerStep(c)
    PROVE  PoolsInv'
<1>1. PoolsTypes /\ CountInv /\ FlightInv /\ MadeInv /\ NoPoolLost
  BY TypesAndCount DEF PoolsInv
<1>2. /\ made \in Nat /\ made \in 0..MaxPools /\ entry \in 0..made /\ 0 \in 0..MaxPools
      /\ entry \in 0..MaxPools /\ 0 <= made /\ 0 \in 0..made /\ entry <= made
  BY <1>1, Parameters DEF PoolsTypes, MadeInv
<1>3. /\ \A pc \in CallerPCs, p \in 0..MaxPools : At(pc, p) \in [pc : CallerPCs, pool : 0..MaxPools]
      /\ \A pc, p : At(pc, p).pc = pc /\ At(pc, p).pool = p
  BY AtTyped, AtFields
<1>4. /\ caller \in [Callers -> [pc : CallerPCs, pool : 0..MaxPools]] /\ idle \in BOOLEAN
      /\ caller[c] \in [pc : CallerPCs, pool : 0..MaxPools]
  BY <1>1 DEF PoolsTypes
<1>5. caller[c].pool \in 0..made
  BY <1>1, <1>4, <1>2 DEF MadeInv
<1>6. {"begin", "do", "check", "join", "create", "store", "err", "tx"} \subseteq CallerPCs
  BY DEF CallerPCs
<1>7. NoPoolLost <=> stopped \/ \A q \in open : Known1(q, entry, caller)
  BY PoolsKnown
<1>8. CASE GetPool(c)
  <2>1. /\ caller[c].pc = "get" /\ idle' \in BOOLEAN
        /\ UNCHANGED <<entry, open, made, conns, mu, stopped, flight>>
    BY <1>4, <1>8 DEF GetPool
  <2>2. \/ caller' = [caller EXCEPT ![c] = At("begin", entry)]
        \/ caller' = [caller EXCEPT ![c] = At("do", 0)]
    BY <1>8 DEF GetPool, Become
  <2>3. \E rec \in {At("begin", entry), At("do", 0)} : caller' = [caller EXCEPT ![c] = rec]
    BY <2>2
  <2>4. PICK rec \in {At("begin", entry), At("do", 0)} : caller' = [caller EXCEPT ![c] = rec]
    BY <2>3
  <2>5. /\ rec \in [pc : CallerPCs, pool : 0..MaxPools] /\ rec.pool <= made
        /\ rec.pc \in {"begin", "do"}
    BY <1>2, <1>3, <1>6, <2>4
  <2>6. {"get", "begin", "do"} \cap (Waiters \cup {"tx"}) = {}
    BY DEF Waiters, Creators
  <2> QED
    BY <2>1, <2>4, <2>5, <2>6, CallerMoves
<1>9. CASE BeginFails(c)
  <2>1. /\ caller[c].pc = "begin" /\ caller' = [caller EXCEPT ![c] = At("err", 0)]
        /\ UNCHANGED <<entry, open, made, conns, mu, stopped, flight>> /\ idle' \in BOOLEAN
    BY <1>4, <1>9 DEF BeginFails, Become, pools
  <2>2. {"begin", "err"} \cap (Waiters \cup {"tx"}) = {}
    BY DEF Waiters, Creators
  <2>3. /\ At("err", 0) \in [pc : CallerPCs, pool : 0..MaxPools]
        /\ At("err", 0).pool <= made /\ At("err", 0).pc = "err"
    BY <1>2, <1>3, <1>6
  <2> QED
    BY <2>1, <2>2, <2>3, CallerMoves
<1>10. CASE Do(c)
  <2>1. /\ caller[c].pc = "do" /\ flight' = flight \cup {c}
        /\ caller' = [caller EXCEPT ![c] = At(IF flight = {} THEN "check" ELSE "join", 0)]
        /\ UNCHANGED <<entry, idle, open, made, conns, mu, stopped>>
    BY <1>10 DEF Do, Become, pools
  <2> DEFINE pc == IF flight = {} THEN "check" ELSE "join"
             rec == At(pc, 0)
  <2>2. pc \in CallerPCs /\ pc \in Waiters /\ pc \notin {"create", "store"}
    BY <1>6 DEF Waiters, Creators
  <2>3. pc \in Creators => flight = {}
    BY DEF Creators
  <2>4. pc \in Creators => \A d \in Callers : caller[d].pc \notin Creators
    BY <1>1, <2>3 DEF FlightInv, Waiters
  <2>5. rec \in [pc : CallerPCs, pool : 0..MaxPools] /\ rec.pc = pc /\ rec.pool = 0
    BY <1>2, <1>3, <2>2
  <2>6. caller' = [caller EXCEPT ![c] = rec]
    BY <2>1
  <2>7. made' = made /\ open' = open /\ made <= MaxPools
    BY <1>2, <2>1, Parameters
  <2> HIDE DEF rec, pc
  <2> QED
    BY <1>2, <2>1, <2>2, <2>4, <2>5, <2>6, <2>7, CreationStep
<1>11. CASE CheckAgain(c)
  <2>1. /\ caller[c].pc = "check" /\ mu = "free"
        /\ UNCHANGED <<entry, open, made, conns, mu, stopped>>
    BY <1>11 DEF CheckAgain
  <2>2. \A d \in Callers : caller[d].pc \in Creators => d = c
    BY <1>1, <2>1, TheCreator DEF Creators
  <2>3. CASE entry # 0
    <3>1. Land("begin", entry) /\ idle' \in BOOLEAN
      BY <1>11, <2>3 DEF CheckAgain, Cached
    <3>2. stopped \/ open \subseteq {entry}
      BY <1>1, <1>7, <2>1, <2>2 DEF Known1, Creators
    <3> QED
      BY <1>2, <2>1, <3>1, <3>2, LandStep
  <2>4. CASE entry = 0
    <3>1. caller' = [caller EXCEPT ![c] = At("create", 0)] /\ UNCHANGED <<flight, idle>>
      BY <1>11, <2>4 DEF CheckAgain, Cached, Become
    <3>2. c \in flight
      BY <1>1, <2>1, TheCreator DEF Creators
    <3>3. /\ At("create", 0) \in [pc : CallerPCs, pool : 0..MaxPools]
          /\ At("create", 0).pc = "create" /\ At("create", 0).pool = 0
      BY <1>2, <1>3, <1>6
    <3>4. "create" \in Waiters /\ "create" \in Creators
      BY DEF Waiters, Creators
    <3>5. flight' = flight \cup {c}
      BY <3>1, <3>2
    <3>6. made' = made /\ open' = open /\ made <= MaxPools
      BY <1>2, <2>1, Parameters
    <3> QED
      BY <1>2, <2>1, <2>2, <2>4, <3>1, <3>3, <3>4, <3>5, <3>6, CreationStep
  <2> QED
    BY <2>3, <2>4
<1>12. CASE createPool(c)
  <2>1. /\ caller[c].pc = "create" /\ made < MaxPools /\ made' = made + 1
        /\ open' = open \cup {made'} /\ caller' = [caller EXCEPT ![c] = At("store", made')]
        /\ UNCHANGED <<entry, idle, conns, mu, stopped, flight>>
    BY <1>12 DEF createPool, Become
  <2>2. c \in flight /\ entry = 0 /\ \A d \in Callers : caller[d].pc \in Creators => d = c
    BY <1>1, <2>1, TheCreator DEF Creators
  <2>3. made' \in 0..MaxPools /\ made' # made /\ made' <= MaxPools
    BY <1>2, <2>1, Parameters
  <2>4. /\ At("store", made') \in [pc : CallerPCs, pool : 0..MaxPools]
        /\ At("store", made').pc = "store" /\ At("store", made').pool = made'
    BY <1>3, <1>6, <2>3
  <2>5. "store" \in Waiters /\ "store" \in Creators
    BY DEF Waiters, Creators
  <2>6. flight' = flight \cup {c} /\ made' <= made'
    BY <2>1, <2>2, <2>3, Parameters
  <2> QED
    BY <2>1, <2>2, <2>3, <2>4, <2>5, <2>6, CreationStep
<1>13. CASE createPoolFails(c)
  <2>1. /\ caller[c].pc = "create" /\ Land("err", 0)
        /\ UNCHANGED <<entry, idle, open, made, conns, mu, stopped>>
    BY <1>13 DEF createPoolFails, pools
  <2>2. \A d \in Callers : caller[d].pc \in Creators => d = c
    BY <1>1, <2>1, TheCreator DEF Creators
  <2>3. stopped \/ open \subseteq {entry}
    BY <1>1, <1>7, <2>1, <2>2 DEF Known1, Creators
  <2> QED
    BY <1>2, <1>4, <2>1, <2>3, LandStep
<1>14. CASE Store(c)
  <2>1. /\ caller[c].pc = "store" /\ mu = "free" /\ entry' = caller[c].pool /\ idle' = FALSE
        /\ Land("begin", caller[c].pool) /\ UNCHANGED <<open, made, conns, mu, stopped>>
    BY <1>14 DEF Store
  <2>2. entry = 0 /\ \A d \in Callers : caller[d].pc \in Creators => d = c
    BY <1>1, <2>1, TheCreator DEF Creators
  <2>3. 0 \notin open
    BY <1>1 DEF PoolsTypes
  <2>4. stopped \/ open \subseteq {caller[c].pool}
    BY <1>1, <1>7, <2>1, <2>2, <2>3 DEF Known1, Creators
  <2> QED
    BY <1>5, <2>1, <2>4, LandStep
<1>15. CASE Begin(c)
  <2> DEFINE p == caller[c].pool
  <2>1. /\ caller[c].pc = "begin" /\ p \in open /\ conns[p] < MaxConns
        /\ conns' = [conns EXCEPT ![p] = conns[p] + 1]
        /\ caller' = [caller EXCEPT ![c] = At("tx", p)]
        /\ UNCHANGED <<entry, idle, open, made, mu, stopped, flight>>
    BY <1>15 DEF Begin, HasRoom, Become
  <2>2. p \in 1..made /\ p \in Pools /\ p # 0 /\ p \in 0..MaxPools
    BY <1>1, <1>2, <2>1, Parameters DEF PoolsTypes, Pools
  <2>3. /\ caller'[c] = At("tx", p) /\ \A d \in Callers : d # c => caller'[d] = caller[d]
        /\ caller' \in [Callers -> [pc : CallerPCs, pool : 0..MaxPools]]
    BY <1>3, <1>4, <1>6, <2>1, <2>2
  <2>4. caller'[c].pc = "tx" /\ caller'[c].pool = p
    BY <1>3, <2>3
  <2>5. /\ conns \in [Pools -> 0..MaxConns] /\ conns' \in [Pools -> 0..MaxConns]
        /\ \A q \in Pools : conns'[q] = IF q = p THEN conns[q] + 1 ELSE conns[q]
    BY <1>1, <2>1, <2>2, Parameters DEF PoolsTypes
  <2>6. PoolsTypes'
    BY <1>1, <2>1, <2>3, <2>5 DEF PoolsTypes
  <2>7. CountInv'
    <3> SUFFICES ASSUME NEW q \in Pools PROVE conns'[q] = Cardinality(InTxOf(caller', q))
      BY DEF CountInv
    <3>1. conns[q] = Cardinality(InTxOf(caller, q))
      BY <1>1 DEF CountInv
    <3>2. CASE q = p
      <4>1. caller[c] # At("tx", p)
        BY <1>3, <2>1
      <4>2. Cardinality(InTxOf(caller', p)) = Cardinality(InTxOf(caller, p)) + 1
        BY <2>3, <4>1, TxMore
      <4> QED
        BY <2>5, <3>1, <3>2, <4>2
    <3>3. CASE q # p
      <4>1. \A d \in Callers : caller'[d] = At("tx", q) <=> caller[d] = At("tx", q)
        BY <1>3, <2>1, <2>3, <3>3
      <4>2. InTxOf(caller', q) = InTxOf(caller, q)
        BY <4>1, Zenon DEF InTxOf
      <4> QED
        BY <2>5, <3>1, <3>3, <4>2
    <3> QED
      BY <3>2, <3>3
  <2>8. FlightInv'
    BY <1>1, <2>1, <2>3, <2>4 DEF FlightInv, Waiters, Creators
  <2>9. MadeInv'
    <3>1. \A d \in Callers : caller'[d].pool <= made /\ (caller'[d].pc = "tx" => caller'[d].pool # 0)
      BY <1>1, <1>2, <2>2, <2>3, <2>4 DEF MadeInv
    <3> QED
      BY <1>1, <2>1, <3>1 DEF MadeInv
  <2>10. NoPoolLost'
    <3>1. ASSUME NEW q, Known1(q, entry, caller) PROVE Known1(q, entry', caller')
      BY <2>1, <2>3, <3>1 DEF Known1
    <3> QED
      BY <1>1, <1>7, <2>1, <3>1, PoolsKnownThen
  <2> QED
    BY <2>6, <2>7, <2>8, <2>9, <2>10, TypesAndCountThen DEF PoolsInv
<1> QED
  BY <1>8, <1>9, <1>10, <1>11, <1>12, <1>13, <1>14, <1>15 DEF CallerStep

\* The end of a transaction gives its connection back.
LEMMA EndTxKeeps ==
    ASSUME PoolsInv, NEW c \in Callers, NEW committed, NEW next \in {Out, Calling},
           EndTx(c, committed, next)
    PROVE  PoolsInv'
<1> DEFINE p == caller[c].pool
<1>1. PoolsTypes /\ CountInv /\ FlightInv /\ MadeInv /\ NoPoolLost
  BY TypesAndCount DEF PoolsInv
<1>2. /\ made \in Nat /\ made \in 0..MaxPools /\ 0 <= made
  BY <1>1, Parameters DEF PoolsTypes
<1>3. /\ next \in [pc : CallerPCs, pool : 0..MaxPools] /\ next.pc \in {"out", "get"} /\ next.pool = 0
  BY OutAndCalling
<1>4. /\ caller[c].pc = "tx" /\ conns' = [conns EXCEPT ![p] = conns[p] - 1]
      /\ caller' = [caller EXCEPT ![c] = next]
      /\ UNCHANGED <<entry, idle, open, made, mu, stopped, flight>>
  BY DEF EndTx, Release
<1>5. /\ caller \in [Callers -> [pc : CallerPCs, pool : 0..MaxPools]]
      /\ caller[c] \in [pc : CallerPCs, pool : 0..MaxPools]
  BY <1>1 DEF PoolsTypes
<1>6. p \in Pools
  BY <1>1, <1>4, <1>5, Parameters DEF MadeInv, Pools
<1>7. /\ caller'[c] = next /\ \A d \in Callers : d # c => caller'[d] = caller[d]
      /\ caller' \in [Callers -> [pc : CallerPCs, pool : 0..MaxPools]]
  BY <1>3, <1>4, <1>5
<1>8. Cardinality(InTxOf(caller, p)) = Cardinality(InTxOf(caller', p)) + 1
  <2>1. caller[c] = At("tx", p)
    BY <1>4, <1>5, AtTx
  <2>2. next # At("tx", p)
    BY <1>3, AtFields
  <2>3. Cardinality(InTxOf(caller', p)) = Cardinality(InTxOf(caller, p)) - 1
    BY <1>7, <2>1, <2>2, TxLess
  <2> QED
    BY <2>3, TxFinite
<1>9. conns[p] = Cardinality(InTxOf(caller', p)) + 1 /\ Cardinality(InTxOf(caller', p)) \in Nat
  BY <1>1, <1>6, <1>8, TxFinite DEF CountInv
<1>10. /\ conns \in [Pools -> 0..MaxConns] /\ conns' \in [Pools -> 0..MaxConns]
       /\ \A q \in Pools : conns'[q] = IF q = p THEN conns[q] - 1 ELSE conns[q]
  <2>1. conns \in [Pools -> 0..MaxConns]
    BY <1>1 DEF PoolsTypes
  <2>2. conns[p] - 1 \in 0..MaxConns
    BY <1>6, <1>9, <2>1, Parameters
  <2> QED
    BY <1>4, <1>6, <2>1, <2>2
<1>11. PoolsTypes'
  BY <1>1, <1>4, <1>7, <1>10 DEF PoolsTypes
<1>12. CountInv'
  <2> SUFFICES ASSUME NEW q \in Pools PROVE conns'[q] = Cardinality(InTxOf(caller', q))
    BY DEF CountInv
  <2>1. conns[q] = Cardinality(InTxOf(caller, q))
    BY <1>1 DEF CountInv
  <2>2. CASE q = p
    BY <1>9, <1>10, <2>2
  <2>3. CASE q # p
    <3>1. caller[c] # At("tx", q) /\ next # At("tx", q)
      BY <1>3, <2>3, AtFields
    <3>2. \A d \in Callers : caller'[d] = At("tx", q) <=> caller[d] = At("tx", q)
      BY <1>7, <3>1
    <3>3. InTxOf(caller', q) = InTxOf(caller, q)
      BY <3>2, Zenon DEF InTxOf
    <3> QED
      BY <1>10, <2>1, <2>3, <3>3
  <2> QED
    BY <2>2, <2>3
<1>13. FlightInv'
  BY <1>1, <1>3, <1>4, <1>7 DEF FlightInv, Waiters, Creators
<1>14. MadeInv'
  <2>1. \A d \in Callers : caller'[d].pool <= made /\ (caller'[d].pc = "tx" => caller'[d].pool # 0)
    BY <1>1, <1>2, <1>3, <1>7 DEF MadeInv
  <2> QED
    BY <1>1, <1>4, <2>1 DEF MadeInv
<1>15. NoPoolLost'
  <2>1. ASSUME NEW q, Known1(q, entry, caller) PROVE Known1(q, entry', caller')
    BY <1>4, <1>7, <2>1 DEF Known1
  <2> QED
    BY <1>1, <1>4, <2>1, PoolsKnown, PoolsKnownThen
<1> QED
  BY <1>11, <1>12, <1>13, <1>14, <1>15, TypesAndCountThen DEF PoolsInv

\* A request comes, or goes with an error: its caller moves between the calls.
LEMMA LeaveKeeps ==
    ASSUME PoolsInv, NEW c \in Callers, caller[c].pc \in {"out", "err"}, NEW next \in {Out, Calling},
           caller' = [caller EXCEPT ![c] = next], UNCHANGED <<pools, flight>>
    PROVE  PoolsInv'
<1>1. /\ next \in [pc : CallerPCs, pool : 0..MaxPools] /\ next.pc \in {"out", "get"} /\ next.pool = 0
  BY OutAndCalling
<1>2. made \in Nat /\ 0 <= made /\ idle \in BOOLEAN
  BY Parameters, TypesAndCount DEF PoolsInv, PoolsTypes
<1>3. {"out", "get", "err"} \cap (Waiters \cup {"tx"}) = {}
  BY DEF Waiters, Creators
<1>4. UNCHANGED <<entry, idle, open, made, conns, mu, stopped, flight>>
  BY DEF pools
<1> QED
  BY <1>1, <1>2, <1>3, <1>4, CallerMoves

\* Nothing happens to the pools.
LEMMA IdleKeeps ==
    ASSUME PoolsInv, UNCHANGED poolVars
    PROVE  PoolsInv'
BY Zenon DEF poolVars, pools, PoolsInv, PoolsTypeOK, FlightInv, MadeInv, NoPoolLost, InTxOf

\* Time passes, and pools are closed.
LEMMA HousekeepingKeeps ==
    ASSUME PoolsInv, Housekeeping
    PROVE  PoolsInv'
<1>1. PoolsTypes /\ CountInv /\ FlightInv /\ MadeInv /\ NoPoolLost
  BY TypesAndCount DEF PoolsInv
<1>2. made \in Nat /\ 0 <= made /\ entry \in Nat /\ 0 \notin open /\ 0 \in 0..MaxPools
  BY <1>1, Parameters DEF PoolsTypes
<1>3. UNCHANGED <<made, conns, flight, caller>>
  BY DEF Housekeeping, TimePasses, evictIdle, Close, PoolClosed
<1>4. /\ entry' \in {entry, 0} /\ open' \in {open, open \ {entry}} /\ idle' \in BOOLEAN
      /\ mu' \in {"free", "closing"} /\ stopped' \in BOOLEAN /\ (stopped => stopped')
      /\ mu' = "closing" => entry' = entry /\ entry \notin open'
      /\ entry' = entry \/ (entry' = 0 /\ entry \notin open /\ open' = open)
  <2>0. /\ mu \in {"free", "closing"} /\ idle \in BOOLEAN /\ stopped \in BOOLEAN
        /\ mu = "closing" => entry \notin open
    BY <1>1 DEF MadeInv, PoolsTypes
  <2>1. CASE TimePasses
    BY <2>0, <2>1 DEF TimePasses
  <2>2. CASE evictIdle
    BY <2>0, <2>2 DEF evictIdle
  <2>3. CASE Close
    BY <1>2, <2>0, <2>3 DEF Close
  <2>4. CASE PoolClosed
    BY <2>0, <2>4 DEF PoolClosed
  <2> QED
    BY <2>1, <2>2, <2>3, <2>4 DEF Housekeeping
<1>5. CountInv'
  BY <1>1, <1>3, Zenon DEF CountInv, InTxOf
<1>6. PoolsTypes'
  BY <1>1, <1>2, <1>3, <1>4 DEF PoolsTypes
<1>7. FlightInv'
  BY <1>1, <1>3, <1>4 DEF FlightInv
<1>8. MadeInv'
  BY <1>1, <1>2, <1>3, <1>4 DEF MadeInv
<1>9. NoPoolLost'
  <2>1. ASSUME NEW q \in open', Known1(q, entry, caller) PROVE Known1(q, entry', caller')
    BY <1>3, <1>4, <2>1 DEF Known1
  <2>2. open' \subseteq open
    BY <1>4
  <2> QED
    BY <1>1, <1>4, <2>1, <2>2, PoolsKnown, PoolsKnownThen
<1> QED
  BY <1>5, <1>6, <1>7, <1>8, <1>9, TypesAndCountThen DEF PoolsInv

\* The pools at the start.
LEMMA PoolsInitInv ==
    ASSUME NEW warm \in BOOLEAN, PoolsInit(warm), warm => MaxPools # 0
    PROVE  PoolsInv
<1>1. /\ entry = IF warm THEN 1 ELSE 0
      /\ open = IF warm THEN {1} ELSE {}
      /\ made = entry /\ idle = FALSE /\ mu = "free" /\ stopped = FALSE /\ flight = {}
      /\ conns = [p \in Pools |-> 0] /\ caller = [c \in Callers |-> Out]
  BY DEF PoolsInit
<1>2. PoolsTypes
  <2>1. /\ entry \in 0..MaxPools /\ made \in 0..MaxPools /\ open \subseteq 1..made
        /\ 0 \in 0..MaxConns
    BY <1>1, Parameters
  <2>2. caller \in [Callers -> [pc : CallerPCs, pool : 0..MaxPools]]
    BY <1>1, OutAndCalling
  <2>3. conns \in [Pools -> 0..MaxConns]
    BY <1>1, <2>1
  <2> QED
    BY <1>1, <2>1, <2>2, <2>3 DEF PoolsTypes
<1>3. CountInv
  <2> SUFFICES ASSUME NEW p \in Pools PROVE conns[p] = Cardinality(InTxOf(caller, p))
    BY DEF CountInv
  <2>1. \A c \in Callers : caller[c] # At("tx", p)
    BY <1>1, OutAndCalling, AtFields
  <2>2. InTxOf(caller, p) = {}
    BY <2>1 DEF InTxOf
  <2> QED
    BY <1>1, <2>2, FS_EmptySet
<1>4. \A c \in Callers : caller[c].pc = "out" /\ caller[c].pool = 0
  BY <1>1, OutAndCalling
<1>5. FlightInv
  BY <1>1, <1>4 DEF FlightInv, Waiters, Creators
<1>6. MadeInv
  BY <1>1, <1>4 DEF MadeInv
<1>7. NoPoolLost
  BY <1>1, PoolsKnown DEF Known1
<1> QED
  BY <1>2, <1>3, <1>5, <1>6, <1>7, TypesAndCount DEF PoolsInv

-----------------------------------------------------------------------------
(* Steps of a request, by what they do to the writers. *)

\* A request that writes.
IsWriter(rq) == (rq.at \in {"write", "publish"} /\ rq.op \in ObjectOps) \/ rq.at = "drop"
\* Writers are those of Writers, now and in the next state.
LEMMA WritersAre ==
    /\ Writers = {q \in Requests : IsWriter(req[q])}
    /\ Writers' = {q \in Requests : IsWriter(req'[q])}
BY Zenon DEF Writers, Writing, IsWriter

DataInv == WritersInv /\ AckedInv /\ ViewsAgree

\* Nothing is written, and no writer begins or goes on.
LEMMA QuietStep ==
    ASSUME DataInv, UNCHANGED <<row, bytes, lastEvent, overlap, acked>>,
           \A q \in Requests : IsWriter(req'[q]) => IsWriter(req[q]) /\ req'[q] = req[q]
    PROVE  DataInv'
<1>1. Writers' \subseteq Writers /\ \A q \in Writers' : req'[q] = req[q]
  BY WritersAre
<1>2. WritersInv'
  BY <1>1 DEF DataInv, WritersInv
<1>3. AckedInv'
  BY <1>1 DEF DataInv, AckedInv
<1>4. ViewsAgree'
  BY DEF DataInv, ViewsAgree
<1> QED
  BY <1>2, <1>3, <1>4 DEF DataInv

\* Who is a writer after a step of one request.
LEMMA WritersThen ==
    ASSUME NEW r \in Requests, \A q \in Requests : q # r => req'[q] = req[q]
    PROVE  /\ Writers' \subseteq Writers \cup {r}
           /\ \A q \in Writers' : q # r => q \in Writers /\ req'[q] = req[q]
           /\ r \in Writers' <=> IsWriter(req'[r])
BY WritersAre

\* A writer begins, and meets the others if there are any.
LEMMA BeginStep ==
    ASSUME DataInv, NEW r \in Requests, \A q \in Requests : q # r => req'[q] = req[q],
           Meet(r), UNCHANGED row,
           IsWriter(req'[r]) => \/ req'[r].at = "write" /\ bytes' = req'[r].content
                                \/ req'[r].at = "drop"
    PROVE  WritersInv'
<1>1. CASE Writers \ {r} = {}
  <2>1. overlap' = {}
    BY <1>1 DEF Meet
  <2>2. Writers' \subseteq {r}
    BY <1>1, WritersThen
  <2>3. \A q \in Writers' : /\ req'[q].at \in {"write", "publish"} => bytes' = req'[q].content
                            /\ req'[q].at # "publish"
    BY <2>2, WritersThen
  <2> QED
    BY <2>2, <2>3 DEF WritersInv
<1>2. CASE Writers \ {r} # {}
  <2>1. overlap' = overlap \cup Writers \cup {r}
    BY <1>2 DEF Meet
  <2>2. Writers' \subseteq overlap'
    BY <2>1, WritersThen
  <2> QED
    BY <2>2 DEF WritersInv
<1> QED
  BY <1>1, <1>2

\* Nothing is known of the last write.
LEMMA UnknownViews ==
    ASSUME acked' = Unknown
    PROVE  AckedInv' /\ ViewsAgree'
BY DEF AckedInv, ViewsAgree, Unknown

\* A write to the object store, or the look at it for the row.
LEMMA BeginsStep ==
    ASSUME DataInv, NEW r \in Requests, \A q \in Requests : q # r => req'[q] = req[q],
           Begins(r), UNCHANGED row,
           IsWriter(req'[r]) => req'[r].at = "write" /\ bytes' = req'[r].content
    PROVE  DataInv'
<1>1. Meet(r) /\ acked' = Unknown
  BY DEF Begins
<1>2. WritersInv'
  BY <1>1, BeginStep
<1> QED
  BY <1>1, <1>2, UnknownViews DEF DataInv

\* DeleteBucket finds the bucket empty.
LEMMA CountedStep ==
    ASSUME DataInv, NEW r \in Requests, \A q \in Requests : q # r => req'[q] = req[q],
           Meet(r), row = 0, UNCHANGED <<row, bytes, lastEvent, acked>>, req'[r].at = "drop"
    PROVE  DataInv'
<1>1. WritersInv'
  BY BeginStep
<1>2. AckedInv'
  BY WritersThen DEF DataInv, AckedInv
<1>3. ViewsAgree'
  BY DEF DataInv, ViewsAgree
<1> QED
  BY <1>1, <1>2, <1>3 DEF DataInv

\* The row is written, by a request that goes on to publish, or ends unanswered.
LEMMA RowStep ==
    ASSUME DataInv, NEW r \in Requests, \A q \in Requests : q # r => req'[q] = req[q],
           UNCHANGED <<bytes, lastEvent, overlap, acked>>, row' = req[r].content,
           IsWriter(req[r]), req[r].at = "write",
           IsWriter(req'[r]) => req'[r].at = "publish" /\ req'[r].content = req[r].content
    PROVE  DataInv'
<1>1. r \in Writers /\ ~acked.known
  BY WritersAre DEF DataInv, AckedInv
<1>2. \A q \in Writers : q # r => q \in overlap
  BY <1>1 DEF DataInv, WritersInv
<1>3. \A q \in Writers' \ overlap : q = r
  BY <1>2, WritersThen
<1>4. r \notin overlap => bytes = req[r].content
  BY <1>1 DEF DataInv, WritersInv
<1>5. \A q, p \in Writers' : q # p => q \in overlap
  <2> SUFFICES ASSUME NEW q \in Writers', NEW p \in Writers', q # p PROVE q \in overlap
    OBVIOUS
  <2>1. \A x \in Writers' : x \in Writers
    BY <1>1, WritersThen
  <2> QED
    BY <2>1 DEF DataInv, WritersInv
<1>6. r \in Writers' => req'[r].at = "publish" /\ req'[r].content = req[r].content
  BY WritersThen
<1>7. WritersInv'
  BY <1>3, <1>4, <1>5, <1>6 DEF WritersInv
<1>8. AckedInv' /\ ViewsAgree'
  BY <1>1 DEF AckedInv, ViewsAgree
<1> QED
  BY <1>7, <1>8 DEF DataInv

\* The request is answered.
LEMMA AnswerStep ==
    ASSUME DataInv, NEW r \in Requests, NEW told \in BOOLEAN,
           \A q \in Requests : q # r => req'[q] = req[q],
           IsWriter(req[r]), req[r].at = "publish", ~IsWriter(req'[r]), Ends(r, told),
           UNCHANGED <<row, bytes>>,
           IF told THEN lastEvent' = Event(req[r].content) ELSE lastEvent' = lastEvent
    PROVE  DataInv'
<1>1. r \in Writers /\ ~acked.known
  BY WritersAre DEF DataInv, AckedInv
<1>2. \A q \in Writers' : q \in Writers /\ q # r /\ req'[q] = req[q]
  BY WritersThen
<1>3. \A q \in Writers : q # r => q \in overlap
  BY <1>1 DEF DataInv, WritersInv
<1>4. /\ overlap' = overlap \ {r}
      /\ acked' = IF r \in overlap THEN acked ELSE Known(req[r].content, told)
  BY DEF Ends
<1>5. Writers' \subseteq overlap'
  BY <1>2, <1>3, <1>4
<1>6. WritersInv'
  BY <1>5 DEF WritersInv
<1>7. r \notin overlap => Writers' = {} /\ bytes = req[r].content /\ row = req[r].content
  <2>1. \A q \in Writers : q # r => r \in overlap
    BY <1>1 DEF DataInv, WritersInv
  <2> QED
    BY <1>1, <1>2, <2>1 DEF DataInv, WritersInv
<1>8. AckedInv'
  BY <1>1, <1>4, <1>7 DEF AckedInv
<1>9. ViewsAgree'
  <2>1. CASE r \in overlap
    BY <1>1, <1>4, <2>1 DEF ViewsAgree
  <2>2. CASE r \notin overlap
    BY <1>4, <1>7, <2>2 DEF ViewsAgree, Known
  <2> QED
    BY <2>1, <2>2
<1> QED
  BY <1>6, <1>8, <1>9 DEF DataInv

\* The bucket goes, and the row with it.
LEMMA DropStep ==
    ASSUME DataInv, NEW r \in Requests, \A q \in Requests : q # r => req'[q] = req[q],
           UNCHANGED <<bytes, lastEvent, overlap, acked>>, row' = row \/ row' = 0,
           req[r].at = "drop", ~IsWriter(req'[r])
    PROVE  DataInv'
<1>1. r \in Writers
  BY WritersAre DEF IsWriter
<1>2. acked.known => row = 0
  BY <1>1 DEF DataInv, AckedInv
<1>3. \A q \in Writers' : q \in Writers /\ q # r /\ req'[q] = req[q]
  BY WritersThen
<1>4. \A q \in Writers : q # r => q \in overlap
  BY <1>1 DEF DataInv, WritersInv
<1>5. Writers' \subseteq overlap'
  BY <1>3, <1>4
<1>6. WritersInv'
  BY <1>5 DEF WritersInv
<1>7. AckedInv'
  BY <1>2, <1>3 DEF DataInv, AckedInv
<1>8. ViewsAgree'
  BY <1>2 DEF DataInv, ViewsAgree
<1> QED
  BY <1>6, <1>7, <1>8 DEF DataInv

\* A client writes to the object store itself.
LEMMA ClientStep ==
    ASSUME DataInv, UNCHANGED req, overlap' = overlap \cup Writers, acked' = Unknown
    PROVE  DataInv'
<1>1. Writers' = Writers
  BY WritersAre
<1>2. WritersInv'
  BY <1>1 DEF WritersInv
<1> QED
  BY <1>2, UnknownViews DEF DataInv

-----------------------------------------------------------------------------
(* Steps of a request, by where it goes. *)

ReqRecs == [op : Ops, at : Steps, content : Contents]
StatesTyped ==
    /\ bucket \in {"none", "open", "strict"} /\ row \in Contents /\ bytes \in Contents
    /\ (bucket = "none" => row = 0)
    /\ lastEvent \in {"none", "created", "deleted"}
    /\ req \in [Requests -> ReqRecs]
    /\ usage \in Usages /\ overlap \subseteq Requests
    /\ acked \in [known : BOOLEAN, content : Contents, told : BOOLEAN]
\* It is TypeOK without the pools and the URLs, now and in the next state.
LEMMA TypesAre ==
    /\ TypeOK <=> PoolsTypeOK /\ StatesTyped /\ urls \in 0..MaxRequests
    /\ TypeOK' <=> PoolsTypeOK' /\ StatesTyped' /\ urls' \in 0..MaxRequests
BY Zenon DEF TypeOK, StatesTyped, ReqRecs

\* One request, with its caller, is in a place it may be in.
Placed(rq, cl) ==
    /\ rq.at \in Steps \ (TxSteps \cup {"drop"}) => cl = Out
    /\ rq.at = "put" => rq.op = "Upload"
    /\ rq.at = "erase" => rq.op = "DeleteObject"
    /\ rq.at = "head" => rq.op = "UploadComplete"
    /\ rq.at = "publish" => rq.op \in ObjectOps
    /\ rq.op = "DeleteObject" => rq.content = 0
\* It is PlaceInv, of each request, now and in the next state.
LEMMA PlacesAre ==
    /\ PlaceInv <=> \A r \in Requests : Placed(req[r], caller[r])
    /\ PlaceInv' <=> \A r \in Requests : Placed(req'[r], caller'[r])
BY Zenon DEF PlaceInv, Placed

\* The requests that are done grow in number; one that is newly done may give out a URL.
Ended(rq) == {r \in Requests : rq[r].at = "done"}
\* No more requests are done than there are.
LEMMA EndedFinite ==
    ASSUME NEW rq
    PROVE  /\ IsFiniteSet(Ended(rq)) /\ Cardinality(Ended(rq)) \in Nat
           /\ Cardinality(Ended(rq)) <= MaxRequests
<1>1. Ended(rq) \subseteq Requests
  BY DEF Ended
<1>2. Cardinality(Requests) = MaxRequests
  <2>1. \A n \in Nat : Cardinality(1..n) = n
    BY FS_Interval
  <2> QED
    BY <2>1, Parameters DEF Requests
<1> QED
  BY <1>1, <1>2, Parameters, FS_Subset, FS_CardinalityType

UrlsOK == UrlsInv /\ urls \in 0..MaxRequests
\* No URL is given out; one may be used.
LEMMA UrlsSame ==
    ASSUME UrlsOK, urls' = urls \/ (urls > 0 /\ urls' = urls - 1),
           \A r \in Requests : req[r].at = "done" => req'[r].at = "done"
    PROVE  UrlsOK'
<1>1. Ended(req) \subseteq Ended(req')
  BY DEF Ended
<1>2. Cardinality(Ended(req)) <= Cardinality(Ended(req'))
  BY <1>1, EndedFinite, FS_Subset
<1>3. urls <= Cardinality(Ended(req)) /\ urls \in Nat /\ urls <= MaxRequests
  BY Parameters DEF UrlsOK, UrlsInv, Ended
<1>4. Cardinality(Ended(req)) \in Nat /\ Cardinality(Ended(req')) \in Nat
  BY EndedFinite
<1>5. urls' \in 0..MaxRequests /\ urls' <= Cardinality(Ended(req'))
  BY <1>2, <1>3, <1>4, Parameters
<1> QED
  BY <1>5 DEF UrlsOK, UrlsInv, Ended

\* The request that ends gives a URL out.
LEMMA UrlsMore ==
    ASSUME UrlsOK, NEW r \in Requests, req[r].at # "done", req'[r].at = "done", urls' = urls + 1,
           \A q \in Requests : q # r => req'[q] = req[q]
    PROVE  UrlsOK'
<1>1. Ended(req') = Ended(req) \cup {r} /\ r \notin Ended(req)
  BY DEF Ended
<1>2. Cardinality(Ended(req')) = Cardinality(Ended(req)) + 1
  BY <1>1, EndedFinite, FS_AddElement
<1>3. urls <= Cardinality(Ended(req)) /\ urls \in Nat
  BY Parameters DEF UrlsOK, UrlsInv, Ended
<1>4. Cardinality(Ended(req)) \in Nat /\ Cardinality(Ended(req')) <= MaxRequests
  BY EndedFinite
<1>5. urls' \in 0..MaxRequests /\ urls' <= Cardinality(Ended(req'))
  BY <1>2, <1>3, <1>4, Parameters
<1> QED
  BY <1>5 DEF UrlsOK, UrlsInv, Ended

\* To: where a request is then.
LEMMA ToMoves ==
    ASSUME req \in [Requests -> ReqRecs], NEW r \in Requests, NEW at \in Steps, To(r, at)
    PROVE  /\ req' \in [Requests -> ReqRecs]
           /\ \A q \in Requests : q # r => req'[q] = req[q]
           /\ req'[r].at = at
           /\ at # "done" => req'[r].op = req[r].op /\ req'[r].content = req[r].content
           /\ at = "done" => req'[r].op = "Download" /\ req'[r].content = 0
<1>1. 0 \in Contents
  BY Parameters DEF Contents
<1>2. Done \in ReqRecs /\ Done.at = "done" /\ Done.op = "Download" /\ Done.content = 0
  BY <1>1 DEF Done, ReqRecs, Ops, ObjectOps, BucketOps, ReadOps, Steps
<1>3. /\ [req[r] EXCEPT !.at = at] \in ReqRecs /\ [req[r] EXCEPT !.at = at].at = at
      /\ [req[r] EXCEPT !.at = at].op = req[r].op
      /\ [req[r] EXCEPT !.at = at].content = req[r].content
  BY DEF ReqRecs
<1>4. CASE at = "done"
  <2>1. req' = [req EXCEPT ![r] = Done]
    BY <1>4 DEF To
  <2> QED
    BY <1>2, <1>4, <2>1
<1>5. CASE at # "done"
  <2>1. req' = [req EXCEPT ![r] = [req[r] EXCEPT !.at = at]]
    BY <1>5 DEF To
  <2> HIDE DEF ReqRecs
  <2> QED
    BY <1>3, <1>5, <2>1
<1> QED
  BY <1>4, <1>5

\* The place a request goes to, out of the pools or into its next transaction.
LEMMA PlaceThen ==
    ASSUME PlaceInv, NEW r \in Requests,
           \A q \in Requests : q # r => req'[q] = req[q] /\ caller'[q] = caller[q],
           Placed(req'[r], caller'[r])
    PROVE  PlaceInv'
BY PlacesAre

\* All that the requests' own state needs.
Rest == StatesTyped /\ PlaceInv /\ UrlsOK /\ DataInv
\* The invariant is that of the pools and the rest, now and in the next state.
LEMMA IInvIs ==
    /\ IInv <=> PoolsInv /\ Rest
    /\ IInv' <=> PoolsInv' /\ Rest'
BY TypesAre, Zenon DEF IInv, Rest, UrlsOK, DataInv, PoolsInv

\* A request is then at a step, its caller called WithRLS for it or is out.
Goes(r, at) ==
    /\ \A q \in Requests : q # r => req'[q] = req[q] /\ caller'[q] = caller[q]
    /\ req' \in [Requests -> ReqRecs] /\ req'[r].at = at
    /\ at # "done" => req'[r].op = req[r].op /\ req'[r].content = req[r].content
    /\ at = "done" => req'[r].op = "Download" /\ req'[r].content = 0
    /\ at \notin TxSteps => caller'[r] = Out

\* WithRLS is called for the steps that are transactions.
LEMMA EntryIs == \A at : Entry(at) \in {Out, Calling} /\ (at \notin TxSteps => Entry(at) = Out)
BY DEF Entry

\* A transaction ends, and its request goes on or ends.
LEMMA EndOfTx ==
    ASSUME IInv, NEW r \in Requests, NEW at \in Steps,
           Commit(r, at) \/ (Rollback(r) /\ at = "done")
    PROVE  PoolsInv' /\ Goes(r, at)
<1>1. PoolsInv /\ req \in [Requests -> ReqRecs]
  BY TypesAre DEF IInv, StatesTyped
<1>2. To(r, at) /\ \E committed \in BOOLEAN, next \in {Out, Calling} :
         EndTx(r, committed, next) /\ (at \notin TxSteps => next = Out)
  BY EntryIs DEF Commit, Rollback
<1>3. PICK committed \in BOOLEAN, next \in {Out, Calling} :
         EndTx(r, committed, next) /\ (at \notin TxSteps => next = Out)
  BY <1>2
<1>4. r \in Callers
  BY Parameters
<1>5. PoolsInv'
  BY <1>1, <1>3, <1>4, EndTxKeeps
<1>6. caller' = [caller EXCEPT ![r] = next] /\ caller \in [Callers -> [pc : CallerPCs, pool : 0..MaxPools]]
  BY <1>1, <1>3, TypesAndCount DEF EndTx, PoolsInv, PoolsTypes
<1>7. caller'[r] = next /\ \A q \in Requests : q # r => caller'[q] = caller[q]
  BY <1>4, <1>6, Parameters
<1>8. /\ req' \in [Requests -> ReqRecs]
      /\ \A q \in Requests : q # r => req'[q] = req[q]
      /\ req'[r].at = at
      /\ at # "done" => req'[r].op = req[r].op /\ req'[r].content = req[r].content
      /\ at = "done" => req'[r].op = "Download" /\ req'[r].content = 0
  BY <1>1, <1>2, ToMoves
<1> QED
  BY <1>3, <1>5, <1>7, <1>8 DEF Goes

\* A caller that is replaced, and its request, outside the pools.
LEMMA CallerReplaced ==
    ASSUME IInv, NEW r \in Requests, NEW next \in {Out, Calling},
           caller[r].pc \in {"out", "err"} \/ req[r].at \in Steps \ (TxSteps \cup {"drop"}),
           caller' = [caller EXCEPT ![r] = next], UNCHANGED <<pools, flight>>
    PROVE  /\ PoolsInv' /\ caller'[r] = next
           /\ \A q \in Requests : q # r => caller'[q] = caller[q]
<1>1. PoolsInv /\ r \in Callers /\ Callers = Requests
  BY Parameters DEF IInv
<1>2. caller[r].pc \in {"out", "err"}
  BY OutAndCalling DEF IInv, PlaceInv
<1>3. PoolsInv'
  BY <1>1, <1>2, LeaveKeeps
<1>4. caller \in [Callers -> [pc : CallerPCs, pool : 0..MaxPools]]
  BY <1>1, TypesAndCount DEF PoolsInv, PoolsTypes
<1> QED
  BY <1>1, <1>3, <1>4

\* A request goes on after a call that is no transaction, or ends.
LEMMA EndOfCall ==
    ASSUME IInv, NEW r \in Requests, NEW at \in Steps, Leave(r, at),
           caller[r].pc = "err" \/ req[r].at \in Steps \ (TxSteps \cup {"drop"})
    PROVE  PoolsInv' /\ Goes(r, at)
<1>1. req \in [Requests -> ReqRecs]
  BY TypesAre DEF IInv, StatesTyped
<1>2. To(r, at) /\ caller' = [caller EXCEPT ![r] = Entry(at)] /\ UNCHANGED <<pools, flight>>
  BY DEF Leave
<1>3. Entry(at) \in {Out, Calling} /\ (at \notin TxSteps => Entry(at) = Out)
  BY EntryIs
<1>4. /\ PoolsInv' /\ caller'[r] = Entry(at)
      /\ \A q \in Requests : q # r => caller'[q] = caller[q]
  BY <1>2, <1>3, CallerReplaced
<1>5. /\ req' \in [Requests -> ReqRecs]
      /\ \A q \in Requests : q # r => req'[q] = req[q]
      /\ req'[r].at = at
      /\ at # "done" => req'[r].op = req[r].op /\ req'[r].content = req[r].content
      /\ at = "done" => req'[r].op = "Download" /\ req'[r].content = 0
  BY <1>1, <1>2, ToMoves
<1> QED
  BY <1>3, <1>4, <1>5 DEF Goes

\* The places stay right.
LEMMA GoesPlaced ==
    ASSUME IInv, NEW r \in Requests, NEW at \in Steps, Goes(r, at),
           at = "put" => req[r].op = "Upload", at = "erase" => req[r].op = "DeleteObject",
           at # "head", at = "publish" => req[r].op \in ObjectOps
    PROVE  PlaceInv'
<1>1. PlaceInv /\ Placed(req[r], caller[r])
  BY PlacesAre DEF IInv
<1>2. Placed(req'[r], caller'[r])
  BY <1>1 DEF Placed, Goes
<1> QED
  BY <1>1, <1>2, PlaceThen DEF Goes

\* A step that writes nothing: the request goes on before it writes, or ends.
LEMMA QuietAction ==
    ASSUME IInv, PoolsInv', NEW r \in Requests, NEW at \in {"done", "put", "erase", "get"}, Goes(r, at),
           at = "put" => req[r].op = "Upload", at = "erase" => req[r].op = "DeleteObject",
           UNCHANGED <<row, bytes, lastEvent, usage, overlap, acked>>,
           bucket' \in {"none", "open", "strict"}, bucket' = "none" => bucket = "none",
           req[r].at = "done" => at = "done",
           urls' = urls \/ (urls' = urls + 1 /\ at = "done" /\ req[r].at # "done")
    PROVE  IInv'
<1>1. StatesTyped /\ UrlsOK /\ DataInv
  BY IInvIs DEF Rest
<1>2. at \in Steps
  BY DEF Steps
<1>3. StatesTyped'
  BY <1>1 DEF StatesTyped, Goes
<1>4. PlaceInv'
  BY <1>2, GoesPlaced
<1>5. UrlsOK'
  BY <1>1, UrlsSame, UrlsMore DEF Goes
<1>6. DataInv'
  <2>1. ~IsWriter(req'[r])
    BY DEF Goes, IsWriter
  <2>2. \A q \in Requests : IsWriter(req'[q]) => IsWriter(req[q]) /\ req'[q] = req[q]
    BY <2>1 DEF Goes
  <2> QED
    BY <1>1, <2>2, QuietStep
<1> QED
  BY <1>3, <1>4, <1>5, <1>6, IInvIs DEF Rest

\* The history variables keep their types.
LEMMA HistoryTyped ==
    ASSUME StatesTyped, NEW r \in Requests,
           Meet(r) \/ \E told \in BOOLEAN : Ends(r, told)
    PROVE  overlap' \subseteq Requests
BY DEF StatesTyped, Meet, Writers, Ends

\* What is known of the last write has its type.
LEMMA KnownTyped ==
    /\ Unknown \in [known : BOOLEAN, content : Contents, told : BOOLEAN]
    /\ \A c \in Contents, told \in BOOLEAN :
          Known(c, told) \in [known : BOOLEAN, content : Contents, told : BOOLEAN]
BY Parameters DEF Unknown, Known, Contents

-----------------------------------------------------------------------------
(* The operations. *)

\* A request comes.
LEMMA ArriveKeeps ==
    ASSUME IInv, NEW r \in Requests, NEW op \in Ops, Arrive(r, op)
    PROVE  IInv'
<1> DEFINE first == FirstStep(op)
           new == [op |-> op, at |-> first, content |-> IF op = "Upload" THEN r ELSE 0]
<1>1. /\ req[r].at = "new" /\ req' = [req EXCEPT ![r] = new]
      /\ caller' = [caller EXCEPT ![r] = Entry(first)]
      /\ UNCHANGED <<pools, flight>>
      /\ UNCHANGED <<bucket, row, bytes, lastEvent, urls, usage, overlap, acked>>
  BY DEF Arrive, data, history
<1>2. StatesTyped /\ PlaceInv /\ UrlsOK /\ DataInv
  BY IInvIs DEF Rest
<1>3. first \in {"head", "count", "write", "find"} /\ (first = "head" => op = "UploadComplete")
      /\ (first = "write" => op \notin ObjectOps)
  BY DEF FirstStep, ObjectOps
<1>4. first \in Steps
  BY <1>3 DEF Steps
<1>5. new.content \in Contents /\ (op = "DeleteObject" => new.content = 0)
  BY Parameters DEF Requests, Contents
<1>6. new \in ReqRecs /\ new.at = first /\ new.op = op
  BY <1>4, <1>5 DEF ReqRecs
<1>7. /\ req' \in [Requests -> ReqRecs] /\ req'[r] = new
      /\ \A q \in Requests : q # r => req'[q] = req[q]
  BY <1>1, <1>2, <1>6 DEF StatesTyped
<1>8. Entry(first) \in {Out, Calling} /\ (first \notin TxSteps => Entry(first) = Out)
  BY EntryIs
<1>9. req[r].at \in Steps \ (TxSteps \cup {"drop"})
  BY <1>1 DEF Steps, TxSteps
<1>10. /\ PoolsInv' /\ caller'[r] = Entry(first)
       /\ \A q \in Requests : q # r => caller'[q] = caller[q]
  BY <1>1, <1>8, <1>9, CallerReplaced
<1> HIDE DEF new, first
<1>11. StatesTyped'
  BY <1>1, <1>2, <1>7 DEF StatesTyped
<1>12. PlaceInv'
  <2>1. Placed(req'[r], caller'[r])
    BY <1>3, <1>5, <1>6, <1>7, <1>8, <1>10 DEF Placed
  <2> QED
    BY <1>2, <1>7, <1>10, <2>1, PlaceThen
<1>13. UrlsOK'
  BY <1>1, <1>2, <1>7, UrlsSame
<1>14. DataInv'
  <2>1. ~IsWriter(req'[r])
    BY <1>3, <1>6, <1>7 DEF IsWriter
  <2> QED
    BY <1>1, <1>2, <1>7, <2>1, QuietStep
<1> QED
  BY <1>10, <1>11, <1>12, <1>13, <1>14, IInvIs DEF Rest

\* Steps that write nothing.
LEMMA QuietKeeps ==
    ASSUME IInv, NEW r \in Requests,
           \/ NoTransaction(r) \/ StatementFails(r)
           \/ FindBucket(r) \/ enforceBucketLimits(r) \/ BucketNotFound(r) \/ StoreAnswers(r)
           \/ CreateBucket(r) \/ UpdateBucket(r) \/ ListBuckets(r)
    PROVE  IInv'
<1>0. /\ bucket \in {"none", "open", "strict"} /\ "done" \in Steps
      /\ {"put", "erase", "get", "done"} \subseteq Steps
  BY IInvIs DEF Rest, StatesTyped, Steps
<1>1. CASE NoTransaction(r) \/ StoreAnswers(r)
  <2>1. /\ Leave(r, "done") /\ UNCHANGED <<bucket, row, bytes, lastEvent, urls, usage, overlap, acked>>
        /\ caller[r].pc = "err" \/ req[r].at \in {"head", "get"}
    BY <1>1 DEF NoTransaction, StoreAnswers, data, history
  <2>2. {"head", "get"} \subseteq Steps \ (TxSteps \cup {"drop"})
    BY DEF Steps, TxSteps
  <2>3. PoolsInv' /\ Goes(r, "done")
    BY <1>0, <2>1, <2>2, EndOfCall
  <2> QED
    BY <1>0, <2>1, <2>3, QuietAction
<1>2. CASE StatementFails(r) \/ enforceBucketLimits(r) \/ BucketNotFound(r) \/ ListBuckets(r)
  <2>1. /\ Commit(r, "done") \/ Rollback(r)
        /\ UNCHANGED <<bucket, row, bytes, lastEvent, urls, usage, overlap, acked>>
    BY <1>2 DEF StatementFails, enforceBucketLimits, BucketNotFound, ListBuckets, data, history
  <2>2. PoolsInv' /\ Goes(r, "done")
    BY <1>0, <2>1, EndOfTx
  <2> QED
    BY <1>0, <2>1, <2>2, QuietAction
<1>3. CASE CreateBucket(r) \/ UpdateBucket(r)
  <2>1. /\ Commit(r, "done") \/ Rollback(r)
        /\ UNCHANGED <<row, bytes, lastEvent, urls, usage, overlap, acked>>
        /\ bucket' = bucket \/ bucket' \in {"open", "strict"}
    BY <1>3 DEF CreateBucket, UpdateBucket, history
  <2>2. PoolsInv' /\ Goes(r, "done")
    BY <1>0, <2>1, EndOfTx
  <2> QED
    BY <1>0, <2>1, <2>2, QuietAction
<1>4. CASE FindBucket(r)
  <2> DEFINE at == AfterFind(req[r].op)
  <2>1. /\ req[r].at = "find" /\ Commit(r, at)
        /\ UNCHANGED <<bucket, row, bytes, lastEvent, usage, overlap, acked>>
        /\ urls' = urls + Presigned(req[r].op)
    BY <1>4 DEF FindBucket, InTx, data, history
  <2>2. /\ at \in {"done", "put", "erase", "get"}
        /\ at = "put" => req[r].op = "Upload"
        /\ at = "erase" => req[r].op = "DeleteObject"
        /\ req[r].op = "PresignUpload" => at = "done"
    BY DEF AfterFind
  <2>3. urls \in Nat
    BY IInvIs, Parameters DEF Rest, UrlsOK
  <2>4. urls' = urls \/ (urls' = urls + 1 /\ at = "done")
    BY <2>1, <2>2, <2>3 DEF Presigned
  <2> HIDE DEF at
  <2>5. at \in Steps
    BY <1>0, <2>2
  <2>6. PoolsInv' /\ Goes(r, at)
    BY <2>1, <2>5, EndOfTx
  <2>7. req[r].at # "done"
    BY <2>1
  <2> QED
    BY <1>0, <2>1, <2>2, <2>4, <2>6, <2>7, QuietAction
<1> QED
  BY <1>1, <1>2, <1>3, <1>4

\* The calls of the object store.
LEMMA ObjectStoreKeeps ==
    ASSUME IInv, NEW r \in Requests, Put(r) \/ Erase(r)
    PROVE  IInv'
<1>1. StatesTyped /\ PlaceInv /\ UrlsOK /\ DataInv
  BY IInvIs DEF Rest
<1>2. /\ req[r].at \in {"put", "erase"} /\ Begins(r)
      /\ UNCHANGED <<bucket, row, lastEvent, urls, usage>>
  BY DEF Put, Erase
<1>3. req[r].at = "erase" => req[r].content = 0
  BY <1>1 DEF PlaceInv
<1>4. bytes' \in {bytes, req[r].content} /\ \E at \in {"write", "done"} :
         Leave(r, at) /\ (at = "write" => bytes' = req[r].content)
  BY <1>3 DEF Put, Erase
<1>5. PICK at \in {"write", "done"} : Leave(r, at) /\ (at = "write" => bytes' = req[r].content)
  BY <1>4
<1>6. at \in Steps /\ req[r].at \in Steps \ (TxSteps \cup {"drop"})
  BY <1>2, <1>5 DEF Steps, TxSteps
<1>7. PoolsInv' /\ Goes(r, at)
  BY <1>5, <1>6, EndOfCall
<1>8. StatesTyped'
  <2>1. overlap' \subseteq Requests /\ acked' = Unknown
    BY <1>1, <1>2, HistoryTyped DEF Begins
  <2>2. req[r].content \in Contents
    BY <1>1 DEF StatesTyped, ReqRecs
  <2> QED
    BY <1>1, <1>2, <1>4, <1>7, <2>1, <2>2, KnownTyped DEF StatesTyped, Goes
<1>9. PlaceInv'
  BY <1>5, <1>6, <1>7, GoesPlaced
<1>10. UrlsOK'
  BY <1>1, <1>2, <1>7, UrlsSame DEF Goes
<1>11. DataInv'
  <2>1. /\ IsWriter(req'[r]) => at = "write"
        /\ at = "write" => req'[r].content = req[r].content /\ req'[r].at = "write"
    BY <1>5, <1>7 DEF IsWriter, Goes
  <2>2. \A q \in Requests : q # r => req'[q] = req[q]
    BY <1>7 DEF Goes
  <2> QED
    BY <1>1, <1>2, <1>5, <2>1, <2>2, BeginsStep
<1> QED
  BY <1>7, <1>8, <1>9, <1>10, <1>11, IInvIs DEF Rest

\* UploadComplete reads what the client has put.
LEMMA HeadKeeps ==
    ASSUME IInv, NEW r \in Requests, Head(r)
    PROVE  IInv'
<1>1. StatesTyped /\ PlaceInv /\ UrlsOK /\ DataInv
  BY IInvIs DEF Rest
<1>2. /\ req[r].at = "head" /\ Begins(r)
      /\ req' = [req EXCEPT ![r].at = "write", ![r].content = bytes]
      /\ caller' = [caller EXCEPT ![r] = Calling]
      /\ UNCHANGED <<pools, flight>>
      /\ UNCHANGED <<bucket, row, bytes, lastEvent, urls, usage>>
  BY DEF Head, data
<1>3. req[r] \in ReqRecs /\ req \in [Requests -> ReqRecs] /\ bytes \in Contents
  BY <1>1 DEF StatesTyped
<1>4. /\ req'[r] = [op |-> req[r].op, at |-> "write", content |-> bytes]
      /\ \A q \in Requests : q # r => req'[q] = req[q]
      /\ req' \in [Requests -> ReqRecs]
  BY <1>2, <1>3 DEF ReqRecs, Steps
<1>5. req'[r].op = req[r].op /\ req'[r].at = "write" /\ req'[r].content = bytes
  BY <1>4
<1>6. req[r].at \in Steps \ (TxSteps \cup {"drop"})
  BY <1>2 DEF Steps, TxSteps
<1>7. /\ PoolsInv' /\ caller'[r] = Calling
      /\ \A q \in Requests : q # r => caller'[q] = caller[q]
  BY <1>2, <1>6, CallerReplaced
<1>8. StatesTyped'
  <2>1. overlap' \subseteq Requests /\ acked' = Unknown
    BY <1>1, <1>2, HistoryTyped DEF Begins
  <2> QED
    BY <1>1, <1>2, <1>4, <2>1, KnownTyped DEF StatesTyped
<1>9. PlaceInv'
  <2>1. req[r].op = "UploadComplete"
    BY <1>1, <1>2 DEF PlaceInv
  <2>2. Placed(req'[r], caller'[r])
    BY <1>5, <2>1 DEF Placed, TxSteps
  <2> QED
    BY <1>1, <1>4, <1>7, <2>2, PlaceThen
<1>10. UrlsOK'
  BY <1>1, <1>2, <1>4, UrlsSame
<1>11. DataInv'
  BY <1>1, <1>2, <1>4, <1>5, BeginsStep
<1> QED
  BY <1>7, <1>8, <1>9, <1>10, <1>11, IInvIs DEF Rest

\* The rows.
LEMMA RowKeeps ==
    ASSUME IInv, NEW r \in Requests, Upsert(r) \/ DeleteRow(r)
    PROVE  IInv'
<1>1. StatesTyped /\ PlaceInv /\ UrlsOK /\ DataInv
  BY IInvIs DEF Rest
<1>2. /\ req[r].at = "write" /\ req[r].op \in ObjectOps
      /\ row' = req[r].content /\ (bucket = "none" => row' = 0)
      /\ Commit(r, "publish") \/ Commit(r, "done")
      /\ UNCHANGED <<bucket, bytes, lastEvent, urls, usage, overlap, acked>>
  BY <1>1 DEF Upsert, DeleteRow, InTx, Upserted, ObjectOps, PlaceInv, history
<1>3. PICK at \in {"publish", "done"} : Commit(r, at)
  BY <1>2
<1>4. at \in Steps
  BY <1>3 DEF Steps
<1>5. PoolsInv' /\ Goes(r, at)
  BY <1>3, <1>4, EndOfTx
<1>6. StatesTyped'
  <2>1. req[r].content \in Contents
    BY <1>1 DEF StatesTyped, ReqRecs
  <2> QED
    BY <1>1, <1>2, <1>5, <2>1 DEF StatesTyped, Goes
<1>7. PlaceInv'
  BY <1>2, <1>3, <1>4, <1>5, GoesPlaced
<1>8. UrlsOK'
  BY <1>1, <1>2, <1>5, UrlsSame DEF Goes
<1>9. DataInv'
  <2>1. /\ IsWriter(req[r])
        /\ IsWriter(req'[r]) => req'[r].at = "publish" /\ req'[r].content = req[r].content
    BY <1>2, <1>3, <1>5 DEF IsWriter, Goes
  <2>2. \A q \in Requests : q # r => req'[q] = req[q]
    BY <1>5 DEF Goes
  <2> QED
    BY <1>1, <1>2, <2>1, <2>2, RowStep
<1> QED
  BY <1>5, <1>6, <1>7, <1>8, <1>9, IInvIs DEF Rest

\* The event, and the answer.
LEMMA PublishKeeps ==
    ASSUME IInv, NEW r \in Requests, Publish(r)
    PROVE  IInv'
<1>1. StatesTyped /\ PlaceInv /\ UrlsOK /\ DataInv
  BY IInvIs DEF Rest
<1>2. /\ req[r].at = "publish" /\ Leave(r, "done") /\ UNCHANGED <<bucket, row, bytes, urls, usage>>
      /\ \E told \in BOOLEAN : Ends(r, told) /\
            IF told THEN lastEvent' = Event(req[r].content) ELSE lastEvent' = lastEvent
  BY DEF Publish
<1>3. PICK told \in BOOLEAN : Ends(r, told) /\
            IF told THEN lastEvent' = Event(req[r].content) ELSE lastEvent' = lastEvent
  BY <1>2
<1>4. "done" \in Steps /\ req[r].at \in Steps \ (TxSteps \cup {"drop"})
  BY <1>2 DEF Steps, TxSteps
<1>5. PoolsInv' /\ Goes(r, "done")
  BY <1>2, <1>4, EndOfCall
<1>6. StatesTyped'
  <2>1. overlap' \subseteq Requests
    BY <1>1, <1>3, HistoryTyped
  <2>2. req[r].content \in Contents
    BY <1>1 DEF StatesTyped, ReqRecs
  <2>3. acked' \in [known : BOOLEAN, content : Contents, told : BOOLEAN]
    BY <1>1, <1>3, <2>2, KnownTyped DEF StatesTyped, Ends
  <2>4. lastEvent' \in {"none", "created", "deleted"}
    BY <1>1, <1>3 DEF StatesTyped, Event
  <2> QED
    BY <1>1, <1>2, <1>5, <2>1, <2>3, <2>4 DEF StatesTyped, Goes
<1>7. PlaceInv'
  BY <1>4, <1>5, GoesPlaced
<1>8. UrlsOK'
  BY <1>1, <1>2, <1>5, UrlsSame DEF Goes
<1>9. DataInv'
  <2>1. IsWriter(req[r])
    BY <1>1, <1>2 DEF IsWriter, PlaceInv
  <2>2. ~IsWriter(req'[r]) /\ \A q \in Requests : q # r => req'[q] = req[q]
    BY <1>5 DEF IsWriter, Goes
  <2> QED
    BY <1>1, <1>2, <1>3, <2>1, <2>2, AnswerStep
<1> QED
  BY <1>5, <1>6, <1>7, <1>8, <1>9, IInvIs DEF Rest

\* DeleteBucket.
LEMMA CountKeeps ==
    ASSUME IInv, NEW r \in Requests, CountObjects(r)
    PROVE  IInv'
<1>1. StatesTyped /\ PlaceInv /\ UrlsOK /\ DataInv /\ PoolsInv
  BY IInvIs DEF Rest
<1>2. /\ req[r].at = "count"
      /\ UNCHANGED <<bucket, row, bytes, lastEvent, urls, usage, acked>>
      /\ \/ Rollback(r) /\ UNCHANGED overlap
         \/ row = 0 /\ To(r, "drop") /\ Meet(r) /\ UNCHANGED poolVars
  BY DEF CountObjects, InTx, Counted, data
<1>3. CASE Rollback(r) /\ UNCHANGED overlap
  <2>1. "done" \in Steps /\ bucket \in {"none", "open", "strict"}
    BY <1>1 DEF Steps, StatesTyped
  <2>2. PoolsInv' /\ Goes(r, "done")
    BY <1>3, <2>1, EndOfTx
  <2> QED
    BY <1>2, <1>3, <2>1, <2>2, QuietAction
<1>4. CASE row = 0 /\ To(r, "drop") /\ Meet(r) /\ UNCHANGED poolVars
  <2>1. PoolsInv' /\ UNCHANGED caller
    BY <1>1, <1>4, IdleKeeps DEF poolVars
  <2>2. "drop" \in Steps /\ req \in [Requests -> ReqRecs]
    BY <1>1 DEF Steps, StatesTyped
  <2>3. /\ req' \in [Requests -> ReqRecs]
        /\ \A q \in Requests : q # r => req'[q] = req[q]
        /\ req'[r].at = "drop" /\ req'[r].op = req[r].op /\ req'[r].content = req[r].content
    BY <1>4, <2>2, ToMoves
  <2>4. StatesTyped'
    <3>1. overlap' \subseteq Requests
      BY <1>1, <1>4, HistoryTyped
    <3> QED
      BY <1>1, <1>2, <2>3, <3>1 DEF StatesTyped
  <2>5. PlaceInv'
    <3>1. Placed(req[r], caller[r])
      BY <1>1, PlacesAre
    <3>2. Placed(req'[r], caller'[r])
      BY <2>3, <3>1 DEF Placed
    <3> QED
      BY <1>1, <2>1, <2>3, <3>2, PlaceThen
  <2>6. UrlsOK'
    BY <1>1, <1>2, <2>3, UrlsSame
  <2>7. DataInv'
    BY <1>1, <1>2, <1>4, <2>3, CountedStep
  <2> QED
    BY <2>1, <2>4, <2>5, <2>6, <2>7, IInvIs DEF Rest
<1> QED
  BY <1>2, <1>3, <1>4

\* DeleteBucket deletes the bucket and its row.
LEMMA DropKeeps ==
    ASSUME IInv, NEW r \in Requests, DropBucket(r)
    PROVE  IInv'
<1>1. StatesTyped /\ PlaceInv /\ UrlsOK /\ DataInv
  BY IInvIs DEF Rest
<1>2. /\ req[r].at = "drop" /\ (Commit(r, "done") \/ Rollback(r))
      /\ UNCHANGED <<bytes, lastEvent, urls, usage, overlap, acked>>
      /\ (bucket' = "none" /\ row' = 0) \/ (bucket' = bucket /\ row' = row)
  BY DEF DropBucket, InTx, history
<1>3. "done" \in Steps
  BY DEF Steps
<1>4. PoolsInv' /\ Goes(r, "done")
  BY <1>2, <1>3, EndOfTx
<1>5. StatesTyped'
  <2>1. 0 \in Contents
    BY Parameters DEF Contents
  <2> QED
    BY <1>1, <1>2, <1>4, <2>1 DEF StatesTyped, Goes
<1>6. PlaceInv'
  BY <1>3, <1>4, GoesPlaced
<1>7. UrlsOK'
  BY <1>1, <1>2, <1>4, UrlsSame DEF Goes
<1>8. DataInv'
  <2>1. ~IsWriter(req'[r]) /\ \A q \in Requests : q # r => req'[q] = req[q]
    BY <1>4 DEF IsWriter, Goes
  <2>2. /\ row' = row \/ row' = 0
        /\ UNCHANGED <<bytes, lastEvent, overlap, acked>> /\ req[r].at = "drop"
    BY <1>2
  <2>3. DataInv
    BY <1>1
  <2> QED
    BY <2>1, <2>2, <2>3, DropStep
<1> QED
  BY <1>4, <1>5, <1>6, <1>7, <1>8, IInvIs DEF Rest

\* Steps of the pools alone: a request that is out of them stays out.
LEMMA PoolsKeep ==
    ASSUME IInv, (\E r \in Requests : CallerStep(r)) \/ Housekeeping,
           UNCHANGED <<data, req, urls, usage, history>>
    PROVE  IInv'
<1>1. StatesTyped /\ PlaceInv /\ UrlsOK /\ DataInv /\ PoolsInv
  BY IInvIs DEF Rest
<1>2. UNCHANGED <<bucket, row, bytes, lastEvent, req, urls, usage, overlap, acked>>
  BY DEF data, history
<1>3. PoolsInv'
  BY <1>1, CallerStepKeeps, HousekeepingKeeps, Parameters
<1>4. ASSUME NEW q \in Requests, caller[q] = Out PROVE caller'[q] = Out
  <2>1. q \in Callers /\ caller[q].pc = "out" /\ q \notin flight
    BY <1>1, <1>4, OutAndCalling, Parameters DEF PoolsInv, FlightInv, Waiters, Creators
  <2>2. caller \in [Callers -> [pc : CallerPCs, pool : 0..MaxPools]]
    BY <1>1, TypesAndCount DEF PoolsInv, PoolsTypes
  <2>3. CASE Housekeeping
    BY <1>4, <2>3 DEF Housekeeping, TimePasses, evictIdle, Close, PoolClosed
  <2>4. ASSUME NEW r \in Requests, CallerStep(r) PROVE caller'[q] = Out
    <3>1. caller[r].pc # "out" /\ q # r
      BY <2>1, <2>4 DEF CallerStep, GetPool, Do, CheckAgain, createPool, createPoolFails, Store,
                        Begin, BeginFails
    <3>2. \/ \E rec : caller' = [caller EXCEPT ![r] = rec]
          \/ \E rec : caller' = [d \in Callers |-> IF d \in flight THEN rec ELSE caller[d]]
      BY <2>4 DEF CallerStep, GetPool, Do, CheckAgain, createPool, createPoolFails, Store,
                  Begin, BeginFails, Become, Land
    <3> QED
      BY <1>4, <2>1, <2>2, <3>1, <3>2
  <2> QED
    BY <2>3, <2>4
<1>5. StatesTyped' /\ UrlsOK' /\ DataInv'
  BY <1>1, <1>2, UrlsSame, QuietStep DEF StatesTyped
<1>6. PlaceInv'
  BY <1>1, <1>2, <1>4 DEF PlaceInv
<1> QED
  BY <1>3, <1>5, <1>6, IInvIs DEF Rest

\* A client uses a presigned URL.
LEMMA ClientKeeps ==
    ASSUME IInv, ClientPut
    PROVE  IInv'
<1>1. StatesTyped /\ PlaceInv /\ UrlsOK /\ DataInv /\ PoolsInv
  BY IInvIs DEF Rest
<1>2. /\ urls > 0 /\ urls' = urls - 1 /\ bytes' = FromClient
      /\ overlap' = overlap \cup Writers /\ acked' = Unknown
      /\ UNCHANGED <<poolVars, bucket, row, lastEvent, req, usage>>
  BY DEF ClientPut
<1>3. PoolsInv' /\ UNCHANGED caller
  BY <1>1, <1>2, IdleKeeps DEF poolVars
<1>4. StatesTyped'
  <2>1. FromClient \in Contents
    BY Parameters DEF FromClient, Contents
  <2>2. overlap' \subseteq Requests
    BY <1>1, <1>2 DEF StatesTyped, Writers
  <2> QED
    BY <1>1, <1>2, <2>1, <2>2, KnownTyped DEF StatesTyped
<1>5. PlaceInv'
  BY <1>1, <1>2, <1>3 DEF PlaceInv
<1>6. UrlsOK'
  BY <1>1, <1>2, UrlsSame
<1>7. DataInv'
  BY <1>1, <1>2, ClientStep
<1> QED
  BY <1>3, <1>4, <1>5, <1>6, <1>7, IInvIs DEF Rest

-----------------------------------------------------------------------------
(* The invariant, in every state. *)

\* The initial states have it.
LEMMA InitInvariant == Init => IInv
<1> SUFFICES ASSUME Init PROVE IInv
  OBVIOUS
<1>1. /\ usage \in Usages /\ PoolsInit(usage.warm) /\ bucket \in usage.buckets
      /\ row \in (IF bucket = "none" THEN {0} ELSE usage.rows)
      /\ bytes = row /\ lastEvent = "none"
      /\ req = [r \in Requests |-> [op |-> "Download", at |-> "new", content |-> 0]]
      /\ urls = 0 /\ overlap = {} /\ acked = Known(row, FALSE)
  BY DEF Init
<1>2. usage \in Usages
  BY <1>1
<1>3. /\ usage.warm \in BOOLEAN /\ (usage.warm => MaxPools # 0)
      /\ usage.buckets \subseteq {"none", "open", "strict"} /\ usage.rows \subseteq Contents
  BY <1>2, StorageAssumption DEF Contents
<1>4. PoolsInv
  BY <1>1, <1>3, PoolsInitInv
<1>5. \A r \in Requests : /\ req[r].at = "new" /\ req[r].op = "Download" /\ req[r].content = 0
                          /\ caller[r] = Out
  BY <1>1, Parameters DEF PoolsInit
<1>6. StatesTyped
  <2>1. 0 \in Contents
    BY Parameters DEF Contents
  <2>2. [op |-> "Download", at |-> "new", content |-> 0] \in ReqRecs
    BY <2>1 DEF ReqRecs, Ops, ReadOps, Steps
  <2>3. req \in [Requests -> ReqRecs]
    BY <1>1, <2>2
  <2>4. row \in Contents /\ (bucket = "none" => row = 0) /\ bucket \in {"none", "open", "strict"}
    BY <1>1, <1>3, <2>1
  <2>5. acked \in [known : BOOLEAN, content : Contents, told : BOOLEAN]
    BY <1>1, <2>4, KnownTyped
  <2> QED
    BY <1>1, <2>3, <2>4, <2>5 DEF StatesTyped
<1>7. PlaceInv
  BY <1>5, PlacesAre DEF Placed
<1>8. UrlsOK
  <2>1. Cardinality(Ended(req)) \in Nat
    BY EndedFinite
  <2> QED
    BY <1>1, <2>1, Parameters DEF UrlsOK, UrlsInv, Ended
<1>9. DataInv
  <2>1. Writers = {}
    BY <1>5, WritersAre DEF IsWriter
  <2>2. acked.content = row /\ ~acked.told
    BY <1>1 DEF Known
  <2> QED
    BY <1>1, <2>1, <2>2 DEF DataInv, WritersInv, AckedInv, ViewsAgree
<1> QED
  BY <1>4, <1>6, <1>7, <1>8, <1>9, IInvIs DEF Rest

\* Every step keeps it.
LEMMA NextInvariant == IInv /\ [Next]_vars => IInv'
<1> SUFFICES ASSUME IInv, [Next]_vars PROVE IInv'
  OBVIOUS
<1>1. ASSUME NEW r \in Requests, Serve(r) PROVE IInv'
  BY <1>1, PoolsKeep, QuietKeeps, ObjectStoreKeeps, HeadKeeps, RowKeeps, PublishKeeps, CountKeeps,
     DropKeeps DEF Serve, Answered, Pooled
<1>2. ASSUME NEW r \in Requests, NEW op \in Ops, Arrive(r, op) PROVE IInv'
  BY <1>2, ArriveKeeps
<1>3. CASE ClientPut
  BY <1>3, ClientKeeps
<1>4. CASE Housekeep
  BY <1>4, PoolsKeep DEF Housekeep, Pooled
<1>5. CASE UNCHANGED vars
  <2>1. UNCHANGED poolVars /\ UNCHANGED <<data, req, urls, usage, history>>
    BY <1>5 DEF vars, history
  <2>2. StatesTyped /\ PlaceInv /\ UrlsOK /\ DataInv /\ PoolsInv
    BY IInvIs DEF Rest
  <2>3. UNCHANGED <<bucket, row, bytes, lastEvent, req, urls, usage, overlap, acked, caller>>
    BY <2>1 DEF data, history, poolVars
  <2>4. PoolsInv'
    BY <2>1, <2>2, IdleKeeps
  <2>5. StatesTyped' /\ UrlsOK' /\ DataInv'
    BY <2>2, <2>3, UrlsSame, QuietStep DEF StatesTyped
  <2>6. PlaceInv'
    BY <2>2, <2>3 DEF PlaceInv
  <2> QED
    BY <2>4, <2>5, <2>6, IInvIs DEF Rest
<1> QED
  BY <1>1, <1>2, <1>3, <1>4, <1>5 DEF Next

(* The invariant holds in every state. *)
THEOREM Invariance == Spec => []IInv
BY InitInvariant, NextInvariant, PTL DEF Spec

(* The variables have their types, and the connections in use of a pool are those of the *)
(* callers in a transaction on it: none is lost, and no pool has more than MaxConns.     *)
THEOREM TypeCorrect == Spec => []TypeOK
<1>1. IInv => TypeOK
  BY DEF IInv
<1> QED
  BY <1>1, Invariance, PTL

(* Every pool that is open is in the map, or on its way there, unless Close has run, so  *)
(* evictIdle and Close will find it (property NoPoolLost).                               *)
THEOREM PoolsKept == Spec => []NoPoolLost
<1>1. IInv => NoPoolLost
  BY DEF IInv, PoolsInv
<1> QED
  BY <1>1, Invariance, PTL

(* After a write that was answered and met no other, the object store, the row and the   *)
(* last event agree on it (property ViewsAgree).                                         *)
THEOREM ViewsAgreed == Spec => []ViewsAgree
<1>1. IInv => ViewsAgree
  BY DEF IInv
<1> QED
  BY <1>1, Invariance, PTL
================================================================================
