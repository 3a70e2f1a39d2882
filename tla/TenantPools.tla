------------------------------ MODULE TenantPools ------------------------------
(***************************************************************************)
(* The pool manager of Storage MS: one pool of connections for a project's *)
(* database, created once for all the callers that need it at the same     *)
(* time (singleflight), evicted when idle, closed at shutdown.  The        *)
(* projects share only the mutex, so one project's entry is modelled.  A   *)
(* caller is a call of WithRLS; what runs in its transaction is for the    *)
(* extending module.                                                       *)
(* Code: services/storage/internal/pool.                                   *)
(***************************************************************************)
EXTENDS Naturals, FiniteSets

CONSTANTS Callers,
          MaxConns,    \* connections of a pool
          MaxPools     \* bound: pools created

ASSUME PoolsAssumption ==
    IsFiniteSet(Callers) /\ MaxConns \in Nat \ {0} /\ MaxPools \in Nat

VARIABLES entry,     \* m.pools[projectID], 0 when there is none
          idle,      \* its last use is longer ago than idleTTL
          open,      \* the pools not closed
          made,      \* number of pools created
          conns,     \* of each pool, its connections in use
          mu,        \* m.mu: free, or kept while a pool closes
          stopped,   \* Close was called
          flight,    \* the callers waiting for the creation that runs
          caller     \* each caller: where it is, with which pool

pools == <<entry, idle, open, made, conns, mu, stopped>>
poolVars == <<pools, flight, caller>>

Pools == 1..MaxPools
CallerPCs == {"out", "get", "do", "check", "create", "store", "join", "begin", "tx", "err"}
At(pc, p) == [pc |-> pc, pool |-> p]
Out == At("out", 0)
Calling == At("get", 0)

PoolsInit(warm) ==
    /\ entry = (IF warm THEN 1 ELSE 0)
    /\ open = (IF warm THEN {1} ELSE {})
    /\ made = entry
    /\ idle = FALSE /\ mu = "free" /\ stopped = FALSE /\ flight = {}
    /\ conns = [p \in Pools |-> 0]
    /\ caller = [c \in Callers |-> Out]

Become(c, pc, p) == caller' = [caller EXCEPT ![c] = At(pc, p)]

-----------------------------------------------------------------------------
(* GetPool: the entry of the map, or a creation shared with every caller   *)
(* that asks meanwhile; the one that runs it looks at the map once more.   *)
GetPool(c) ==
    /\ caller[c].pc = "get" /\ mu = "free"
    /\ IF entry # 0 THEN Become(c, "begin", entry) /\ idle' = FALSE
                    ELSE Become(c, "do", 0) /\ UNCHANGED idle
    /\ UNCHANGED <<entry, open, made, conns, mu, stopped, flight>>

Do(c) ==
    /\ caller[c].pc = "do"
    /\ flight' = flight \cup {c}
    /\ Become(c, IF flight = {} THEN "check" ELSE "join", 0)
    /\ UNCHANGED pools

(* The creation ends: its callers all get the pool, or all the error.      *)
Land(pc, p) ==
    /\ caller' = [c \in Callers |-> IF c \in flight THEN At(pc, p) ELSE caller[c]]
    /\ flight' = {}

CachedNever == 0                   \* mutant: the map is not looked at again
Cached == entry
CheckAgain(c) ==
    /\ caller[c].pc = "check" /\ mu = "free"
    /\ IF Cached # 0 THEN Land("begin", Cached) /\ idle' = FALSE
                     ELSE Become(c, "create", 0) /\ UNCHANGED <<flight, idle>>
    /\ UNCHANGED <<entry, open, made, conns, mu, stopped>>

createPool(c) ==
    /\ caller[c].pc = "create" /\ made < MaxPools
    /\ made' = made + 1
    /\ open' = open \cup {made'}
    /\ Become(c, "store", made')
    /\ UNCHANGED <<entry, idle, conns, mu, stopped, flight>>

(* The Secret is missing or incomplete, or the database does not answer    *)
(* within 15 s.                                                            *)
createPoolFails(c) ==
    /\ caller[c].pc = "create"
    /\ Land("err", 0)
    /\ UNCHANGED pools

Store(c) ==
    /\ caller[c].pc = "store" /\ mu = "free"
    /\ entry' = caller[c].pool /\ idle' = FALSE
    /\ Land("begin", entry')
    /\ UNCHANGED <<open, made, conns, mu, stopped>>

-----------------------------------------------------------------------------
(* WithRLS: Begin waits for a connection, and fails on a pool that closes. *)
HasRoom(p) == conns[p] < MaxConns
Begin(c) ==
    /\ caller[c].pc = "begin" /\ caller[c].pool \in open /\ HasRoom(caller[c].pool)
    /\ conns' = [conns EXCEPT ![caller[c].pool] = @ + 1]
    /\ Become(c, "tx", caller[c].pool)
    /\ UNCHANGED <<entry, idle, open, made, mu, stopped, flight>>

(* A cancelled request, a lost database; and a closed pool, which is the   *)
(* one case where it cannot but fail: the wait has no deadline.            *)
BeginFails(c) ==
    /\ caller[c].pc = "begin"
    /\ Become(c, "err", 0)
    /\ UNCHANGED <<pools, flight>>
BeginOnClosedPool(c) == BeginFails(c) /\ caller[c].pool \notin open

(* Commit, or the deferred Rollback, gives the connection back.            *)
ReleaseOnCommit(p, committed) ==   \* mutant: no deferred Rollback
    conns' = [conns EXCEPT ![p] = IF committed THEN @ - 1 ELSE @]
Release(p, committed) == conns' = [conns EXCEPT ![p] = @ - 1]
EndTx(c, committed, next) ==
    /\ caller[c].pc = "tx"
    /\ Release(caller[c].pool, committed)
    /\ caller' = [caller EXCEPT ![c] = next]
    /\ UNCHANGED <<entry, idle, open, made, mu, stopped, flight>>

-----------------------------------------------------------------------------
(* evictIdle and Close hold the mutex while pool.Close waits for the       *)
(* connections that are in use.                                            *)
TimePasses ==
    /\ entry # 0 /\ ~idle /\ idle' = TRUE
    /\ UNCHANGED <<entry, open, made, conns, mu, stopped, flight, caller>>

evictIdle ==
    /\ mu = "free" /\ ~stopped /\ entry # 0 /\ idle
    /\ mu' = "closing" /\ open' = open \ {entry}
    /\ UNCHANGED <<entry, idle, made, conns, stopped, flight, caller>>

Close ==
    /\ mu = "free" /\ ~stopped
    /\ stopped' = TRUE
    /\ mu' = (IF entry = 0 THEN "free" ELSE "closing")
    /\ open' = open \ {entry}
    /\ UNCHANGED <<entry, idle, made, conns, flight, caller>>

PoolClosed ==
    /\ mu = "closing" /\ conns[entry] = 0
    /\ entry' = 0 /\ idle' = FALSE /\ mu' = "free"
    /\ UNCHANGED <<open, made, conns, stopped, flight, caller>>

CallerStep(c) == \/ GetPool(c) \/ Do(c) \/ CheckAgain(c) \/ createPool(c) \/ createPoolFails(c)
                 \/ Store(c) \/ Begin(c) \/ BeginFails(c)
(* What a caller does without waiting for a connection.                    *)
Proceeds(c) == \/ GetPool(c) \/ Do(c) \/ CheckAgain(c) \/ createPool(c) \/ createPoolFails(c)
               \/ Store(c) \/ BeginOnClosedPool(c)
Housekeeping == TimePasses \/ evictIdle \/ Close \/ PoolClosed

-----------------------------------------------------------------------------
PoolsTypeOK ==
    /\ entry \in 0..MaxPools /\ idle \in BOOLEAN /\ open \subseteq 1..made /\ made \in 0..MaxPools
    /\ conns \in [Pools -> 0..MaxConns] /\ mu \in {"free", "closing"} /\ stopped \in BOOLEAN
    /\ flight \subseteq Callers /\ caller \in [Callers -> [pc : CallerPCs, pool : 0..MaxPools]]
    /\ \A p \in Pools : conns[p] = Cardinality({c \in Callers : caller[c] = At("tx", p)})

(* No pool is lost: every pool that is open is in the map, or about to be  *)
(* put there by the caller that created it, so that evictIdle and Close    *)
(* will close it.  Only a creation that Close overtakes escapes.           *)
NoPoolLost ==
    stopped \/ open \subseteq {entry} \cup {caller[c].pool : c \in {d \in Callers : caller[d].pc = "store"}}
=============================================================================
