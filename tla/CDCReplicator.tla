--------------------------- MODULE CDCReplicator ---------------------------
(***************************************************************************)
(* The CDC pod of one project (services/cdc-pod): it reads the logical     *)
(* replication stream of the project's PostgreSQL, publishes one event per *)
(* changed row to the JetStream stream of the project and reports to the   *)
(* server how far it has got, which is where the server resumes after a    *)
(* restart.                                                                *)
(*                                                                         *)
(* The write-ahead log is a sequence of decoded entries.  An entry has the *)
(* position (lsn) of the record it comes from, every record takes          *)
(* RecordSize positions, and a message has a length that is unrelated to   *)
(* the size of its record (len).  PostgreSQL, the connection and JetStream *)
(* are outside src/ and are modelled as the pod sees them.                 *)
(***************************************************************************)
EXTENDS Integers, Sequences, FiniteSets

CONSTANTS
    MaxTx,       \* bound on the number of transactions
    MaxEntries,  \* bound on the length of the log
    RecordSize,  \* positions a record of the log takes
    MsgLens,     \* lengths of Insert, Update and Delete messages
    BeginLen,    \* length of a Begin message
    CommitLen,   \* length of a Commit message
    MultiRow,    \* whether one record may hold several rows (COPY)
    Encodable,   \* whether json.Marshal accepts a row: {TRUE}, or BOOLEAN
    MaxFaults    \* bound on crashes, shutdowns and failing publishes

NoLSN == -1

ASSUME ReplicatorAssumption ==
    /\ MaxTx \in Nat /\ MaxEntries \in Nat /\ MaxFaults \in Nat
    /\ RecordSize \in Nat \ {0}
    /\ MsgLens \subseteq Nat \ {0}
    /\ BeginLen \in 1..RecordSize
    /\ CommitLen \in 1..RecordSize
    /\ MultiRow \in BOOLEAN
    /\ Encodable \subseteq BOOLEAN

VARIABLES
    wal,              \* the log: changes, commits and rollbacks
    consistentPoint,  \* where the replication slot was created, or NoLSN
    confirmedFlush,   \* confirmed_flush_lsn of the slot, or NoLSN
    up,               \* whether the pod is in streamLoop
    startLSN,         \* where the session started
    txn,              \* entry of the commit of the transaction being received
    next,             \* entry of the message to receive next, 0: a Begin
    flushedLSN,       \* flushedLSN of streamLoop
    stream,           \* the entries stored in the JetStream stream
    window,           \* event IDs JetStream still deduplicates
    expired,          \* event IDs that have left that window
    faults            \* crashes, shutdowns and failed publishes so far

session == <<up, startLSN, txn, next, flushedLSN>>
slot == <<consistentPoint, confirmedFlush>>
nats == <<stream, window, expired>>
vars == <<wal, slot, session, nats, faults>>

Tx == 1..MaxTx

Entries == [kind : {"change", "commit", "rollback"}, tx : Tx, lsn : Nat,
            len : Nat, encodable : BOOLEAN]

EventIDs == Nat \X Tx

TypeOK ==
    /\ wal \in Seq(Entries)
    /\ consistentPoint \in Nat \cup {NoLSN}
    /\ confirmedFlush \in Nat \cup {NoLSN}
    /\ up \in BOOLEAN
    /\ startLSN \in Nat
    /\ txn \in 0..Len(wal)
    /\ next \in 0..Len(wal)
    /\ flushedLSN \in Nat
    /\ stream \in Seq(1..Len(wal))
    /\ window \subseteq EventIDs /\ expired \subseteq EventIDs
    /\ faults \in Nat

-----------------------------------------------------------------------------
(* The log. *)

EndOfWAL == IF wal = <<>> THEN 0 ELSE wal[Len(wal)].lsn + RecordSize

Commits == {j \in DOMAIN wal : wal[j].kind = "commit"}
Changes == {i \in DOMAIN wal : wal[i].kind = "change"}
ChangesOf(j) == {i \in Changes : wal[i].tx = wal[j].tx}

Ended == {wal[i].tx : i \in DOMAIN wal \ Changes}
Begun == {wal[i].tx : i \in Changes}
Open == Begun \ Ended

\* A transaction gets its number with its first write.  Every open transaction
\* keeps room in the bounded log for its end.
WriteChange(t, len, encodable) ==
    /\ t \notin Ended
    /\ 1..(t - 1) \subseteq Begun
    /\ Len(wal) + Cardinality(Open \cup {t}) < MaxEntries
    /\ \E lsn \in {EndOfWAL} \cup
                  {wal[i].lsn : i \in {k \in Changes : /\ MultiRow
                                                       /\ k = Len(wal)
                                                       /\ wal[k].tx = t}} :
          wal' = Append(wal, [kind |-> "change", tx |-> t, lsn |-> lsn,
                              len |-> len, encodable |-> encodable])
    /\ UNCHANGED <<slot, session, nats, faults>>

EndTransaction(t, kind) ==
    /\ t \in Open
    /\ wal' = Append(wal, [kind |-> kind, tx |-> t, lsn |-> EndOfWAL,
                           len |-> CommitLen, encodable |-> TRUE])
    /\ UNCHANGED <<slot, session, nats, faults>>

Clients ==
    \E t \in Tx :
        \/ \E len \in MsgLens, encodable \in Encodable :
              WriteChange(t, len, encodable)
        \/ EndTransaction(t, "commit")
        \/ EndTransaction(t, "rollback")

-----------------------------------------------------------------------------
(* Run: the slot is created once, then every session starts from it. *)

\* The server creates a slot when the transactions in progress have ended.
CreateSlot ==
    /\ ~up
    /\ confirmedFlush = NoLSN
    /\ Open = {}
    /\ consistentPoint' = EndOfWAL
    /\ confirmedFlush' = EndOfWAL
    /\ UNCHANGED <<wal, session, nats, faults>>

\* Mutant: streaming starts at the end of the log, not at the slot's position.
StartReplicationAtEnd ==
    /\ ~up
    /\ confirmedFlush # NoLSN
    /\ up' = TRUE
    /\ startLSN' = EndOfWAL
    /\ flushedLSN' = confirmedFlush
    /\ txn' = 0
    /\ next' = 0
    /\ UNCHANGED <<wal, slot, nats, faults>>

StartReplication ==
    /\ ~up
    /\ confirmedFlush # NoLSN
    /\ up' = TRUE
    /\ startLSN' = confirmedFlush
    /\ flushedLSN' = confirmedFlush
    /\ txn' = 0
    /\ next' = 0
    /\ UNCHANGED <<wal, slot, nats, faults>>

\* The process exits: on SIGTERM, on an error, or because it is killed.
Exit ==
    /\ up' = FALSE
    /\ startLSN' = 0 /\ flushedLSN' = 0 /\ txn' = 0 /\ next' = 0

-----------------------------------------------------------------------------
(* streamLoop and handleWALData. *)

\* The server sends whole transactions in the order of their commits and
\* leaves out those whose commit record lies before the start position.
ToSend == {j \in Commits : j > txn /\ wal[j].lsn >= startLSN}

Advance(position, len) ==
    flushedLSN' = IF position + len > flushedLSN THEN position + len
                                                 ELSE flushedLSN

\* Of the messages of transaction j, k is the first after entry i.
Follows(k, i, j) ==
    /\ k \in ChangesOf(j) \cup {j}
    /\ k > i
    /\ \A l \in ChangesOf(j) \cup {j} : l > i => l >= k

BuildEventID(i) == <<wal[i].lsn, wal[i].tx>>

ReceiveBegin(j) ==
    /\ up /\ next = 0
    /\ j \in ToSend
    /\ \A k \in ToSend : k >= j
    /\ txn' = j
    /\ \E k \in DOMAIN wal : /\ Follows(k, 0, j)
                             /\ next' = k
                             /\ Advance(wal[k].lsn, BeginLen)
    /\ UNCHANGED <<wal, slot, up, startLSN, nats, faults>>

\* Mutant: without the Nats-Msg-Id header.
StoreWithoutID(i) ==
    /\ stream' = Append(stream, i)
    /\ window' = window \cup {BuildEventID(i)}
    /\ UNCHANGED expired

\* JetStream acknowledges an event without storing it when its ID is in the
\* deduplication window.
Store(i) ==
    IF BuildEventID(i) \in window
    THEN UNCHANGED nats
    ELSE /\ stream' = Append(stream, i)
         /\ window' = window \cup {BuildEventID(i)}
         /\ UNCHANGED expired

ReceiveChange ==
    /\ up /\ next # 0 /\ next # txn
    /\ wal[next].encodable
    /\ Store(next)
    /\ \E k \in DOMAIN wal : Follows(k, next, txn) /\ next' = k
    /\ Advance(wal[next].lsn, wal[next].len)
    /\ UNCHANGED <<wal, slot, up, startLSN, txn, faults>>

\* Mutant: the error of Publish is only logged.
PublishFailureIgnored ==
    /\ up /\ next # 0 /\ next # txn
    /\ wal[next].encodable
    /\ faults < MaxFaults
    /\ faults' = faults + 1
    /\ \E k \in DOMAIN wal : Follows(k, next, txn) /\ next' = k
    /\ Advance(wal[next].lsn, wal[next].len)
    /\ UNCHANGED <<wal, slot, up, startLSN, txn, nats>>

\* The publish fails, or only its acknowledgement is lost: Run returns the
\* error and the process exits.
PublishFails ==
    /\ up /\ next # 0 /\ next # txn
    /\ wal[next].encodable
    /\ faults < MaxFaults
    /\ faults' = faults + 1
    /\ Store(next) \/ UNCHANGED nats
    /\ Exit
    /\ UNCHANGED <<wal, slot>>

\* A row with a float that JSON has no text for (NaN, Infinity): Publish
\* returns the error of json.Marshal before anything is sent.
RejectRow ==
    /\ up /\ next # 0 /\ next # txn
    /\ ~wal[next].encodable
    /\ Exit
    /\ UNCHANGED <<wal, slot, nats, faults>>

\* Mutants: the end of the transaction is not noticed; one entry too far.
ReceiveCommitWaiting ==
    /\ up /\ next # 0 /\ next = txn
    /\ Advance(wal[txn].lsn + RecordSize, CommitLen)
    /\ UNCHANGED <<wal, slot, up, startLSN, txn, next, nats, faults>>

ReceiveCommitBeyond ==
    /\ up /\ next # 0 /\ next = txn
    /\ next' = txn + 1
    /\ Advance(wal[txn].lsn + RecordSize, CommitLen)
    /\ UNCHANGED <<wal, slot, up, startLSN, txn, nats, faults>>

ReceiveCommit ==
    /\ up /\ next # 0 /\ next = txn
    /\ next' = 0
    /\ Advance(wal[txn].lsn + RecordSize, CommitLen)
    /\ UNCHANGED <<wal, slot, up, startLSN, txn, nats, faults>>

\* Mutant: the server's position is confirmed.
SendServerPosition ==
    /\ up
    /\ confirmedFlush' = EndOfWAL
    /\ UNCHANGED <<wal, consistentPoint, session, nats, faults>>

\* Periodically, and when a keepalive asks for it.
SendStandbyStatus ==
    /\ up
    /\ confirmedFlush' = flushedLSN
    /\ UNCHANGED <<wal, consistentPoint, session, nats, faults>>

Shutdown ==
    /\ up
    /\ faults < MaxFaults
    /\ faults' = faults + 1
    /\ confirmedFlush' \in {confirmedFlush, flushedLSN}
    /\ Exit
    /\ UNCHANGED <<wal, consistentPoint, nats>>

Crash ==
    /\ up
    /\ faults < MaxFaults
    /\ faults' = faults + 1
    /\ Exit
    /\ UNCHANGED <<wal, slot, nats>>

Pod ==
    \/ CreateSlot
    \/ StartReplication
    \/ \E j \in Commits : ReceiveBegin(j)
    \/ ReceiveChange
    \/ ReceiveCommit
    \/ RejectRow
    \/ SendStandbyStatus

\* The window is a time: the oldest IDs leave it first.  As a bound on the
\* stream, an ID leaves it at most once.
CloseWindow ==
    /\ \E k \in DOMAIN stream :
          /\ BuildEventID(stream[k]) \in window \ expired
          /\ \A l \in 1..(k - 1) : BuildEventID(stream[l]) \notin window \ expired
          /\ window' = window \ {BuildEventID(stream[k])}
          /\ expired' = expired \cup {BuildEventID(stream[k])}
    /\ UNCHANGED <<wal, slot, session, stream, faults>>

-----------------------------------------------------------------------------
Init ==
    /\ wal = <<>>
    /\ consistentPoint = NoLSN /\ confirmedFlush = NoLSN
    /\ up = FALSE
    /\ startLSN = 0 /\ txn = 0 /\ next = 0 /\ flushedLSN = 0
    /\ stream = <<>> /\ window = {} /\ expired = {}
    /\ faults = 0

Next ==
    \/ Clients
    \/ Pod
    \/ PublishFails
    \/ Shutdown
    \/ Crash
    \/ CloseWindow

Spec == Init /\ [][Next]_vars

\* The Deployment restarts the pod, the server keeps sending, and the loop
\* sends its status every StandbyStatusIntervalS.  Clients, faults and the
\* end of the deduplication window have no fairness.
Fairness ==
    /\ WF_vars(CreateSlot)
    /\ WF_vars(StartReplication)
    /\ WF_vars((\E j \in Commits : ReceiveBegin(j)) \/ ReceiveChange
               \/ RejectRow \/ ReceiveCommit)
    /\ WF_vars(SendStandbyStatus)

FairSpec == Spec /\ Fairness

-----------------------------------------------------------------------------
Captured(j) == /\ j \in Commits
               /\ consistentPoint # NoLSN
               /\ wal[j].lsn >= consistentPoint

Stored(i) == \E k \in DOMAIN stream : BuildEventID(stream[k]) = BuildEventID(i)

\* The position confirmed to the server lies beyond the commit of j: no later
\* session sends j again.
PassedOver(j) == wal[j].lsn < confirmedFlush

\* The stretches of the log a message reaches over: from its position to its
\* position plus its length.
ReachesOver(lsn) ==
    \E j \in Commits :
        \/ lsn - (wal[j].lsn + RecordSize) \in 0..(CommitLen - 1)
        \/ \E k \in ChangesOf(j) : /\ Follows(k, 0, j)
                                   /\ lsn - wal[k].lsn \in 0..(BeginLen - 1)
        \/ \E i \in ChangesOf(j) : lsn - wal[i].lsn \in 0..(wal[i].len - 1)

\* A transaction whose events are not all in the stream is sent again after a
\* restart, unless a message of the log reaches over its commit record: that
\* is the only way for newPos (replicator.go:205) to get past it.
LossAccounted ==
    \A j \in Commits :
        /\ Captured(j)
        /\ PassedOver(j)
        /\ \E i \in ChangesOf(j) : ~Stored(i)
        => ReachesOver(wal[j].lsn)

\* Events enter the stream in commit order: when one is stored, every event
\* committed before it is already there, or its transaction has been passed
\* over.  Restarts, repeated publishes and the end of the window keep this.
NothingOvertaken ==
    \A k \in DOMAIN stream : \A j, c \in Commits : \A i \in ChangesOf(c) :
        /\ stream[k] \in ChangesOf(j)
        /\ Captured(c)
        /\ c < j \/ (c = j /\ i < stream[k])
        => Stored(i) \/ PassedOver(c)

\* An event is stored twice only when its first copy has left JetStream's
\* deduplication window: the ID of an event is the same in every session
\* (buildEventID, handler.go:142).
StoredOnce ==
    \A k, l \in DOMAIN stream :
        k < l /\ BuildEventID(stream[k]) = BuildEventID(stream[l])
        => BuildEventID(stream[k]) \in expired

\* The changes the pod has received in this session.
Received(i) ==
    \E j \in Commits :
        /\ i \in ChangesOf(j)
        /\ wal[j].lsn >= startLSN
        /\ j < txn \/ (j = txn /\ (next = 0 \/ i < next))

\* A session publishes everything it is sent: when a message has been handled,
\* an event with its ID is in the stream.
ReceivedIsStored ==
    up => \A i \in Changes : Received(i) => Stored(i)

\* "buildEventID creates a unique event identifier" (handler.go:142): every row
\* received has an event of its own.  False of the code when one record holds
\* several rows: they share a position, and all but the first are dropped as
\* duplicates.
RowsKeptApart ==
    up => \A i \in Changes : Received(i) => \E k \in DOMAIN stream : stream[k] = i

\* "Advance flushed LSN after successful processing" (replicator.go:214): when
\* a session has ended, what lies before the confirmed position, and is not
\* sent again, has been published.  False of the code.
FlushedIsPublished ==
    ~up => \A j \in Commits :
        Captured(j) /\ PassedOver(j) => \A i \in ChangesOf(j) : Stored(i)

Unencodable(j) == \E c \in Commits : c <= j /\ \E i \in ChangesOf(c) : ~wal[i].encodable

Done(j) == /\ j \in Commits
           /\ PassedOver(j) \/ \A i \in ChangesOf(j) : Stored(i)

\* Every committed change comes to be published, or is passed over.  Stated
\* for logs in which no committed row up to it is one JSON cannot encode.
Published ==
    \A j \in 1..MaxEntries : Captured(j) /\ ~Unencodable(j) ~> Done(j)

\* "Publish sends a CDCEvent" (nats.go:28): the same for every log.  False of
\* the code: one such row stops the pod for good.
EveryRowPublished ==
    \A j \in 1..MaxEntries : Captured(j) ~> Done(j)
=============================================================================
