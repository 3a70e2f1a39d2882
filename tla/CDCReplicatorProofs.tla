------------------------ MODULE CDCReplicatorProofs ------------------------
(***************************************************************************)
(* Theorems about CDCReplicator, for every number of transactions, length  *)
(* of the log, message lengths and number of faults: what a session        *)
(* receives is stored, once per deduplication window and in commit order,  *)
(* and what the server is told to pass over is stored or reached over by a *)
(* message of the log.                                                     *)
(***************************************************************************)
EXTENDS CDCReplicator, TLAPS

-----------------------------------------------------------------------------
(* The inductive invariant. *)

\* The writes of a transaction precede its end, and it ends once.
LogInv ==
    /\ \A i \in Changes, m \in DOMAIN wal \ Changes : wal[i].tx = wal[m].tx => i < m
    /\ \A m, n \in DOMAIN wal \ Changes : wal[m].tx = wal[n].tx => m = n

\* The confirmed position lies between the start of the session and what the
\* session has handled, so that it never moves back.
SlotInv ==
    /\ confirmedFlush = NoLSN => consistentPoint = NoLSN /\ ~up /\ stream = <<>>
    /\ up => startLSN <= confirmedFlush /\ confirmedFlush <= flushedLSN

\* A session is inside a transaction the server was to send.
SessionInv ==
    /\ up /\ txn # 0 => txn \in Commits /\ wal[txn].lsn >= startLSN
    /\ up /\ next # 0 => txn # 0 /\ next \in ChangesOf(txn) \cup {txn}

\* The stream holds committed changes, and JetStream knows their IDs.
StreamInv ==
    /\ \A k \in DOMAIN stream : \E j \in Commits : stream[k] \in ChangesOf(j)
    /\ \A k \in DOMAIN stream : BuildEventID(stream[k]) \in window \cup expired
    /\ \A id \in window : \E k \in DOMAIN stream : BuildEventID(stream[k]) = id

IInv == TypeOK /\ LogInv /\ SlotInv /\ SessionInv /\ StreamInv


-----------------------------------------------------------------------------
(* Steps of the tenant's clients: the log grows and nothing else changes. *)

\* The fields of an entry of the log.
LEMMA EntryType ==
    ASSUME TypeOK, NEW i \in DOMAIN wal
    PROVE  /\ i \in 1..Len(wal) /\ i \in Nat /\ Len(wal) \in Nat
           /\ wal[i] \in Entries
           /\ wal[i].lsn \in Nat /\ wal[i].len \in Nat /\ wal[i].tx \in Tx
<1>1. wal \in Seq(Entries)
  BY DEF TypeOK
<1>2. wal[i] \in Entries /\ i \in 1..Len(wal) /\ Len(wal) \in Nat
  BY <1>1
<1> QED
  BY <1>2 DEF Entries

\* The end of the log is a position.
LEMMA EndType == TypeOK => EndOfWAL \in Nat
<1> SUFFICES ASSUME TypeOK PROVE EndOfWAL \in Nat
  OBVIOUS
<1>1. CASE wal = <<>>
  BY <1>1 DEF EndOfWAL
<1>2. CASE wal # <<>>
  <2>1. Len(wal) \in DOMAIN wal
    BY <1>2 DEF TypeOK
  <2>2. wal[Len(wal)].lsn \in Nat
    BY <2>1, EntryType
  <2> QED
    BY <1>2, <2>2, ReplicatorAssumption DEF EndOfWAL
<1> QED
  BY <1>1, <1>2

\* An appended entry leaves the entries before it and their events as they were.
LEMMA LogGrows ==
    ASSUME TypeOK, NEW e \in Entries, wal' = Append(wal, e)
    PROVE  /\ wal' \in Seq(Entries)
           /\ Len(wal') = Len(wal) + 1
           /\ DOMAIN wal = 1..Len(wal)
           /\ DOMAIN wal' = 1..(Len(wal) + 1)
           /\ \A i \in DOMAIN wal : wal'[i] = wal[i]
           /\ wal'[Len(wal) + 1] = e
           /\ Len(wal) \in Nat
BY DEF TypeOK

\* A client's step appends an entry that is not an end of an ended transaction
\* nor a change of one, at the end of the log or, in the same record, at the
\* position of the change before it.
LEMMA ClientsAppend ==
    ASSUME TypeOK, Clients
    PROVE  /\ \E e \in Entries :
                 /\ wal' = Append(wal, e)
                 /\ e.tx \notin Ended
                 /\ e.kind # "change" => e.lsn = EndOfWAL /\ e.tx \in Begun
                 /\ \/ e.lsn = EndOfWAL
                    \/ wal # <<>> /\ e.lsn = wal[Len(wal)].lsn
           /\ UNCHANGED <<slot, session, nats, faults>>
<1>0. EndOfWAL \in Nat
  BY EndType
<1>1. ASSUME NEW t \in Tx, NEW len \in MsgLens, NEW encodable \in Encodable,
             WriteChange(t, len, encodable)
      PROVE  \E e \in Entries :
                 /\ wal' = Append(wal, e)
                 /\ e.tx \notin Ended /\ e.kind = "change"
                 /\ \/ e.lsn = EndOfWAL
                    \/ wal # <<>> /\ e.lsn = wal[Len(wal)].lsn
  <2>1. PICK lsn \in {EndOfWAL} \cup
                  {wal[i].lsn : i \in {k \in Changes : /\ MultiRow
                                                       /\ k = Len(wal)
                                                       /\ wal[k].tx = t}} :
            wal' = Append(wal, [kind |-> "change", tx |-> t, lsn |-> lsn,
                                len |-> len, encodable |-> encodable])
    BY <1>1 DEF WriteChange
  <2>2. lsn \in Nat /\ (lsn = EndOfWAL \/ (wal # <<>> /\ lsn = wal[Len(wal)].lsn))
    BY <1>0, EntryType DEF Changes
  <2>3. len \in Nat /\ encodable \in BOOLEAN
    BY ReplicatorAssumption
  <2>4. [kind |-> "change", tx |-> t, lsn |-> lsn, len |-> len,
         encodable |-> encodable] \in Entries
    BY <2>2, <2>3 DEF Entries
  <2> QED
    BY <2>1, <2>2, <2>4, <1>1 DEF WriteChange
<1>2. ASSUME NEW t \in Tx, NEW kind \in {"commit", "rollback"}, EndTransaction(t, kind)
      PROVE  \E e \in Entries :
                 /\ wal' = Append(wal, e)
                 /\ e.tx \notin Ended /\ e.tx \in Begun /\ e.lsn = EndOfWAL
  <2>1. [kind |-> kind, tx |-> t, lsn |-> EndOfWAL, len |-> CommitLen,
         encodable |-> TRUE] \in Entries
    BY <1>0, ReplicatorAssumption DEF Entries
  <2> QED
    BY <2>1, <1>2 DEF EndTransaction, Open
<1>3. UNCHANGED <<slot, session, nats, faults>>
  BY DEF Clients, WriteChange, EndTransaction
<1> QED
  BY <1>1, <1>2, <1>3 DEF Clients

\* Entries, transactions and events of the log before a client's step are the
\* same after it, and the new entry belongs to no transaction that has ended.
LEMMA ClientsFacts ==
    ASSUME TypeOK, Clients
    PROVE  /\ UNCHANGED <<slot, session, nats, faults>>
           /\ wal' \in Seq(Entries) /\ Len(wal') = Len(wal) + 1
           /\ \A i \in DOMAIN wal : /\ i \in DOMAIN wal' /\ wal'[i] = wal[i]
                                    /\ i < Len(wal) + 1
                                    /\ BuildEventID(i)' = BuildEventID(i)
           /\ \A i \in DOMAIN wal' : i \in DOMAIN wal \/ i = Len(wal) + 1
           /\ \A m \in DOMAIN wal \ Changes : wal[m].tx # wal'[Len(wal) + 1].tx
           /\ Commits \subseteq Commits'
           /\ \A j \in Commits' : j \in Commits \/ j = Len(wal) + 1
           /\ \A j \in Commits : ChangesOf(j)' = ChangesOf(j)
<1>1. PICK e \in Entries : wal' = Append(wal, e) /\ e.tx \notin Ended
  BY ClientsAppend
<1>2. /\ wal' \in Seq(Entries)
      /\ Len(wal') = Len(wal) + 1
      /\ DOMAIN wal = 1..Len(wal)
      /\ DOMAIN wal' = 1..(Len(wal) + 1)
      /\ \A i \in DOMAIN wal : wal'[i] = wal[i]
      /\ wal'[Len(wal) + 1] = e
      /\ Len(wal) \in Nat
  BY <1>1, LogGrows
<1>3. \A i \in DOMAIN wal : /\ i \in DOMAIN wal' /\ wal'[i] = wal[i]
                            /\ i < Len(wal) + 1
  BY <1>2
<1>4. \A i \in DOMAIN wal : BuildEventID(i)' = BuildEventID(i)
  BY <1>3 DEF BuildEventID
<1>5. \A i \in DOMAIN wal' : i \in DOMAIN wal \/ i = Len(wal) + 1
  BY <1>2
<1>6. \A m \in DOMAIN wal \ Changes : wal[m].tx # wal'[Len(wal) + 1].tx
  BY <1>1, <1>2 DEF Ended
<1>7. Commits \subseteq Commits' /\ \A j \in Commits' : j \in Commits \/ j = Len(wal) + 1
  BY <1>3, <1>5 DEF Commits
<1>8. ASSUME NEW j \in Commits PROVE ChangesOf(j)' = ChangesOf(j)
  <2>1. j \in DOMAIN wal \ Changes /\ wal'[j] = wal[j]
    BY <1>3 DEF Commits, Changes
  <2>2. \A i \in DOMAIN wal' : wal'[i].tx = wal[j].tx => i \in DOMAIN wal
    BY <2>1, <1>5, <1>6
  <2> QED
    BY <2>1, <2>2, <1>3 DEF ChangesOf, Changes
<1> QED
  BY <1>2, <1>3, <1>4, <1>5, <1>6, <1>7, <1>8, ClientsAppend

\* A client's step preserves the inductive invariant.
LEMMA ClientsInv == IInv /\ Clients => IInv'
<1> SUFFICES ASSUME IInv, Clients PROVE IInv'
  OBVIOUS
<1> USE DEF slot, session, nats
<1>0. TypeOK
  BY DEF IInv
<1>1. TypeOK'
  <2>1. Len(wal) \in Nat /\ 0..Len(wal) \subseteq 0..(Len(wal) + 1)
        /\ 1..Len(wal) \subseteq 1..(Len(wal) + 1)
    BY <1>0 DEF TypeOK
  <2>2. stream \in Seq(1..(Len(wal) + 1))
    BY <1>0, <2>1 DEF TypeOK
  <2> QED
    BY <1>0, <2>1, <2>2, ClientsFacts DEF TypeOK
<1>2. LogInv'
  <2>1. ASSUME NEW i \in Changes', NEW m \in (DOMAIN wal \ Changes)', wal'[i].tx = wal'[m].tx
        PROVE  i < m
    <3>1. CASE i \in DOMAIN wal /\ m \in DOMAIN wal
      BY <2>1, <3>1, <1>0, ClientsFacts DEF IInv, LogInv, Changes
    <3>2. CASE i \in DOMAIN wal /\ m = Len(wal) + 1
      BY <3>2, <1>0, ClientsFacts
    <3>3. CASE i = Len(wal) + 1 /\ m \in DOMAIN wal
      BY <2>1, <3>3, <1>0, ClientsFacts DEF Changes
    <3>4. CASE i = Len(wal) + 1 /\ m = Len(wal) + 1
      BY <3>4, <2>1
    <3> QED
      BY <3>1, <3>2, <3>3, <3>4, <1>0, ClientsFacts DEF Changes
  <2>2. ASSUME NEW m \in (DOMAIN wal \ Changes)', NEW n \in (DOMAIN wal \ Changes)',
               wal'[m].tx = wal'[n].tx
        PROVE  m = n
    <3>1. CASE n \in DOMAIN wal /\ m \in DOMAIN wal
      BY <2>2, <3>1, <1>0, ClientsFacts DEF IInv, LogInv, Changes
    <3>2. CASE n \in DOMAIN wal /\ m = Len(wal) + 1
      BY <2>2, <3>2, <1>0, ClientsFacts DEF Changes
    <3>3. CASE n = Len(wal) + 1 /\ m \in DOMAIN wal
      BY <2>2, <3>3, <1>0, ClientsFacts DEF Changes
    <3> QED
      BY <3>1, <3>2, <3>3, <1>0, ClientsFacts
  <2> QED
    BY <2>1, <2>2 DEF LogInv
<1>3. SlotInv'
  BY <1>0, ClientsFacts DEF IInv, SlotInv
<1>4. SessionInv'
  <2>1. txn \in Commits => txn \in DOMAIN wal
    BY DEF Commits
  <2> QED
    BY <1>0, <2>1, ClientsFacts DEF IInv, SessionInv
<1>5. StreamInv'
  <2>1. \A k \in DOMAIN stream : stream[k] \in DOMAIN wal
    BY <1>0 DEF TypeOK
  <2>2. \A k \in DOMAIN stream : BuildEventID(stream[k])' = BuildEventID(stream[k])
    BY <1>0, <2>1, ClientsFacts DEF BuildEventID
  <2>3. stream' = stream /\ window' = window /\ expired' = expired
    BY <1>0, ClientsFacts
  <2>4. ASSUME NEW k \in DOMAIN stream'
        PROVE  /\ \E j \in Commits' : stream'[k] \in ChangesOf(j)'
               /\ BuildEventID(stream[k])' \in (window \cup expired)'
    BY <1>0, <2>2, <2>3, ClientsFacts DEF IInv, StreamInv
  <2>5. ASSUME NEW id \in window'
        PROVE  \E k \in DOMAIN stream' : BuildEventID(stream[k])' = id
    BY <2>2, <2>3 DEF IInv, StreamInv
  <2> QED
    BY <2>4, <2>5 DEF StreamInv
<1> QED
  BY <1>1, <1>2, <1>3, <1>4, <1>5 DEF IInv

-----------------------------------------------------------------------------
(* Storing an event. *)

\* The ID of an entry of the log is an event ID.
LEMMA IDType == ASSUME TypeOK, NEW i \in DOMAIN wal PROVE BuildEventID(i) \in EventIDs
BY EntryType DEF BuildEventID, EventIDs

\* JetStream stores an event once per window, keeps what it has, and has the
\* event in the end.
LEMMA StoreFacts ==
    ASSUME TypeOK, StreamInv, wal' = wal,
           NEW j \in Commits, NEW i \in ChangesOf(j), Store(i)
    PROVE  /\ stream' \in Seq(1..Len(wal))
           /\ window' \subseteq EventIDs /\ expired' \subseteq EventIDs
           /\ StreamInv'
           /\ \A x \in DOMAIN wal : Stored(x) => Stored(x)'
           /\ Stored(i)'
           /\ \A k \in DOMAIN stream' :
                 (k \in DOMAIN stream /\ stream'[k] = stream[k]) \/ stream'[k] = i
           /\ StoredOnce => StoredOnce'
<1> DEFINE n == Len(stream) + 1
<1>1. i \in DOMAIN wal /\ i \in 1..Len(wal)
  BY DEF ChangesOf, Changes, TypeOK
<1>2. \A x : BuildEventID(x)' = BuildEventID(x)
  BY DEF BuildEventID
<1>3. Commits' = Commits /\ \A c : ChangesOf(c)' = ChangesOf(c)
  BY DEF Commits, ChangesOf, Changes
<1>4. CASE BuildEventID(i) \in window
  <2>1. stream' = stream /\ window' = window /\ expired' = expired
    BY <1>4 DEF Store, nats
  <2>2. \A x : Stored(x) <=> Stored(x)'
    BY <2>1, <1>2 DEF Stored
  <2>3. Stored(i)
    BY <1>4 DEF StreamInv, Stored
  <2>4. StreamInv'
    BY <2>1, <1>2, <1>3 DEF StreamInv
  <2>5. StoredOnce => StoredOnce'
    BY <2>1, <1>2 DEF StoredOnce
  <2> QED
    BY <2>1, <2>2, <2>3, <2>4, <2>5 DEF TypeOK
<1>5. CASE BuildEventID(i) \notin window
  <2>1. /\ stream' = Append(stream, i)
        /\ window' = window \cup {BuildEventID(i)}
        /\ expired' = expired
    BY <1>5 DEF Store
  <2>2. /\ stream' \in Seq(1..Len(wal))
        /\ DOMAIN stream = 1..Len(stream) /\ DOMAIN stream' = 1..n
        /\ \A k \in DOMAIN stream : k \in DOMAIN stream' /\ stream'[k] = stream[k]
        /\ n \in DOMAIN stream' /\ stream'[n] = i
        /\ Len(stream) \in Nat
        /\ \A k \in DOMAIN stream' : k \in DOMAIN stream \/ k = n
    BY <2>1, <1>1 DEF TypeOK
  <2> HIDE DEF n
  <2>3. window' \subseteq EventIDs /\ expired' \subseteq EventIDs
    BY <2>1, <1>1, IDType DEF TypeOK
  <2>4. \A x \in DOMAIN wal : Stored(x) => Stored(x)'
    BY <2>2, <1>2 DEF Stored
  <2>5. Stored(i)'
    BY <2>2, <1>2 DEF Stored
  <2>6. StreamInv'
    <3>1. ASSUME NEW k \in DOMAIN stream'
          PROVE  /\ \E c \in Commits' : stream'[k] \in ChangesOf(c)'
                 /\ BuildEventID(stream[k])' \in (window \cup expired)'
      BY <2>1, <2>2, <1>2, <1>3 DEF StreamInv
    <3>2. ASSUME NEW id \in window'
          PROVE  \E k \in DOMAIN stream' : BuildEventID(stream[k])' = id
      BY <2>1, <2>2, <1>2 DEF StreamInv
    <3> QED
      BY <3>1, <3>2 DEF StreamInv
  <2>7. ASSUME StoredOnce PROVE StoredOnce'
    <3> SUFFICES ASSUME NEW k \in DOMAIN stream', NEW l \in DOMAIN stream', k < l,
                        BuildEventID(stream'[k]) = BuildEventID(stream'[l])
                 PROVE  BuildEventID(stream'[k]) \in expired'
      BY <1>2 DEF StoredOnce
    <3>1. k \in DOMAIN stream
      BY <2>2 DEF n
    <3>2. CASE l \in DOMAIN stream
      BY <3>1, <3>2, <2>1, <2>2, <2>7 DEF StoredOnce
    <3>3. CASE l = n
      BY <3>1, <3>3, <2>1, <2>2, <1>5 DEF StreamInv
    <3> QED
      BY <3>2, <3>3, <2>2
  <2> QED
    BY <2>2, <2>3, <2>4, <2>5, <2>6, <2>7
<1> QED
  BY <1>4, <1>5

-----------------------------------------------------------------------------
(* Steps of the pod. *)

\* The largest position reported never falls.
LEMMA AdvanceFacts ==
    ASSUME TypeOK, NEW p \in Nat, NEW len \in Nat, Advance(p, len)
    PROVE  flushedLSN' \in Nat /\ flushedLSN' >= flushedLSN
BY DEF Advance, TypeOK

\* Leaving the loop preserves the inductive invariant.
LEMMA ExitInv ==
    ASSUME IInv, wal' = wal, Exit, StreamInv', UNCHANGED consistentPoint,
           confirmedFlush' \in {confirmedFlush, flushedLSN},
           confirmedFlush # NoLSN,
           stream' \in Seq(1..Len(wal)), window' \subseteq EventIDs,
           expired' \subseteq EventIDs, faults' \in Nat
    PROVE  IInv'
<1>1. TypeOK'
  <2>1. Len(wal) \in Nat /\ 0 \in 0..Len(wal) /\ wal \in Seq(Entries)
    BY DEF IInv, TypeOK
  <2>2. startLSN' = 0 /\ flushedLSN' = 0 /\ txn' = 0 /\ next' = 0 /\ up' \in BOOLEAN
    BY DEF Exit
  <2>3. consistentPoint' \in Nat \cup {NoLSN} /\ confirmedFlush' \in Nat \cup {NoLSN}
    BY DEF IInv, TypeOK
  <2> QED
    BY <2>1, <2>2, <2>3 DEF TypeOK
<1>2. LogInv'
  BY DEF IInv, LogInv, Changes
<1>3. SlotInv'
  <2>1. confirmedFlush' # NoLSN
    BY DEF IInv, TypeOK, NoLSN
  <2> QED
    BY <2>1 DEF SlotInv, Exit
<1>4. SessionInv'
  BY DEF SessionInv, Exit
<1> QED
  BY <1>1, <1>2, <1>3, <1>4 DEF IInv

\* Creating the slot preserves the inductive invariant.
LEMMA CreateSlotInv == IInv /\ CreateSlot => IInv'
<1> SUFFICES ASSUME IInv, CreateSlot PROVE IInv'
  OBVIOUS
<1> USE DEF session, nats
<1>1. EndOfWAL \in Nat
  BY EndType DEF IInv
<1>2. TypeOK'
  BY <1>1 DEF IInv, TypeOK, CreateSlot
<1>3. LogInv'
  BY DEF IInv, LogInv, Changes, CreateSlot
<1>4. SlotInv'
  BY <1>1 DEF IInv, SlotInv, CreateSlot, NoLSN
<1>5. SessionInv'
  BY DEF IInv, SessionInv, CreateSlot, Commits, ChangesOf, Changes
<1>6. StreamInv'
  BY DEF IInv, StreamInv, CreateSlot, Commits, ChangesOf, Changes, BuildEventID
<1> QED
  BY <1>2, <1>3, <1>4, <1>5, <1>6 DEF IInv

\* Starting a session at the slot's position preserves the inductive invariant.
LEMMA StartReplicationInv == IInv /\ StartReplication => IInv'
<1> SUFFICES ASSUME IInv, StartReplication PROVE IInv'
  OBVIOUS
<1> USE DEF slot, nats
<1>1. TypeOK'
  <2>1. Len(wal) \in Nat /\ confirmedFlush \in Nat
    BY DEF IInv, TypeOK, StartReplication
  <2> QED
    BY <2>1 DEF IInv, TypeOK, StartReplication
<1>2. LogInv'
  BY DEF IInv, LogInv, Changes, StartReplication
<1>3. SlotInv'
  <2>1. confirmedFlush \in Nat
    BY DEF IInv, TypeOK, StartReplication
  <2> QED
    BY <2>1 DEF IInv, SlotInv, StartReplication, NoLSN
<1>4. SessionInv'
  BY DEF IInv, SessionInv, StartReplication
<1>5. StreamInv'
  BY DEF IInv, StreamInv, StartReplication, Commits, ChangesOf, Changes, BuildEventID
<1> QED
  BY <1>1, <1>2, <1>3, <1>4, <1>5 DEF IInv

\* Receiving the Begin message of a transaction preserves the inductive invariant.
LEMMA ReceiveBeginInv == ASSUME IInv, NEW j \in Commits, ReceiveBegin(j) PROVE IInv'
<1> USE DEF slot, nats
<1>0. PICK k \in DOMAIN wal : /\ Follows(k, 0, j)
                              /\ next' = k
                              /\ Advance(wal[k].lsn, BeginLen)
  BY DEF ReceiveBegin
<1>1. flushedLSN' \in Nat /\ flushedLSN' >= flushedLSN
  BY <1>0, EntryType, AdvanceFacts, ReplicatorAssumption DEF IInv
<1>2. j \in 1..Len(wal) /\ k \in 1..Len(wal) /\ Len(wal) \in Nat
  BY <1>0 DEF Commits, IInv, TypeOK
<1>3. TypeOK'
  BY <1>0, <1>1, <1>2 DEF IInv, TypeOK, ReceiveBegin
<1>4. LogInv'
  BY DEF IInv, LogInv, Changes, ReceiveBegin
<1>5. SlotInv'
  BY <1>1 DEF IInv, SlotInv, ReceiveBegin, TypeOK, NoLSN
<1>6. SessionInv'
  BY <1>0, <1>2 DEF IInv, SessionInv, ReceiveBegin, ToSend, Follows, Commits, ChangesOf, Changes
<1>7. StreamInv'
  BY DEF IInv, StreamInv, ReceiveBegin, Commits, ChangesOf, Changes, BuildEventID
<1> QED
  BY <1>3, <1>4, <1>5, <1>6, <1>7 DEF IInv

\* Inside a transaction, the entry to receive is one of its changes.
LEMMA InTransaction ==
    ASSUME IInv, up, next # 0, next # txn
    PROVE  txn \in Commits /\ next \in ChangesOf(txn) /\ next \in DOMAIN wal
BY DEF IInv, SessionInv, ChangesOf, Changes

\* Receiving a change and storing its event preserves the inductive invariant.
LEMMA ReceiveChangeInv == IInv /\ ReceiveChange => IInv'
<1> SUFFICES ASSUME IInv, ReceiveChange PROVE IInv'
  OBVIOUS
<1> USE DEF slot
<1>0. PICK k \in DOMAIN wal : Follows(k, next, txn) /\ next' = k
  BY DEF ReceiveChange
<1>1. txn \in Commits /\ next \in ChangesOf(txn) /\ next \in DOMAIN wal
  BY InTransaction DEF ReceiveChange
<1>2. flushedLSN' \in Nat /\ flushedLSN' >= flushedLSN
  BY <1>1, EntryType, AdvanceFacts DEF IInv, ReceiveChange
<1>3. /\ stream' \in Seq(1..Len(wal))
      /\ window' \subseteq EventIDs /\ expired' \subseteq EventIDs
      /\ StreamInv'
  BY <1>1, StoreFacts DEF IInv, ReceiveChange
<1>4. k \in 1..Len(wal) /\ Len(wal) \in Nat
  BY DEF IInv, TypeOK
<1>5. TypeOK'
  BY <1>0, <1>2, <1>3, <1>4 DEF IInv, TypeOK, ReceiveChange
<1>6. LogInv'
  BY DEF IInv, LogInv, Changes, ReceiveChange
<1>7. SlotInv'
  BY <1>2 DEF IInv, SlotInv, ReceiveChange, TypeOK, NoLSN
<1>8. SessionInv'
  BY <1>0, <1>4 DEF IInv, SessionInv, ReceiveChange, Follows, Commits, ChangesOf, Changes
<1> QED
  BY <1>3, <1>5, <1>6, <1>7, <1>8 DEF IInv

\* Receiving the Commit message, after every change of the transaction, preserves
\* the inductive invariant.
LEMMA ReceiveCommitInv == IInv /\ ReceiveCommit => IInv'
<1> SUFFICES ASSUME IInv, ReceiveCommit PROVE IInv'
  OBVIOUS
<1> USE DEF slot, nats
<1>0. txn \in DOMAIN wal
  BY DEF IInv, SessionInv, ReceiveCommit, Commits
<1>1. flushedLSN' \in Nat /\ flushedLSN' >= flushedLSN
  <2>1. wal[txn].lsn + RecordSize \in Nat /\ CommitLen \in Nat
    BY <1>0, EntryType, ReplicatorAssumption DEF IInv
  <2> QED
    BY <2>1, AdvanceFacts DEF IInv, ReceiveCommit
<1>2. TypeOK'
  BY <1>1 DEF IInv, TypeOK, ReceiveCommit
<1>3. LogInv'
  BY DEF IInv, LogInv, Changes, ReceiveCommit
<1>4. SlotInv'
  BY <1>1 DEF IInv, SlotInv, ReceiveCommit, TypeOK, NoLSN
<1>5. SessionInv'
  BY DEF IInv, SessionInv, ReceiveCommit, Commits
<1>6. StreamInv'
  BY DEF IInv, StreamInv, ReceiveCommit, Commits, ChangesOf, Changes, BuildEventID
<1> QED
  BY <1>2, <1>3, <1>4, <1>5, <1>6 DEF IInv

\* Reporting a position moves the slot and preserves the inductive invariant.
LEMMA SendStandbyStatusInv == IInv /\ SendStandbyStatus => IInv'
<1> SUFFICES ASSUME IInv, SendStandbyStatus PROVE IInv'
  OBVIOUS
<1> USE DEF session, nats
<1>1. TypeOK'
  BY DEF IInv, TypeOK, SendStandbyStatus
<1>2. LogInv'
  BY DEF IInv, LogInv, Changes, SendStandbyStatus
<1>3. SlotInv'
  BY DEF IInv, SlotInv, SendStandbyStatus, TypeOK, NoLSN
<1>4. SessionInv'
  BY DEF IInv, SessionInv, SendStandbyStatus, Commits, ChangesOf, Changes
<1>5. StreamInv'
  BY DEF IInv, StreamInv, SendStandbyStatus, Commits, ChangesOf, Changes, BuildEventID
<1> QED
  BY <1>1, <1>2, <1>3, <1>4, <1>5 DEF IInv

\* Every way a session ends early preserves the inductive invariant.
LEMMA FaultInv == IInv /\ (PublishFails \/ RejectRow \/ Shutdown \/ Crash) => IInv'
<1> SUFFICES ASSUME IInv, PublishFails \/ RejectRow \/ Shutdown \/ Crash PROVE IInv'
  OBVIOUS
<1> USE DEF slot
<1>0. confirmedFlush # NoLSN /\ faults' \in Nat /\ Exit /\ wal' = wal
  BY DEF IInv, SlotInv, TypeOK, PublishFails, RejectRow, Shutdown, Crash, nats
<1>1. CASE UNCHANGED nats
  <2>1. StreamInv'
    BY <1>0, <1>1 DEF IInv, StreamInv, nats, Commits, ChangesOf, Changes, BuildEventID
  <2>2. /\ stream' \in Seq(1..Len(wal))
        /\ window' \subseteq EventIDs /\ expired' \subseteq EventIDs
    BY <1>1 DEF IInv, TypeOK, nats
  <2>3. consistentPoint' = consistentPoint
        /\ confirmedFlush' \in {confirmedFlush, flushedLSN}
    BY DEF PublishFails, RejectRow, Shutdown, Crash
  <2> QED
    BY <1>0, <2>1, <2>2, <2>3, ExitInv
<1>2. CASE PublishFails /\ Store(next)
  <2>1. txn \in Commits /\ next \in ChangesOf(txn)
    BY <1>2, InTransaction DEF PublishFails
  <2>2. /\ stream' \in Seq(1..Len(wal))
        /\ window' \subseteq EventIDs /\ expired' \subseteq EventIDs
        /\ StreamInv'
    BY <1>0, <1>2, <2>1, StoreFacts DEF IInv
  <2>3. consistentPoint' = consistentPoint /\ confirmedFlush' = confirmedFlush
    BY <1>2 DEF PublishFails
  <2> QED
    BY <1>0, <2>2, <2>3, ExitInv
<1> QED
  BY <1>1, <1>2 DEF PublishFails, RejectRow, Shutdown, Crash

\* JetStream forgetting the IDs it has seen preserves the inductive invariant.
LEMMA CloseWindowInv == IInv /\ CloseWindow => IInv'
<1> SUFFICES ASSUME IInv, CloseWindow PROVE IInv'
  OBVIOUS
<1> USE DEF slot, session
<1>0. PICK k \in DOMAIN stream :
          /\ BuildEventID(stream[k]) \in window
          /\ window' = window \ {BuildEventID(stream[k])}
          /\ expired' = expired \cup {BuildEventID(stream[k])}
  BY DEF CloseWindow
<1>1. TypeOK'
  BY <1>0 DEF IInv, TypeOK, CloseWindow
<1>2. LogInv'
  BY DEF IInv, LogInv, Changes, CloseWindow
<1>3. SlotInv'
  BY DEF IInv, SlotInv, CloseWindow
<1>4. SessionInv'
  BY DEF IInv, SessionInv, CloseWindow, Commits, ChangesOf, Changes
<1>5. StreamInv'
  <2>1. stream' = stream /\ \A x : BuildEventID(x)' = BuildEventID(x)
    BY DEF CloseWindow, BuildEventID
  <2>2. \A l \in DOMAIN stream : \E j \in Commits' : stream'[l] \in ChangesOf(j)'
    BY <2>1 DEF IInv, StreamInv, CloseWindow, Commits, ChangesOf, Changes
  <2>3. \A l \in DOMAIN stream : BuildEventID(stream[l]) \in (window \cup expired)'
    BY <1>0 DEF IInv, StreamInv
  <2>4. \A id \in window' : \E l \in DOMAIN stream : BuildEventID(stream[l]) = id
    BY <1>0 DEF IInv, StreamInv
  <2> QED
    BY <2>1, <2>2, <2>3, <2>4 DEF StreamInv
<1> QED
  BY <1>1, <1>2, <1>3, <1>4, <1>5 DEF IInv

\* A step that leaves every variable as it is.
LEMMA StutterInv == IInv /\ UNCHANGED vars => IInv'
BY DEF IInv, TypeOK, LogInv, SlotInv, SessionInv, StreamInv, vars, slot, session,
       nats, Commits, ChangesOf, Changes, BuildEventID

\* The initial states satisfy the invariant, and every step preserves it.
LEMMA InitInv == Init => IInv
<1> SUFFICES ASSUME Init PROVE IInv
  OBVIOUS
<1>1. wal = <<>> /\ Len(wal) = 0 /\ DOMAIN wal = {} /\ DOMAIN stream = {}
  BY DEF Init
<1>2. TypeOK
  <2>1. wal \in Seq(Entries) /\ stream \in Seq(1..Len(wal)) /\ 0 \in 0..Len(wal)
    BY <1>1 DEF Init
  <2> QED
    BY <2>1 DEF Init, TypeOK
<1> QED
  BY <1>1, <1>2 DEF Init, IInv, LogInv, SlotInv, SessionInv, StreamInv

\* Every step preserves the inductive invariant.
LEMMA NextInv == IInv /\ [Next]_vars => IInv'
BY ClientsInv, CreateSlotInv, StartReplicationInv, ReceiveBeginInv, ReceiveChangeInv,
   ReceiveCommitInv, SendStandbyStatusInv, FaultInv, CloseWindowInv, StutterInv
   DEF Next, Pod

\* Every reachable state satisfies the inductive invariant.
LEMMA Invariant == Spec => []IInv
BY InitInv, NextInv, PTL DEF Spec

\* Every reachable state is type correct.
THEOREM TypeCorrect == Spec => []TypeOK
BY Invariant, PTL DEF IInv

-----------------------------------------------------------------------------
(* Once per window. *)

\* No step stores an event twice while JetStream remembers its ID.
LEMMA StoredOnceStep == IInv /\ StoredOnce /\ [Next]_vars => StoredOnce'
<1> SUFFICES ASSUME IInv, StoredOnce, [Next]_vars PROVE StoredOnce'
  OBVIOUS
<1>0. TypeOK /\ StreamInv
  BY DEF IInv
<1>1. CASE Clients
  <2>1. \A k \in DOMAIN stream : BuildEventID(stream[k])' = BuildEventID(stream[k])
    <3>1. \A k \in DOMAIN stream : stream[k] \in DOMAIN wal
      BY <1>0 DEF TypeOK
    <3> QED
      BY <1>0, <1>1, <3>1, ClientsFacts DEF BuildEventID, nats
  <2>2. stream' = stream /\ expired' = expired
    BY <1>0, <1>1, ClientsFacts DEF nats
  <2> QED
    BY <2>1, <2>2 DEF StoredOnce
<1>2. CASE wal' = wal /\ stream' = stream /\ expired \subseteq expired'
  <2>1. \A x : BuildEventID(x)' = BuildEventID(x)
    BY <1>2 DEF BuildEventID
  <2> QED
    BY <1>2, <2>1 DEF StoredOnce
<1>3. CASE /\ up /\ next # 0 /\ next # txn
           /\ wal' = wal
           /\ Store(next)
  <2>1. txn \in Commits /\ next \in ChangesOf(txn)
    BY <1>3, InTransaction
  <2> QED
    BY <1>0, <1>3, <2>1, StoreFacts
<1>4. CASE Pod
  BY <1>2, <1>3, <1>4 DEF Pod, CreateSlot, StartReplication, ReceiveBegin, ReceiveChange,
     ReceiveCommit, RejectRow, SendStandbyStatus, nats
<1>5. CASE PublishFails \/ Shutdown \/ Crash \/ CloseWindow \/ UNCHANGED vars
  BY <1>2, <1>3, <1>5 DEF PublishFails, Shutdown, Crash, CloseWindow, nats, vars
<1> QED
  BY <1>1, <1>4, <1>5 DEF Next

\* An event is in the stream twice only when its first copy had left the
\* deduplication window.
THEOREM EventsStoredOnce == Spec => []StoredOnce
<1>1. Init => StoredOnce
  BY DEF Init, StoredOnce
<1> QED
  BY <1>1, Invariant, StoredOnceStep, PTL DEF Spec

-----------------------------------------------------------------------------
(* What is received is stored, in commit order. *)

\* Nothing removes an event from the stream.
LEMMA StoredStays ==
    ASSUME IInv, [Next]_vars, NEW i \in DOMAIN wal, Stored(i)
    PROVE  Stored(i)'
<1>0. TypeOK /\ StreamInv
  BY DEF IInv
<1>1. CASE Clients
  <2>1. \A k \in DOMAIN stream : stream[k] \in DOMAIN wal
    BY <1>0 DEF TypeOK
  <2>2. stream' = stream
    BY <1>0, <1>1, ClientsFacts DEF nats
  <2> QED
    BY <1>0, <1>1, <2>1, <2>2, ClientsFacts DEF Stored, BuildEventID
<1>2. CASE wal' = wal /\ stream' = stream
  BY <1>2 DEF Stored, BuildEventID
<1>3. CASE /\ up /\ next # 0 /\ next # txn
           /\ wal' = wal
           /\ Store(next)
  <2>1. txn \in Commits /\ next \in ChangesOf(txn)
    BY <1>3, InTransaction
  <2> QED
    BY <1>0, <1>3, <2>1, StoreFacts
<1>4. CASE Pod
  BY <1>2, <1>3, <1>4 DEF Pod, CreateSlot, StartReplication, ReceiveBegin, ReceiveChange,
     ReceiveCommit, RejectRow, SendStandbyStatus, nats
<1>5. CASE PublishFails \/ Shutdown \/ Crash \/ CloseWindow \/ UNCHANGED vars
  BY <1>2, <1>3, <1>5 DEF PublishFails, Shutdown, Crash, CloseWindow, nats, vars
<1> QED
  BY <1>1, <1>4, <1>5 DEF Next

\* The position of the session only moves over messages that were handled.
LEMMA ReceivedStep == IInv /\ ReceivedIsStored /\ [Next]_vars => ReceivedIsStored'
<1> SUFFICES ASSUME IInv, ReceivedIsStored, [Next]_vars, up',
                    NEW i \in Changes', NEW j \in Commits', i \in ChangesOf(j)',
                    wal'[j].lsn >= startLSN',
                    j < txn' \/ (j = txn' /\ (next' = 0 \/ i < next'))
             PROVE  Stored(i)'
  BY DEF ReceivedIsStored, Received
<1>0. TypeOK
  BY DEF IInv
<1>1. CASE Clients
  <2>1. txn' = txn /\ next' = next /\ startLSN' = startLSN /\ up' = up
    BY <1>0, <1>1, ClientsFacts DEF session
  <2>2. j \in Commits
    <3>1. Len(wal) \in Nat /\ txn \in 0..Len(wal)
      BY <1>0 DEF TypeOK
    <3> QED
      BY <1>0, <1>1, <2>1, <3>1, ClientsFacts
  <2>3. i \in ChangesOf(j) /\ i \in Changes /\ i \in DOMAIN wal /\ wal'[j] = wal[j]
    BY <1>0, <1>1, <2>2, ClientsFacts DEF ChangesOf, Changes, Commits
  <2>4. Stored(i)
    BY <2>1, <2>2, <2>3 DEF ReceivedIsStored, Received
  <2> QED
    BY <2>3, <2>4, StoredStays
<1>2. CASE ~Clients /\ wal' = wal
  <2>0. /\ j \in Commits /\ i \in ChangesOf(j) /\ i \in Changes /\ i \in DOMAIN wal
        /\ j \in DOMAIN wal /\ i \in Nat /\ j \in Nat /\ i > 0 /\ j > 0
    BY <1>0, <1>2 DEF ChangesOf, Changes, Commits, TypeOK
  <2>1. CASE UNCHANGED session
    <3>1. Stored(i)
      BY <1>2, <2>0, <2>1 DEF session, ReceivedIsStored, Received
    <3> QED
      BY <2>0, <3>1, StoredStays
  <2>2. CASE StartReplication
    BY <2>0, <2>2 DEF StartReplication
  <2>3. ASSUME NEW c \in Commits, ReceiveBegin(c) PROVE Stored(i)'
    <3>1. PICK k \in DOMAIN wal : Follows(k, 0, c) /\ next' = k
      BY <2>3 DEF ReceiveBegin
    <3>2. k # 0 /\ txn' = c /\ c \in DOMAIN wal /\ c \in Nat /\ k \in Nat /\ txn \in Nat
      BY <1>0, <2>3, <3>1 DEF ReceiveBegin, Commits, TypeOK
    <3>3. ~(j = c /\ i < k)
      BY <2>0, <3>1, <3>2 DEF Follows
    <3>4. j < c
      BY <3>1, <3>2, <3>3
    <3>5. wal[j].lsn >= startLSN
      BY <1>2, <2>3 DEF ReceiveBegin
    <3>6. j <= txn
      BY <2>0, <2>3, <3>2, <3>4, <3>5 DEF ReceiveBegin, ToSend
    <3>7. Stored(i)
      BY <2>0, <2>3, <3>2, <3>5, <3>6 DEF ReceiveBegin, ReceivedIsStored, Received
    <3> QED
      BY <2>0, <3>7, StoredStays
  <2>4. CASE ReceiveChange
    <3>1. PICK k \in DOMAIN wal : Follows(k, next, txn) /\ next' = k
      BY <2>4 DEF ReceiveChange
    <3>2. txn \in Commits /\ next \in ChangesOf(txn) /\ next \in DOMAIN wal
      BY <2>4, InTransaction DEF ReceiveChange
    <3>3. k # 0 /\ k \in Nat /\ next \in Nat /\ txn' = txn /\ startLSN' = startLSN /\ up
      BY <1>0, <2>4, <3>1 DEF ReceiveChange, TypeOK
    <3>4. CASE i = next /\ j = txn
      BY <1>0, <1>2, <2>4, <3>2, <3>4, StoreFacts DEF IInv, ReceiveChange
    <3>5. CASE j < txn \/ (j = txn /\ i < next)
      BY <1>2, <2>0, <3>3, <3>5, StoredStays DEF ReceivedIsStored, Received
    <3>6. CASE j = txn /\ i > next
      BY <2>0, <3>1, <3>3, <3>6 DEF Follows
    <3> QED
      BY <2>0, <3>3, <3>4, <3>5, <3>6
  <2>5. CASE ReceiveCommit
    <3>1. /\ up /\ next = txn /\ next # 0 /\ txn' = txn /\ startLSN' = startLSN
          /\ txn \in Commits
      BY <2>5 DEF ReceiveCommit, IInv, SessionInv
    <3>2. j = txn => i < next
      BY <2>0, <3>1 DEF IInv, LogInv, ChangesOf, Changes, Commits
    <3> QED
      BY <1>2, <2>0, <3>1, <3>2, StoredStays DEF ReceivedIsStored, Received
  <2>6. CASE ~up'
    BY <2>6
  <2> QED
    BY <1>2, <2>1, <2>2, <2>3, <2>4, <2>5, <2>6
       DEF Next, Pod, CreateSlot, SendStandbyStatus, RejectRow, PublishFails, Shutdown,
           Crash, CloseWindow, Exit, vars
<1>3. Clients \/ (~Clients /\ wal' = wal)
  BY DEF Next, Pod, CreateSlot, StartReplication, ReceiveBegin, ReceiveChange,
     ReceiveCommit, RejectRow, SendStandbyStatus, PublishFails, Shutdown, Crash,
     CloseWindow, vars
<1> QED
  BY <1>1, <1>2, <1>3

\* A session publishes everything it is sent.
THEOREM ReceivedEventsStored == Spec => []ReceivedIsStored
<1>1. Init => ReceivedIsStored
  BY DEF Init, ReceivedIsStored
<1> QED
  BY <1>1, Invariant, ReceivedStep, PTL DEF Spec

\* The confirmed position never moves back, so what is passed over stays so.
LEMMA PassedOverStays ==
    ASSUME IInv, [Next]_vars, NEW c \in Commits, PassedOver(c)
    PROVE  PassedOver(c)'
<1>0. TypeOK /\ c \in DOMAIN wal /\ wal[c].lsn \in Nat /\ confirmedFlush # NoLSN
  <2>1. c \in DOMAIN wal /\ TypeOK
    BY DEF IInv, Commits
  <2>2. wal[c].lsn \in Nat
    BY <2>1, EntryType
  <2> QED
    BY <2>1, <2>2 DEF PassedOver, NoLSN
<1>1. wal'[c] = wal[c]
  <2>1. CASE Clients
    BY <1>0, <2>1, ClientsFacts
  <2>2. CASE ~Clients
    BY <2>2 DEF Next, Pod, CreateSlot, StartReplication, ReceiveBegin, ReceiveChange,
       ReceiveCommit, RejectRow, SendStandbyStatus, PublishFails, Shutdown, Crash,
       CloseWindow, vars
  <2> QED
    BY <2>1, <2>2
<1>2. confirmedFlush' = confirmedFlush \/ (up /\ confirmedFlush' = flushedLSN)
  BY <1>0 DEF Next, Clients, WriteChange, EndTransaction, Pod, CreateSlot,
     StartReplication, ReceiveBegin, ReceiveChange, ReceiveCommit, RejectRow,
     SendStandbyStatus, PublishFails, Shutdown, Crash, CloseWindow, vars, slot
<1>3. up => confirmedFlush <= flushedLSN
  BY DEF IInv, SlotInv
<1> QED
  BY <1>0, <1>1, <1>2, <1>3 DEF PassedOver, TypeOK

\* No step stores an event of a transaction that one already passed over precedes.
LEMMA NothingOvertakenStep ==
    IInv /\ ReceivedIsStored /\ NothingOvertaken /\ [Next]_vars => NothingOvertaken'
<1> SUFFICES ASSUME IInv, ReceivedIsStored, NothingOvertaken, [Next]_vars,
                    NEW k \in DOMAIN stream', NEW j \in Commits', NEW c \in Commits',
                    NEW i \in ChangesOf(c)',
                    stream'[k] \in ChangesOf(j)',
                    Captured(c)',
                    c < j \/ (c = j /\ i < stream'[k])
             PROVE  Stored(i)' \/ PassedOver(c)'
  BY DEF NothingOvertaken
<1>0. TypeOK
  BY DEF IInv
<1>1. CASE Clients
  <2>1. stream' = stream /\ consistentPoint' = consistentPoint /\ Len(wal) \in Nat
    BY <1>0, <1>1, ClientsFacts DEF nats, slot, TypeOK
  <2>2. PICK b \in Commits : stream[k] \in ChangesOf(b)
    BY <2>1 DEF IInv, StreamInv
  <2>3. j \in Commits
    <3>1. b \in DOMAIN wal \ Changes /\ stream[k] \in DOMAIN wal
          /\ wal[stream[k]].tx = wal[b].tx
      BY <2>2 DEF Commits, Changes, ChangesOf
    <3>2. wal'[stream[k]] = wal[stream[k]] /\ wal'[stream[k]].tx = wal'[j].tx
      BY <1>0, <1>1, <2>1, <3>1, ClientsFacts DEF ChangesOf
    <3>3. j # Len(wal) + 1
      BY <1>0, <1>1, <3>1, <3>2, ClientsFacts
    <3> QED
      BY <1>0, <1>1, <3>3, ClientsFacts
  <2>4. c \in Commits
    <3>1. j \in 1..Len(wal)
      BY <1>0, <2>3 DEF Commits, TypeOK
    <3>2. c # Len(wal) + 1
      BY <2>1, <3>1
    <3> QED
      BY <1>0, <1>1, <3>2, ClientsFacts
  <2>5. i \in ChangesOf(c) /\ i \in DOMAIN wal /\ stream[k] \in ChangesOf(j)
    BY <1>0, <1>1, <2>1, <2>3, <2>4, ClientsFacts DEF ChangesOf, Changes
  <2>6. Captured(c)
    <3>1. wal'[c] = wal[c]
      BY <1>0, <1>1, <2>4, ClientsFacts DEF Commits
    <3> QED
      BY <2>1, <2>4, <3>1 DEF Captured
  <2>7. Stored(i) \/ PassedOver(c)
    BY <2>1, <2>3, <2>4, <2>5, <2>6 DEF NothingOvertaken
  <2> QED
    BY <2>4, <2>5, <2>7, StoredStays, PassedOverStays
<1>2. CASE wal' = wal
  <2>1. j \in Commits /\ c \in Commits /\ i \in ChangesOf(c) /\ stream'[k] \in ChangesOf(j)
        /\ i \in DOMAIN wal /\ i \in Changes
    BY <1>2 DEF Commits, ChangesOf, Changes
  <2>2. CASE /\ consistentPoint' = consistentPoint
             /\ k \in DOMAIN stream /\ stream'[k] = stream[k]
    <3>1. Captured(c)
      BY <1>2, <2>1, <2>2 DEF Captured
    <3>2. Stored(i) \/ PassedOver(c)
      BY <2>1, <2>2, <3>1 DEF NothingOvertaken
    <3> QED
      BY <2>1, <3>2, StoredStays, PassedOverStays
  <2>3. CASE /\ up /\ next # 0 /\ next # txn
             /\ stream'[k] = next
    <3>1. txn \in Commits /\ next \in ChangesOf(txn)
      BY <2>3, InTransaction
    <3>2. j = txn
      BY <2>1, <2>3, <3>1 DEF IInv, LogInv, ChangesOf, Changes, Commits
    <3>3. CASE wal[c].lsn >= startLSN
      <4>1. Received(i)
        BY <2>1, <2>3, <3>2, <3>3 DEF Received
      <4>2. Stored(i)
        BY <2>1, <2>3, <4>1 DEF ReceivedIsStored
      <4> QED
        BY <2>1, <4>2, StoredStays
    <3>4. CASE ~(wal[c].lsn >= startLSN)
      <4>1. wal[c].lsn \in Nat /\ startLSN \in Nat /\ confirmedFlush \in Nat
        <5>1. c \in DOMAIN wal
          BY <2>1 DEF Commits
        <5>2. wal[c].lsn \in Nat
          BY <1>0, <5>1, EntryType
        <5> QED
          BY <2>3, <5>2, <1>0 DEF TypeOK, IInv, SlotInv
      <4>2. PassedOver(c)
        BY <2>3, <3>4, <4>1 DEF IInv, SlotInv, PassedOver
      <4> QED
        BY <2>1, <4>2, PassedOverStays
    <3> QED
      BY <3>3, <3>4
  <2>4. CASE CreateSlot
    BY <2>4 DEF CreateSlot, IInv, SlotInv, nats
  <2>5. CASE (ReceiveChange \/ PublishFails) /\ Store(next)
    <3>1. txn \in Commits /\ next \in ChangesOf(txn)
          /\ up /\ next # 0 /\ next # txn
      BY <2>5, InTransaction DEF ReceiveChange, PublishFails
    <3>2. (k \in DOMAIN stream /\ stream'[k] = stream[k]) \/ stream'[k] = next
      BY <1>0, <1>2, <2>5, <3>1, StoreFacts DEF IInv
    <3>3. consistentPoint' = consistentPoint
      BY <2>5 DEF ReceiveChange, PublishFails, slot
    <3> QED
      BY <2>2, <2>3, <3>1, <3>2, <3>3
  <2>6. CASE stream' = stream /\ consistentPoint' = consistentPoint
    BY <2>2, <2>6
  <2> QED
    BY <1>2, <2>4, <2>5, <2>6
       DEF Next, Clients, WriteChange, EndTransaction, Pod, StartReplication,
           ReceiveBegin, ReceiveChange, ReceiveCommit, RejectRow, SendStandbyStatus,
           PublishFails, Shutdown, Crash, CloseWindow, slot, nats, vars
<1>3. Clients \/ wal' = wal
  BY DEF Next, Pod, CreateSlot, StartReplication, ReceiveBegin, ReceiveChange,
     ReceiveCommit, RejectRow, SendStandbyStatus, PublishFails, Shutdown, Crash,
     CloseWindow, vars
<1> QED
  BY <1>1, <1>2, <1>3

\* Events enter the stream in commit order, with nothing left out but what the
\* server was told to pass over.
THEOREM CommitOrder == Spec => []NothingOvertaken
<1>1. Init => ReceivedIsStored /\ NothingOvertaken
  BY DEF Init, ReceivedIsStored, NothingOvertaken
<1> QED
  BY <1>1, Invariant, ReceivedStep, NothingOvertakenStep, PTL DEF Spec

-----------------------------------------------------------------------------
(* What the pod reports as handled. *)

\* Positions grow along the log, an end of a transaction has a record of its
\* own, and a transaction that commits has written something.
OrderInv ==
    /\ \A i, k \in DOMAIN wal : i < k => wal[i].lsn <= wal[k].lsn
    /\ \A i \in DOMAIN wal, k \in DOMAIN wal \ Changes :
          i < k => wal[i].lsn + RecordSize <= wal[k].lsn
    /\ \A i \in DOMAIN wal : wal[i].lsn + RecordSize <= EndOfWAL
    /\ \A j \in Commits : ChangesOf(j) # {}

\* Up to a position reported as handled, transactions are stored or reached
\* over; a position beyond the end of the log is reached over itself, whatever
\* is written there later.
Accounted(position) ==
    /\ \A lsn \in Nat : EndOfWAL <= lsn /\ lsn < position => ReachesOver(lsn)
    /\ \A j \in Commits :
          /\ Captured(j)
          /\ wal[j].lsn < position
          /\ \E i \in ChangesOf(j) : ~Stored(i)
          => ReachesOver(wal[j].lsn)

AccountInv == Accounted(confirmedFlush) /\ Accounted(flushedLSN)

\* The order of the log does not depend on anything but the log.
LEMMA OrderStep == IInv /\ OrderInv /\ [Next]_vars => OrderInv'
<1> SUFFICES ASSUME IInv, OrderInv, [Next]_vars PROVE OrderInv'
  OBVIOUS
<1>0. TypeOK
  BY DEF IInv
<1>1. CASE Clients
  <2> DEFINE n == Len(wal) + 1
  <2>0. /\ EndOfWAL \in Nat /\ RecordSize \in Nat /\ Len(wal) \in Nat
        /\ DOMAIN wal = 1..Len(wal)
        /\ \A i \in DOMAIN wal : wal[i].lsn \in Nat
    BY <1>0, EndType, EntryType, ReplicatorAssumption DEF TypeOK
  <2>1. /\ wal' \in Seq(Entries) /\ Len(wal') = n
        /\ \A i \in DOMAIN wal : /\ i \in DOMAIN wal' /\ wal'[i] = wal[i] /\ i < n
        /\ \A i \in DOMAIN wal' : i \in DOMAIN wal \/ i = n
        /\ \A j \in Commits' : j \in Commits \/ j = n
        /\ \A j \in Commits : ChangesOf(j)' = ChangesOf(j)
    BY <1>0, <1>1, ClientsFacts
  <2>2. PICK e \in Entries :
            /\ wal' = Append(wal, e)
            /\ e.kind # "change" => e.lsn = EndOfWAL /\ e.tx \in Begun
            /\ e.lsn = EndOfWAL \/ (wal # <<>> /\ e.lsn = wal[Len(wal)].lsn)
    BY <1>0, <1>1, ClientsAppend
  <2>3. wal'[n] = e /\ n \in DOMAIN wal' /\ EndOfWAL' = e.lsn + RecordSize /\ e.lsn \in Nat
    <3>1. wal'[n] = e /\ n \in DOMAIN wal' /\ wal' # <<>>
      BY <1>0, <2>1, <2>2, LogGrows
    <3> QED
      BY <2>1, <3>1 DEF EndOfWAL, Entries
  <2> HIDE DEF n
  <2>4. \A i \in DOMAIN wal : wal[i].lsn <= e.lsn
    <3>1. ASSUME wal # <<>>, NEW i \in DOMAIN wal PROVE wal[i].lsn <= wal[Len(wal)].lsn
      <4>1. Len(wal) \in DOMAIN wal /\ (i < Len(wal) \/ i = Len(wal))
        BY <2>0, <3>1
      <4> QED
        BY <2>0, <4>1 DEF OrderInv
    <3>2. \A i \in DOMAIN wal : wal[i].lsn <= EndOfWAL
      BY <2>0 DEF OrderInv
    <3> QED
      BY <2>2, <3>1, <3>2
  <2>5. \A i \in DOMAIN wal : e.kind # "change" => wal[i].lsn + RecordSize <= e.lsn
    BY <2>2 DEF OrderInv
  <2>6. ASSUME NEW i \in DOMAIN wal', NEW k \in DOMAIN wal', i < k
        PROVE  /\ wal'[i].lsn <= wal'[k].lsn
               /\ k \notin Changes' => wal'[i].lsn + RecordSize <= wal'[k].lsn
    <3>1. CASE k = n
      <4>1. i \in DOMAIN wal
        BY <2>0, <2>1, <2>6, <3>1 DEF n
      <4>2. k \notin Changes' => e.kind # "change"
        BY <2>3, <3>1 DEF Changes
      <4> QED
        BY <2>1, <2>3, <2>4, <2>5, <3>1, <4>1, <4>2
    <3>2. CASE k \in DOMAIN wal
      <4>1. i \in DOMAIN wal
        BY <2>0, <2>1, <2>6, <3>2 DEF n
      <4>2. k \notin Changes' => k \notin Changes
        BY <2>1, <3>2 DEF Changes
      <4> QED
        BY <2>1, <2>6, <3>2, <4>1, <4>2 DEF OrderInv
    <3> QED
      BY <2>1, <3>1, <3>2
  <2>7. ASSUME NEW i \in DOMAIN wal' PROVE wal'[i].lsn + RecordSize <= EndOfWAL'
    BY <2>0, <2>1, <2>3, <2>4
  <2>8. ASSUME NEW j \in Commits' PROVE ChangesOf(j)' # {}
    <3>1. CASE j \in Commits
      BY <2>1, <3>1 DEF OrderInv
    <3>2. CASE j = n
      <4>1. e.tx \in Begun
        BY <2>2, <2>3, <3>2 DEF Commits
      <4>2. PICK i \in Changes : wal[i].tx = e.tx
        BY <4>1 DEF Begun
      <4>3. i \in ChangesOf(j)'
        BY <2>1, <2>3, <3>2, <4>2 DEF ChangesOf, Changes
      <4> QED
        BY <4>3
    <3> QED
      BY <2>1, <3>1, <3>2
  <2> QED
    BY <2>6, <2>7, <2>8 DEF OrderInv
<1>2. CASE wal' = wal
  <2>1. /\ Changes' = Changes /\ EndOfWAL' = EndOfWAL /\ Commits' = Commits
        /\ \A j : ChangesOf(j)' = ChangesOf(j)
    BY <1>2 DEF Changes, EndOfWAL, Commits, ChangesOf
  <2> QED
    BY <1>2, <2>1 DEF OrderInv
<1>3. Clients \/ wal' = wal
  BY DEF Next, Pod, CreateSlot, StartReplication, ReceiveBegin, ReceiveChange,
     ReceiveCommit, RejectRow, SendStandbyStatus, PublishFails, Shutdown, Crash,
     CloseWindow, vars
<1> QED
  BY <1>1, <1>2, <1>3

\* What a position reaches over stays reached over, and what was accounted for
\* at a position is accounted for when the log and the stream have grown.
LEMMA AccountedStays ==
    ASSUME IInv, OrderInv, [Next]_vars, NEW p \in Nat \cup {NoLSN}, Accounted(p),
           UNCHANGED consistentPoint
    PROVE  Accounted(p)'
<1>0. TypeOK /\ EndOfWAL \in Nat /\ RecordSize \in Nat
  BY EndType, ReplicatorAssumption DEF IInv
<1>1. CASE Clients
  <2>1. /\ \A i \in DOMAIN wal : /\ i \in DOMAIN wal' /\ wal'[i] = wal[i]
                                 /\ i < Len(wal) + 1
        /\ \A i \in DOMAIN wal' : i \in DOMAIN wal \/ i = Len(wal) + 1
        /\ Commits \subseteq Commits'
        /\ \A j \in Commits' : j \in Commits \/ j = Len(wal) + 1
        /\ \A j \in Commits : ChangesOf(j)' = ChangesOf(j) /\ j \in DOMAIN wal
        /\ \A i \in Changes : i \in DOMAIN wal
    BY <1>0, <1>1, ClientsFacts DEF Commits, Changes
  <2>2. EndOfWAL' \in Nat /\ EndOfWAL <= EndOfWAL'
    <3>1. PICK e \in Entries : wal' = Append(wal, e) /\ (e.lsn = EndOfWAL
                                  \/ (wal # <<>> /\ e.lsn = wal[Len(wal)].lsn))
      BY <1>0, <1>1, ClientsAppend
    <3>2. EndOfWAL' = e.lsn + RecordSize /\ e.lsn \in Nat
      <4>1. wal'[Len(wal')] = e /\ wal' # <<>>
        BY <1>0, <3>1, LogGrows
      <4> QED
        BY <4>1 DEF EndOfWAL, Entries
    <3>3. wal # <<>> => wal[Len(wal)].lsn + RecordSize = EndOfWAL
      BY DEF EndOfWAL
    <3> QED
      BY <1>0, <3>1, <3>2, <3>3
  <2>3. ASSUME NEW l \in Nat, ReachesOver(l) PROVE ReachesOver(l)'
    <3>1. PICK j \in Commits :
             \/ l - (wal[j].lsn + RecordSize) \in 0..(CommitLen - 1)
             \/ \E k \in ChangesOf(j) : /\ Follows(k, 0, j)
                                        /\ l - wal[k].lsn \in 0..(BeginLen - 1)
             \/ \E i \in ChangesOf(j) : l - wal[i].lsn \in 0..(wal[i].len - 1)
      BY <2>3 DEF ReachesOver
    <3>2. \A k : Follows(k, 0, j) => Follows(k, 0, j)'
      BY <2>1 DEF Follows
    <3>3. \A k \in ChangesOf(j) : wal'[k] = wal[k]
      BY <2>1 DEF ChangesOf
    <3> QED
      BY <2>1, <3>1, <3>2, <3>3 DEF ReachesOver
  <2>4. ASSUME NEW l \in Nat, EndOfWAL' <= l, l < p PROVE ReachesOver(l)'
    BY <1>0, <2>2, <2>3, <2>4 DEF Accounted, NoLSN
  <2>5. ASSUME NEW j \in Commits', Captured(j)', wal'[j].lsn < p,
               NEW i \in ChangesOf(j)', ~Stored(i)',
               NEW l \in Nat, l = wal'[j].lsn
        PROVE  ReachesOver(l)'
    <3>1. CASE j \in Commits
      <4>1. wal[j].lsn \in Nat /\ wal'[j] = wal[j] /\ i \in ChangesOf(j) /\ i \in DOMAIN wal
        BY <1>0, <2>1, <2>5, <3>1, EntryType DEF ChangesOf
      <4>2. ~Stored(i)
        BY <2>5, <4>1, StoredStays
      <4>3. Captured(j)
        BY <2>5, <3>1, <4>1 DEF Captured
      <4> QED
        BY <2>3, <2>5, <3>1, <4>1, <4>2, <4>3 DEF Accounted
    <3>2. CASE j = Len(wal) + 1
      <4>1. PICK e \in Entries : wal' = Append(wal, e)
                                 /\ (e.kind # "change" => e.lsn = EndOfWAL)
        BY <1>0, <1>1, ClientsAppend
      <4>2. wal'[j] = e
        BY <1>0, <3>2, <4>1, LogGrows
      <4>3. wal'[j].lsn = EndOfWAL
        BY <2>5, <4>1, <4>2 DEF Commits
      <4> QED
        BY <1>0, <2>3, <2>5, <4>3 DEF Accounted
    <3> QED
      BY <2>1, <3>1, <3>2
  <2>6. \A j \in Commits' : wal'[j].lsn \in Nat
    <3>1. \A j \in DOMAIN wal' : wal'[j] \in Entries
      BY <1>0, <1>1, ClientsFacts
    <3> QED
      BY <3>1 DEF Commits, Entries
  <2> QED
    BY <2>4, <2>5, <2>6 DEF Accounted
<1>2. CASE wal' = wal
  <2>1. /\ EndOfWAL' = EndOfWAL /\ Commits' = Commits
        /\ \A j : ChangesOf(j)' = ChangesOf(j)
        /\ \A l : ReachesOver(l)' = ReachesOver(l)
        /\ \A j : Captured(j)' = Captured(j)
    BY <1>2 DEF EndOfWAL, Commits, ChangesOf, Changes, ReachesOver, Follows, Captured
  <2>2. \A j \in Commits : \A i \in ChangesOf(j) : Stored(i) => Stored(i)'
    BY StoredStays DEF ChangesOf, Changes
  <2> QED
    BY <1>2, <2>1, <2>2 DEF Accounted
<1>3. Clients \/ wal' = wal
  BY DEF Next, Pod, CreateSlot, StartReplication, ReceiveBegin, ReceiveChange,
     ReceiveCommit, RejectRow, SendStandbyStatus, PublishFails, Shutdown, Crash,
     CloseWindow, vars
<1> QED
  BY <1>1, <1>2, <1>3

\* A message at position p, of length len, can be reported when what lies before
\* p has been handled, and the message reaches over the rest.
LEMMA AccountedAdvance ==
    ASSUME IInv, Accounted(flushedLSN), NEW p \in Nat, NEW len \in Nat,
           Advance(p, len),
           p <= EndOfWAL,
           \A lsn \in Nat : p <= lsn /\ lsn < p + len => ReachesOver(lsn),
           \A c \in Commits : /\ Captured(c)
                              /\ flushedLSN <= wal[c].lsn /\ wal[c].lsn < p
                              => \A i \in ChangesOf(c) : Stored(i)
    PROVE  Accounted(flushedLSN')
<1>0. EndOfWAL \in Nat /\ flushedLSN \in Nat
  BY EndType DEF IInv, TypeOK
<1>1. CASE flushedLSN' = flushedLSN
  BY <1>1
<1>2. CASE flushedLSN' = p + len
  <2>1. ASSUME NEW l \in Nat, EndOfWAL <= l, l < p + len PROVE ReachesOver(l)
    BY <1>0, <2>1
  <2>2. ASSUME NEW c \in Commits, Captured(c), wal[c].lsn < p + len,
               NEW i \in ChangesOf(c), ~Stored(i)
        PROVE  ReachesOver(wal[c].lsn)
    <3>1. wal[c].lsn \in Nat
      BY EntryType DEF IInv, Commits
    <3>2. CASE wal[c].lsn < flushedLSN
      BY <2>2, <3>2 DEF Accounted
    <3>3. CASE p <= wal[c].lsn
      BY <2>2, <3>1, <3>3
    <3>4. CASE flushedLSN <= wal[c].lsn /\ wal[c].lsn < p
      BY <2>2, <3>4
    <3> QED
      BY <1>0, <3>1, <3>2, <3>3, <3>4
  <2> QED
    BY <1>2, <2>1, <2>2 DEF Accounted
<1> QED
  BY <1>1, <1>2 DEF Advance

\* When the session waits for a transaction, or is inside one, the changes of the
\* committed transactions it was sent before are stored.
LEMMA SentIsStored ==
    ASSUME IInv, ReceivedIsStored, up, NEW c \in Commits, wal[c].lsn >= startLSN,
           c < txn \/ (c = txn /\ (next = 0 \/ next = txn))
    PROVE  \A i \in ChangesOf(c) : Stored(i)
<1> SUFFICES ASSUME NEW i \in ChangesOf(c) PROVE Stored(i)
  OBVIOUS
<1>1. i \in Changes /\ (c = txn /\ next = txn => i < next)
  BY DEF IInv, LogInv, ChangesOf, Changes, Commits
<1> QED
  BY <1>1 DEF ReceivedIsStored, Received

\* A transaction that is not sent to the session lies before its start, and was
\* handled when the start was reported.
LEMMA BeforeSession ==
    ASSUME IInv, up, NEW c \in Commits, flushedLSN <= wal[c].lsn
    PROVE  wal[c].lsn >= startLSN
<1>1. wal[c].lsn \in Nat /\ startLSN \in Nat /\ flushedLSN \in Nat
      /\ confirmedFlush \in Nat \cup {NoLSN}
  BY EntryType DEF IInv, TypeOK, Commits
<1> QED
  BY <1>1 DEF IInv, SlotInv, NoLSN

\* The positions of a message and of its end.
LEMMA MessageFacts ==
    ASSUME IInv, OrderInv, NEW k \in DOMAIN wal
    PROVE  /\ wal[k].lsn \in Nat /\ wal[k].lsn + RecordSize \in Nat
           /\ wal[k].lsn <= EndOfWAL /\ wal[k].lsn + RecordSize <= EndOfWAL
           /\ \A c \in Commits : wal[c].lsn < wal[k].lsn => c < k
<1>1. wal[k].lsn \in Nat /\ RecordSize \in Nat /\ EndOfWAL \in Nat /\ k \in Nat
  BY EntryType, EndType, ReplicatorAssumption DEF IInv
<1>2. wal[k].lsn + RecordSize <= EndOfWAL
  BY DEF OrderInv
<1>3. ASSUME NEW c \in Commits, wal[c].lsn < wal[k].lsn PROVE c < k
  <2>1. c \in DOMAIN wal /\ c \in Nat /\ wal[c].lsn \in Nat
    BY EntryType DEF IInv, Commits
  <2>2. k < c => wal[k].lsn <= wal[c].lsn
    BY <2>1 DEF OrderInv
  <2> QED
    BY <1>1, <1>3, <2>1, <2>2
<1> QED
  BY <1>1, <1>2, <1>3

\* The position reported after a Begin message is accounted for.
LEMMA BeginAccounted ==
    ASSUME IInv, OrderInv, ReceivedIsStored, AccountInv,
           NEW j \in Commits, ReceiveBegin(j)
    PROVE  Accounted(flushedLSN')
<1>1. PICK k \in DOMAIN wal : Follows(k, 0, j) /\ Advance(wal[k].lsn, BeginLen)
  BY DEF ReceiveBegin
<1>2. k \in ChangesOf(j)
  <2>1. PICK i \in ChangesOf(j) : TRUE
    BY DEF OrderInv
  <2>2. i < j /\ i > 0 /\ i \in Nat /\ j \in Nat
    BY <2>1, EntryType DEF IInv, LogInv, ChangesOf, Changes, Commits
  <2>3. k <= i
    BY <1>1, <2>1, <2>2 DEF Follows
  <2>4. k # j
    BY <2>2, <2>3
  <2> QED
    BY <1>1, <2>4 DEF Follows
<1>3. /\ wal[k].lsn \in Nat /\ wal[k].lsn <= EndOfWAL /\ BeginLen \in Nat
      /\ \A c \in Commits : wal[c].lsn < wal[k].lsn => c < k
      /\ k < j
  <2>1. BeginLen \in Nat
    BY ReplicatorAssumption
  <2>2. k < j
    BY <1>2 DEF IInv, LogInv, ChangesOf, Changes, Commits
  <2> QED
    BY <2>1, <2>2, MessageFacts
<1>4. ASSUME NEW l \in Nat, wal[k].lsn <= l, l < wal[k].lsn + BeginLen
      PROVE  ReachesOver(l)
  <2>1. l - wal[k].lsn \in 0..(BeginLen - 1)
    BY <1>3, <1>4
  <2> QED
    BY <1>1, <1>2, <2>1 DEF ReachesOver
<1>5. ASSUME NEW c \in Commits, flushedLSN <= wal[c].lsn, wal[c].lsn < wal[k].lsn
      PROVE  \A i \in ChangesOf(c) : Stored(i)
  <2>1. c < j /\ c \in Nat /\ j \in Nat /\ txn \in Nat
    BY <1>3, <1>5, EntryType DEF IInv, Commits, TypeOK
  <2>2. wal[c].lsn >= startLSN
    BY <1>5, BeforeSession DEF ReceiveBegin
  <2>3. c \notin ToSend
    BY <2>1 DEF ReceiveBegin
  <2>4. c <= txn
    BY <2>1, <2>2, <2>3 DEF ToSend
  <2> QED
    BY <2>1, <2>2, <2>4, SentIsStored DEF ReceiveBegin
<1> QED
  BY <1>1, <1>3, <1>4, <1>5, AccountedAdvance DEF AccountInv

\* The position reported after a change is accounted for.
LEMMA ChangeAccounted ==
    ASSUME IInv, OrderInv, ReceivedIsStored, AccountInv, ReceiveChange
    PROVE  Accounted(flushedLSN')
<1>1. txn \in Commits /\ next \in ChangesOf(txn) /\ next \in DOMAIN wal /\ up
      /\ Advance(wal[next].lsn, wal[next].len)
  BY InTransaction DEF ReceiveChange
<1>2. /\ wal[next].lsn \in Nat /\ wal[next].lsn <= EndOfWAL /\ wal[next].len \in Nat
      /\ \A c \in Commits : wal[c].lsn < wal[next].lsn => c < next
      /\ next < txn /\ next \in Nat /\ txn \in Nat
  <2>1. next < txn
    BY <1>1 DEF IInv, LogInv, ChangesOf, Changes, Commits
  <2> QED
    BY <1>1, <2>1, MessageFacts, EntryType DEF IInv, Commits
<1>3. ASSUME NEW l \in Nat, wal[next].lsn <= l, l < wal[next].lsn + wal[next].len
      PROVE  ReachesOver(l)
  <2>1. l - wal[next].lsn \in 0..(wal[next].len - 1)
    BY <1>2, <1>3
  <2> QED
    BY <1>1, <2>1 DEF ReachesOver
<1>4. ASSUME NEW c \in Commits, flushedLSN <= wal[c].lsn, wal[c].lsn < wal[next].lsn
      PROVE  \A i \in ChangesOf(c) : Stored(i)
  <2>1. c < txn
    BY <1>2, <1>4, EntryType DEF IInv, Commits
  <2> QED
    BY <1>1, <1>4, <2>1, BeforeSession, SentIsStored
<1> QED
  BY <1>1, <1>2, <1>3, <1>4, AccountedAdvance DEF AccountInv

\* The position reported after a Commit message is accounted for.
LEMMA CommitAccounted ==
    ASSUME IInv, OrderInv, ReceivedIsStored, AccountInv, ReceiveCommit
    PROVE  Accounted(flushedLSN')
<1> DEFINE p == wal[txn].lsn + RecordSize
<1>1. txn \in Commits /\ txn \in DOMAIN wal /\ up /\ next = txn /\ Advance(p, CommitLen)
  BY DEF ReceiveCommit, IInv, SessionInv, Commits
<1>2. /\ wal[txn].lsn \in Nat /\ p \in Nat /\ p <= EndOfWAL /\ CommitLen \in Nat
      /\ txn \in Nat /\ RecordSize \in Nat
  BY <1>1, MessageFacts, EntryType, ReplicatorAssumption DEF IInv
<1> HIDE DEF p
<1>3. ASSUME NEW l \in Nat, p <= l, l < p + CommitLen
      PROVE  ReachesOver(l)
  <2>1. l - p \in 0..(CommitLen - 1)
    BY <1>2, <1>3
  <2> QED
    BY <1>1, <2>1 DEF ReachesOver, p
<1>4. ASSUME NEW c \in Commits, flushedLSN <= wal[c].lsn, wal[c].lsn < p
      PROVE  \A i \in ChangesOf(c) : Stored(i)
  <2>1. c \in DOMAIN wal \ Changes /\ c \in Nat /\ wal[c].lsn \in Nat
    BY EntryType DEF IInv, Commits, Changes
  <2>2. txn < c => p <= wal[c].lsn
    BY <1>1, <2>1 DEF OrderInv, p
  <2>3. c < txn \/ c = txn
    BY <1>2, <1>4, <2>1, <2>2
  <2> QED
    BY <1>1, <1>4, <2>3, BeforeSession, SentIsStored
<1> QED
  BY <1>1, <1>2, <1>3, <1>4, AccountedAdvance DEF AccountInv

\* Every step keeps both positions accounted for.
LEMMA AccountStep ==
    IInv /\ OrderInv /\ ReceivedIsStored /\ AccountInv /\ [Next]_vars => AccountInv'
<1> SUFFICES ASSUME IInv, OrderInv, ReceivedIsStored, AccountInv, [Next]_vars
             PROVE  AccountInv'
  OBVIOUS
<1>0. /\ TypeOK /\ confirmedFlush \in Nat \cup {NoLSN} /\ flushedLSN \in Nat
      /\ flushedLSN' \in Nat /\ confirmedFlush' \in Nat \cup {NoLSN}
  BY NextInv DEF IInv, TypeOK
<1>1. CASE CreateSlot
  <2>1. /\ confirmedFlush' = EndOfWAL' /\ consistentPoint' = EndOfWAL /\ wal' = wal
        /\ flushedLSN' = flushedLSN /\ EndOfWAL' = EndOfWAL /\ EndOfWAL \in Nat
    BY <1>0, <1>1, EndType DEF CreateSlot, session, EndOfWAL
  <2>2. ASSUME NEW j \in Commits' PROVE ~Captured(j)'
    <3>1. wal[j].lsn \in Nat /\ wal[j].lsn + RecordSize <= EndOfWAL /\ RecordSize > 0
          /\ RecordSize \in Nat
      BY <1>0, <2>1, EntryType, ReplicatorAssumption DEF Commits, OrderInv
    <3> QED
      BY <2>1, <3>1 DEF Captured
  <2>3. \A l : ReachesOver(l)' = ReachesOver(l)
    BY <2>1 DEF ReachesOver, Commits, ChangesOf, Changes, Follows
  <2>4. Accounted(confirmedFlush)'
    BY <2>1, <2>2 DEF Accounted
  <2>5. Accounted(flushedLSN)'
    BY <2>1, <2>2, <2>3 DEF Accounted, AccountInv
  <2> QED
    BY <2>4, <2>5 DEF AccountInv
<1>2. CASE ~CreateSlot
  <2>1. consistentPoint' = consistentPoint
    BY <1>2 DEF Next, Clients, WriteChange, EndTransaction, Pod, StartReplication,
       ReceiveBegin, ReceiveChange, ReceiveCommit, RejectRow, SendStandbyStatus,
       PublishFails, Shutdown, Crash, CloseWindow, vars, slot
  <2>2. confirmedFlush' \in {confirmedFlush, flushedLSN}
    BY <1>2 DEF Next, Clients, WriteChange, EndTransaction, Pod, StartReplication,
       ReceiveBegin, ReceiveChange, ReceiveCommit, RejectRow, SendStandbyStatus,
       PublishFails, Shutdown, Crash, CloseWindow, vars, slot
  <2>3. Accounted(0)
    BY <1>0, EntryType DEF Accounted, Commits
  <2>4. Accounted(flushedLSN')
    <3>1. CASE flushedLSN' \in {flushedLSN, confirmedFlush, 0}
      BY <2>3, <3>1 DEF AccountInv
    <3>2. CASE (\E j \in Commits : ReceiveBegin(j)) \/ ReceiveChange \/ ReceiveCommit
      BY <3>2, BeginAccounted, ChangeAccounted, CommitAccounted
    <3> QED
      BY <1>2, <3>1, <3>2
         DEF Next, Clients, WriteChange, EndTransaction, Pod, StartReplication,
             RejectRow, SendStandbyStatus, PublishFails, Shutdown, Crash, CloseWindow,
             Exit, vars, session
  <2>5. PICK p \in Nat \cup {NoLSN} : p = confirmedFlush'
    BY <1>0
  <2>6. PICK q \in Nat \cup {NoLSN} : q = flushedLSN'
    BY <1>0
  <2>7. Accounted(p) /\ Accounted(q)
    BY <2>2, <2>4, <2>5, <2>6 DEF AccountInv
  <2>8. Accounted(p)' /\ Accounted(q)'
    BY <2>1, <2>7, AccountedStays
  <2> QED
    BY <2>5, <2>6, <2>8 DEF AccountInv, Accounted
<1> QED
  BY <1>1, <1>2

\* A transaction that the server was told to pass over is in the stream, unless
\* a message of the log reaches over its commit record.
THEOREM LossesAccounted == Spec => []LossAccounted
<1>1. Init => OrderInv /\ ReceivedIsStored /\ AccountInv
  <2> SUFFICES ASSUME Init PROVE OrderInv /\ ReceivedIsStored /\ AccountInv
    OBVIOUS
  <2>1. DOMAIN wal = {} /\ Commits = {} /\ Changes = {} /\ confirmedFlush = -1
        /\ flushedLSN = 0 /\ EndOfWAL = 0
    BY DEF Init, Commits, Changes, NoLSN, EndOfWAL
  <2> QED
    BY <2>1 DEF Init, OrderInv, ReceivedIsStored, AccountInv, Accounted
<1>2. AccountInv => LossAccounted
  BY DEF AccountInv, Accounted, LossAccounted, PassedOver
<1> QED
  BY <1>1, <1>2, Invariant, OrderStep, ReceivedStep, AccountStep, PTL DEF Spec
=============================================================================
