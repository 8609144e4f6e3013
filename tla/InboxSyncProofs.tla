-------------------------- MODULE InboxSyncProofs ---------------------------
(***************************************************************************)
(* Proofs about a device that reads its inbox (module InboxSync), for both *)
(* hosts, every length of the journal, every size of a page, every number  *)
(* of crashes and every way in which records may open.                     *)
(*                                                                         *)
(* First the shard on its own (InboxServer), for every quota and every     *)
(* order of its statements.  Then the device: the invariants come in       *)
(* layers, each proved with the help of the ones before it: the types,     *)
(* the positions of cursor, disk and server, what the cursor has passed,   *)
(* and how often a record was applied.                                     *)
(***************************************************************************)
EXTENDS InboxSync, CursorProofs, FiniteSetTheorems

-----------------------------------------------------------------------------
(* The shard on its own                                                    *)

\* The counter is an upper bound of the rows, the quota of the waiting ones;
\* the second needs the first on append_in's quick path.
ServerInv == ServerTypeOK /\ CounterCoversLog /\ UnackedWithinQuota

\* The numbers handed out so far are finitely many.
LEMMA RowsFinite ==
  ASSUME ServerTypeOK
  PROVE  /\ nextSeq \in Nat
         /\ IsFiniteSet(1..nextSeq)
         /\ IsFiniteSet(log) /\ Cardinality(log) \in Nat
         /\ IsFiniteSet(Unacked) /\ Cardinality(Unacked) \in Nat
         /\ IsFiniteSet(SentUnacked) /\ Cardinality(SentUnacked) \in Nat
<1>1. nextSeq \in Nat /\ log \subseteq 1..nextSeq
  BY DEF ServerTypeOK, nextSeq
<1>2. IsFiniteSet(1..nextSeq)
  BY <1>1, FS_Interval
<1>3. Unacked \subseteq 1..nextSeq /\ SentUnacked \subseteq 1..nextSeq
  BY <1>1 DEF Unacked, SentUnacked
<1> QED
  BY <1>1, <1>2, <1>3, FS_Subset, FS_CardinalityType

\* An empty inbox satisfies the invariant.
LEMMA ServerInitInv == ServerInit => ServerInv
<1> SUFFICES ASSUME ServerInit PROVE ServerInv
  OBVIOUS
<1>1. ServerTypeOK
  BY MaxSeqAssumption DEF ServerInit, ServerTypeOK, Positions, nextSeq
<1>2. CounterCoversLog
  BY FS_EmptySet DEF ServerInit, CounterCoversLog
<1>3. SentUnacked = {}
  BY DEF ServerInit, Unacked, SentUnacked
<1>4. UnackedWithinQuota
  BY <1>3, FS_EmptySet, ServerAssumption DEF UnackedWithinQuota
<1> QED BY <1>1, <1>2, <1>4 DEF ServerInv

\* append_in keeps the types, the counter and the quota.
LEMMA AppendItemInv ==
  ASSUME ServerInv, NEW k \in Kinds, AppendItem(k)
  PROVE  ServerInv'
<1> DEFINE n == nextSeq + 1
<1>0. ServerTypeOK /\ CounterCoversLog /\ UnackedWithinQuota
  BY DEF ServerInv
<1>1. /\ nextSeq \in Nat /\ n \notin log /\ n \in Nat
      /\ IsFiniteSet(log) /\ Cardinality(log) \in Nat
      /\ IsFiniteSet(Unacked) /\ Cardinality(Unacked) \in Nat
      /\ IsFiniteSet(SentUnacked) /\ Cardinality(SentUnacked) \in Nat
      /\ MaxRecords \in Nat /\ records \in Nat
  BY <1>0, RowsFinite, ServerAssumption DEF ServerTypeOK
<1>2. /\ nextSeq' = n
      /\ \A s \in 1..nextSeq : items'[s] = items[s]
      /\ items'[n] = k
  BY <1>0, <1>1 DEF AppendItem, ServerTypeOK, nextSeq
<1>3. ServerTypeOK'
  <2>1. items' \in Seq(Kinds) /\ Len(items') <= MaxSeq
    BY <1>0, MaxSeqAssumption DEF AppendItem, ServerTypeOK, nextSeq
  <2>2. log' \subseteq 1..nextSeq' /\ gone' \subseteq 1..nextSeq'
    <3>1. log \subseteq 1..nextSeq /\ gone \subseteq 1..nextSeq
      BY <1>0 DEF ServerTypeOK
    <3>2. log' = log \cup {n} /\ gone' = gone
      BY DEF AppendItem
    <3> QED BY <1>1, <1>2, <3>1, <3>2
  <2>3. gone' \cap log' = {}
    BY <1>0, <1>1 DEF AppendItem, ServerTypeOK
  <2>4. acked' \in Positions /\ records' \in Nat /\ gc' \in {"idle", "acked", "recount"}
    BY <1>0 DEF AppendItem, ServerTypeOK
  <2>5. ttl' \in Positions /\ day' \in ttl'..nextSeq'
    BY <1>0, <1>1, <1>2, MaxSeqAssumption DEF AppendItem, ServerTypeOK, Positions
  <2> QED BY <2>1, <2>2, <2>3, <2>4, <2>5 DEF ServerTypeOK
<1>4. CounterCoversLog'
  <2>1. Cardinality(log') = Cardinality(log) + 1
    BY <1>1, FS_AddElement DEF AppendItem
  <2> QED BY <1>0, <1>1, <2>1 DEF CounterCoversLog, AppendItem
<1>5. UnackedWithinQuota'
  <2>1. SentUnacked' \subseteq SentUnacked \cup {n}
    BY <1>0, <1>1, <1>2 DEF SentUnacked, Unacked, AppendItem, ServerTypeOK
  <2>2. CASE k \notin Sent
    <3>1. SentUnacked' \subseteq SentUnacked
      BY <2>1, <2>2, <1>2 DEF SentUnacked
    <3>2. Cardinality(SentUnacked') <= Cardinality(SentUnacked)
      BY <3>1, <1>1, FS_Subset
    <3>3. Cardinality(SentUnacked') \in Nat
      BY <3>1, <1>1, FS_Subset, FS_CardinalityType
    <3> QED BY <3>2, <3>3, <1>0, <1>1 DEF UnackedWithinQuota
  <2>3. CASE k \in Sent /\ records < MaxRecords
    <3>1. SentUnacked' \subseteq log \cup {n}
      BY <2>1 DEF SentUnacked, Unacked
    <3>2. /\ IsFiniteSet(log \cup {n})
          /\ Cardinality(log \cup {n}) = Cardinality(log) + 1
      BY <1>1, FS_AddElement
    <3>3. /\ Cardinality(SentUnacked') <= Cardinality(log) + 1
          /\ Cardinality(SentUnacked') \in Nat
      BY <3>1, <3>2, FS_Subset, FS_CardinalityType
    <3>4. Cardinality(log) + 1 <= MaxRecords
      BY <2>3, <1>0, <1>1 DEF CounterCoversLog
    <3> QED BY <3>3, <3>4, <1>1 DEF UnackedWithinQuota
  <2>4. CASE k \in Sent /\ ~(records < MaxRecords)
    <3>1. Cardinality(Unacked) < MaxRecords
      BY <2>4, <1>1 DEF AppendItem, OverQuota
    <3>2. SentUnacked' \subseteq Unacked \cup {n}
      BY <2>1 DEF SentUnacked
    <3>3. /\ IsFiniteSet(Unacked \cup {n})
          /\ Cardinality(Unacked \cup {n}) = Cardinality(Unacked) + 1
      <4>1. n \notin Unacked
        BY <1>1 DEF Unacked
      <4> QED BY <4>1, <1>1, FS_AddElement
    <3>4. /\ Cardinality(SentUnacked') <= Cardinality(Unacked) + 1
          /\ Cardinality(SentUnacked') \in Nat
      BY <3>2, <3>3, <1>1, FS_Subset, FS_CardinalityType
    <3> QED BY <3>1, <3>4, <1>1 DEF UnackedWithinQuota
  <2> QED BY <2>2, <2>3, <2>4
<1> QED BY <1>3, <1>4, <1>5 DEF ServerInv

\* A step that appends nothing, deletes rows at most, and neither takes back
\* an acknowledgement nor changes what was appended keeps the quota.
LEMMA ShrinkKeepsQuota ==
  ASSUME ServerInv, items' = items, log' \subseteq log,
         acked' \in Int, acked' >= acked
  PROVE  UnackedWithinQuota'
<1>1. /\ IsFiniteSet(SentUnacked) /\ Cardinality(SentUnacked) \in Nat
      /\ acked \in Int /\ log \subseteq 1..nextSeq /\ nextSeq \in Nat
  BY RowsFinite DEF ServerInv, ServerTypeOK, Positions
<1>2. SentUnacked' \subseteq SentUnacked
  <2>1. SUFFICES ASSUME NEW s \in SentUnacked' PROVE s \in SentUnacked
    OBVIOUS
  <2>2. s \in log' /\ s > acked' /\ items'[s] \in Sent
    BY <2>1 DEF SentUnacked, Unacked
  <2>3. s \in log /\ s \in Int
    BY <1>1, <2>2
  <2>4. s > acked
    BY <1>1, <2>2, <2>3
  <2> QED BY <2>2, <2>3, <2>4 DEF SentUnacked, Unacked
<1>3. /\ Cardinality(SentUnacked') <= Cardinality(SentUnacked)
      /\ Cardinality(SentUnacked') \in Nat
  BY <1>1, <1>2, FS_Subset, FS_CardinalityType
<1> QED
  BY <1>1, <1>3, ServerAssumption DEF ServerInv, UnackedWithinQuota

\* Deleting rows while the counter stays, or is at least the rows left, keeps
\* the counter above the rows.
LEMMA ShrinkKeepsCounter ==
  ASSUME ServerInv, log' \subseteq log, records' = records
  PROVE  CounterCoversLog'
<1>1. IsFiniteSet(log) /\ Cardinality(log) \in Nat
  BY RowsFinite DEF ServerInv
<1>2. Cardinality(log') <= Cardinality(log) /\ Cardinality(log') \in Nat
  BY <1>1, FS_Subset, FS_CardinalityType
<1> QED BY <1>1, <1>2 DEF ServerInv, ServerTypeOK, CounterCoversLog

\* Every other statement of the shard keeps the invariant.
LEMMA StatementInv ==
  ASSUME ServerInv, [ServerStep \/ \E n \in Positions : AckTo(n)]_serverVars
  PROVE  ServerInv'
<1>0. ServerTypeOK /\ CounterCoversLog
  BY DEF ServerInv
<1>1. /\ nextSeq \in Nat /\ acked \in Nat /\ records \in Nat
      /\ IsFiniteSet(log) /\ Cardinality(log) \in Nat
  BY <1>0, RowsFinite, MaxSeqAssumption DEF ServerTypeOK, Positions
<1>2. CASE UNCHANGED serverVars
  BY <1>2 DEF serverVars, ServerInv, ServerTypeOK, CounterCoversLog,
              UnackedWithinQuota, SentUnacked, Unacked, nextSeq
<1>3. CASE \E n \in Positions : AckTo(n)
  <2>1. PICK n \in Positions : AckTo(n)
    BY <1>3
  <2>2. acked' \in Positions /\ acked' \in Int /\ acked' >= acked
    BY <1>0, <1>1, <2>1, MaxSeqAssumption DEF AckTo, MaxOf, Positions, ServerTypeOK
  <2>3. ServerTypeOK'
    BY <1>0, <2>1, <2>2 DEF AckTo, ServerTypeOK, nextSeq
  <2>4. CounterCoversLog' /\ UnackedWithinQuota'
    BY <2>1, <2>2, ShrinkKeepsCounter, ShrinkKeepsQuota DEF AckTo
  <2> QED BY <2>3, <2>4 DEF ServerInv
<1>4. CASE \E S \in SUBSET MayHide : Hide(S)
  <2>1. PICK S \in SUBSET MayHide : Hide(S)
    BY <1>4
  <2>2. log' = log \ S /\ items' = items /\ acked' = acked
    BY <2>1 DEF Hide
  <2>3. /\ IsFiniteSet(log \cap S) /\ Cardinality(log \cap S) \in Nat
        /\ IsFiniteSet(log \ S) /\ Cardinality(log \ S) \in Nat
    BY <1>1, FS_Subset, FS_CardinalityType
  <2>4. Cardinality(log \ S) = Cardinality(log) - Cardinality(log \cap S)
    <3>1. IsFiniteSet(log \ S) /\ Cardinality(log \ S) = Cardinality(log) - Cardinality(log \cap S)
      BY <1>1, FS_Difference
    <3> QED BY <3>1
  <2>5. CounterCoversLog' /\ records' \in Nat
    BY <1>0, <1>1, <2>1, <2>2, <2>3, <2>4 DEF Hide, MaxOf, CounterCoversLog
  <2>6. UnackedWithinQuota'
    BY <1>1, <2>2, ShrinkKeepsQuota
  <2>7. ServerTypeOK'
    BY <1>0, <2>1, <2>5 DEF Hide, ServerTypeOK, nextSeq
  <2> QED BY <2>5, <2>6, <2>7 DEF ServerInv
<1>5. CASE GcExpired
  <2>1. CounterCoversLog' /\ UnackedWithinQuota'
    BY <1>1, <1>5, ShrinkKeepsCounter, ShrinkKeepsQuota DEF GcExpired
  <2>2. ServerTypeOK'
    <3>1. /\ log' \subseteq log /\ items' = items /\ UNCHANGED <<acked, records, day, ttl>>
          /\ gc' = "acked"
      BY <1>5 DEF GcExpired
    <3>2. gone' \subseteq gone \cup log /\ gone' \cap log' = {}
      <4>1. log' = {s \in log : s > ttl}
        BY <1>5 DEF GcExpired
      <4>2. gone' = gone \cup {s \in log : s <= ttl /\ s > acked}
        BY <1>5 DEF GcExpired
      <4>3. \A s \in log : s \in Int /\ ttl \in Int
        BY <1>0, <1>1, MaxSeqAssumption DEF ServerTypeOK, Positions
      <4>4. gone \cap log = {}
        BY <1>0 DEF ServerTypeOK
      <4>5. \A s \in log : s \in Int /\ s > ttl => ~(s <= ttl)
        BY <4>3
      <4> QED BY <4>1, <4>2, <4>4, <4>5, <4>3
    <3> QED BY <1>0, <3>1, <3>2 DEF ServerTypeOK, nextSeq
  <2> QED BY <2>1, <2>2 DEF ServerInv
<1>6. CASE GcAcked
  <2>1. CounterCoversLog' /\ UnackedWithinQuota'
    BY <1>1, <1>6, ShrinkKeepsCounter, ShrinkKeepsQuota DEF GcAcked
  <2>2. ServerTypeOK'
    BY <1>0, <1>6 DEF GcAcked, ServerTypeOK, nextSeq
  <2> QED BY <2>1, <2>2 DEF ServerInv
<1>7. CASE GcRecount
  <2>1. UnackedWithinQuota'
    BY <1>1, <1>7, ShrinkKeepsQuota DEF GcRecount
  <2>2. CounterCoversLog'
    BY <1>1, <1>7 DEF GcRecount, CounterCoversLog
  <2>3. ServerTypeOK'
    BY <1>0, <1>1, <1>7 DEF GcRecount, ServerTypeOK, nextSeq
  <2> QED BY <2>1, <2>2, <2>3 DEF ServerInv
<1>8. CASE GcStops
  <2>1. CounterCoversLog' /\ UnackedWithinQuota'
    BY <1>1, <1>8, ShrinkKeepsCounter, ShrinkKeepsQuota DEF GcStops
  <2>2. ServerTypeOK'
    BY <1>0, <1>8 DEF GcStops, ServerTypeOK, nextSeq
  <2> QED BY <2>1, <2>2 DEF ServerInv
<1>9. CASE \E d \in Seqs : DayPasses(d) \/ MonthPasses(d)
  <2>1. PICK d \in Seqs : DayPasses(d) \/ MonthPasses(d)
    BY <1>9
  <2>2. CounterCoversLog' /\ UnackedWithinQuota'
    BY <1>1, <2>1, ShrinkKeepsCounter, ShrinkKeepsQuota DEF DayPasses, MonthPasses
  <2>3. ServerTypeOK'
    <3>1. UNCHANGED <<items, log, acked, records, gc, gone>>
      BY <2>1 DEF DayPasses, MonthPasses
    <3>2. nextSeq' = nextSeq
      BY <3>1 DEF nextSeq
    <3>3. ttl \in Nat /\ ttl <= MaxSeq /\ day \in Int /\ ttl <= day /\ day <= nextSeq
      BY <1>0, <1>1, MaxSeqAssumption DEF ServerTypeOK, Positions
    <3>4. d \in Nat /\ d <= MaxSeq
      BY MaxSeqAssumption DEF Seqs
    <3>5. ttl' \in Positions /\ day' \in ttl'..nextSeq
      <4>1. CASE DayPasses(d)
        BY <4>1, <1>1, <3>3, <3>4, MaxSeqAssumption DEF DayPasses, Positions
      <4>2. CASE MonthPasses(d)
        BY <4>2, <1>1, <3>3, <3>4, MaxSeqAssumption DEF MonthPasses, Positions
      <4> QED BY <2>1, <4>1, <4>2
    <3> QED BY <1>0, <3>1, <3>2, <3>5 DEF ServerTypeOK
  <2> QED BY <2>2, <2>3 DEF ServerInv
<1> QED
  BY <1>2, <1>3, <1>4, <1>5, <1>6, <1>7, <1>8, <1>9 DEF ServerStep

\* One step of the shard keeps the invariant.
LEMMA ServerNextInv == ServerInv /\ [ServerNext]_serverVars => ServerInv'
<1> SUFFICES ASSUME ServerInv, [ServerNext]_serverVars PROVE ServerInv'
  OBVIOUS
<1>1. CASE \E k \in Kinds : AppendItem(k)
  BY <1>1, AppendItemInv
<1>2. CASE [ServerStep \/ \E n \in Positions : AckTo(n)]_serverVars
  BY <1>2, StatementInv
<1> QED BY <1>1, <1>2 DEF ServerNext

\* The columns and rows of the inbox keep their types for every order of the
\* shard's statements and every acknowledgement of the device.
THEOREM ServerTypeCorrect == ServerSpec => []ServerTypeOK
<1>1. ServerInv => ServerTypeOK
  BY DEF ServerInv
<1> QED BY <1>1, ServerInitInv, ServerNextInv, PTL DEF ServerSpec

\* append_in's quick counter never falls below the rows of the journal, so its
\* quick path admits nothing the quota would refuse.
THEOREM CounterIsUpperBound == ServerSpec => []CounterCoversLog
<1>1. ServerInv => CounterCoversLog
  BY DEF ServerInv
<1> QED BY <1>1, ServerInitInv, ServerNextInv, PTL DEF ServerSpec

\* C1-07 for every quota and every journal: senders never have more than
\* MaxRecords unread records waiting for a device.
THEOREM QuotaHolds == ServerSpec => []UnackedWithinQuota
<1>1. ServerInv => UnackedWithinQuota
  BY DEF ServerInv
<1> QED BY <1>1, ServerInitInv, ServerNextInv, PTL DEF ServerSpec

-----------------------------------------------------------------------------
(* The device and the shard                                                *)

\* Where the host is tells how many pages it has fetched.
PagesOfSync == /\ pc = "idle" => pages = 0
               /\ pc = "fetch" => pages < MaxPages

\* The types, with what they need to be inductive.
TypeInv == /\ TypeOK
           /\ ServerInv
           /\ PagesOfSync
           /\ disk.deferred \subseteq 1..nextSeq
           /\ disk.seen \subseteq 1..nextSeq

\* Every step is a step of the shard or leaves the shard alone, so what is
\* proved of the shard holds here.
LEMMA StepsOfShard ==
  ASSUME TypeOK, [Next]_vars
  PROVE  [ServerNext]_serverVars
<1>1. cursor.applied \in Positions /\ Arrives \subseteq Kinds
  BY SyncAssumption DEF TypeOK, CursorType
<1>2. CASE UNCHANGED vars
  BY <1>2 DEF vars
<1>3. CASE \E k \in Arrives : Deliver(k)
  BY <1>1, <1>3 DEF Deliver, ServerNext
<1>4. CASE \E s \in Seqs : LiveLost(s)
  BY <1>4 DEF LiveLost
<1>5. CASE Shard
  BY <1>5 DEF Shard, ServerNext
<1>6. CASE Crash
  BY <1>6 DEF Crash
<1>7. CASE Ack
  BY <1>1, <1>7 DEF Ack, ServerNext
<1>8. CASE OpenNext \/ StartSync \/ FetchPage \/ FetchFails \/ EndPage
           \/ SaveState \/ Persist \/ AckLost
  BY <1>8 DEF OpenNext, StartSync, FetchPage, FetchFails, EndPage, SaveState,
              Persist, AckLost
<1>9. CASE \E s \in Seqs : \/ OpenLive(s)
                           \/ \E fails \in BOOLEAN : ApplyEvent(s, fails)
  BY <1>9 DEF OpenLive, ApplyEvent
<1> QED
  BY <1>2, <1>3, <1>4, <1>5, <1>6, <1>7, <1>8, <1>9 DEF Next, HostStep

\* The journal only grows, and what was appended stays as it is.
LEMMA JournalGrows ==
  ASSUME ServerTypeOK, [ServerNext]_serverVars
  PROVE  /\ nextSeq \in Nat /\ nextSeq' \in Nat
         /\ nextSeq <= nextSeq' /\ 1..nextSeq \subseteq 1..nextSeq'
         /\ \A s \in 1..nextSeq : items'[s] = items[s]
<1>0. items \in Seq(Kinds) /\ nextSeq \in Nat
  BY DEF ServerTypeOK, nextSeq
<1>1. CASE \E k \in Kinds : AppendItem(k)
  <2>1. PICK k \in Kinds : items' = Append(items, k)
    BY <1>1 DEF AppendItem
  <2>2. nextSeq' = nextSeq + 1 /\ \A s \in 1..nextSeq : items'[s] = items[s]
    BY <1>0, <2>1 DEF nextSeq
  <2> QED BY <1>0, <2>2
<1>2. CASE items' = items
  <2>1. nextSeq' = nextSeq
    BY <1>2 DEF nextSeq
  <2> QED BY <1>0, <1>2, <2>1
<1>3. ASSUME ~(\E k \in Kinds : AppendItem(k)) PROVE items' = items
  BY <1>3 DEF ServerNext, ServerStep, serverVars, AckTo, Hide, GcExpired,
              GcAcked, GcRecount, GcStops, DayPasses, MonthPasses
<1> QED BY <1>1, <1>2, <1>3

\* The numbers handed out are numbers of the model.
LEMMA NumbersInRange ==
  ASSUME TypeOK
  PROVE  nextSeq \in Nat /\ nextSeq <= MaxSeq /\ 1..nextSeq \subseteq Seqs
<1>1. nextSeq \in Nat /\ nextSeq <= MaxSeq
  BY DEF TypeOK, ServerTypeOK, nextSeq
<1> QED BY <1>1, MaxSeqAssumption DEF Seqs

\* What opening a record does to the engine, whatever it comes to: the cursor
\* moves forward, only over the record, which is then in somebody's hands, and
\* nobody's hands become empty.
LEMMA OpenRecordFacts ==
  ASSUME TypeOK, NEW s \in 1..nextSeq, OpenRecord(s)
  PROVE  /\ cursor' \in CursorType
         /\ cursor'.applied >= cursor.applied
         /\ \A t \in Seqs : IsDone(cursor, t) => IsDone(cursor', t)
         /\ \A t \in Seqs : IsDone(cursor', t) =>
              \/ IsDone(cursor, t)
              \/ t \in outbox' \cup deferred' \cup skipped'
         /\ outbox \subseteq outbox' /\ outbox' \subseteq 1..nextSeq
         /\ skipped \subseteq skipped' /\ skipped' \subseteq 1..nextSeq
         /\ deferred \subseteq deferred' \cup outbox' \cup skipped'
         /\ deferred' \subseteq deferred \cup {s} /\ deferred' \subseteq 1..nextSeq
         /\ seen \subseteq seen' /\ seen' \subseteq 1..nextSeq
<1>0. /\ cursor \in CursorType /\ s \in Seqs /\ cursor.applied \in Int
      /\ outbox \subseteq 1..nextSeq /\ skipped \subseteq 1..nextSeq
      /\ deferred \subseteq 1..nextSeq /\ seen \subseteq 1..nextSeq
  <2>1. cursor \in CursorType /\ s \in Seqs
    BY NumbersInRange DEF TypeOK
  <2>2. cursor.applied \in Int
    BY <2>1, MaxSeqAssumption DEF CursorType, Positions
  <2> QED BY <2>1, <2>2 DEF TypeOK
<1>1. CASE UNCHANGED <<engine, skipped>>
  BY <1>0, <1>1 DEF engine
<1>2. CASE \E D \in SUBSET (deferred \ seen) : \E E \in SUBSET (deferred \ D) :
             Opened(s, D, E)
  <2>1. PICK D \in SUBSET deferred, E \in SUBSET deferred : Opened(s, D, E)
    BY <1>2
  <2>2. /\ cursor' = MarkApplied(cursor, s)
        /\ outbox' = outbox \cup {s} \cup D
        /\ seen' = seen \cup Envelopes({s} \cup D)
        /\ deferred' = deferred \ (D \cup E)
        /\ skipped' = skipped \cup E
    BY <2>1 DEF Opened
  <2>3. Envelopes({s} \cup D) \subseteq 1..nextSeq
    BY <1>0 DEF Envelopes
  <2>4. /\ cursor' \in CursorType /\ cursor'.applied >= cursor.applied
        /\ \A t \in Seqs : IsDone(cursor', t) <=> (IsDone(cursor, t) \/ t = s)
    BY <1>0, <2>2, MarkAppliedFacts
  <2> QED BY <1>0, <2>2, <2>3, <2>4
<1>3. CASE PutAside(s)
  <2>1. /\ cursor' = MarkApplied(cursor, s) /\ deferred' = deferred \cup {s}
        /\ UNCHANGED <<outbox, seen, skipped>>
    BY <1>3 DEF PutAside
  <2>2. /\ cursor' \in CursorType /\ cursor'.applied >= cursor.applied
        /\ \A t \in Seqs : IsDone(cursor', t) <=> (IsDone(cursor, t) \/ t = s)
    BY <1>0, <2>1, MarkAppliedFacts
  <2> QED BY <1>0, <2>1, <2>2
<1>4. CASE Failed(s)
  <2>1. /\ cursor' = MarkFailed(cursor, s)
        /\ skipped' = IF Exhausts(cursor, s) THEN skipped \cup {s} ELSE skipped
        /\ UNCHANGED <<outbox, deferred, seen>>
    BY <1>4 DEF Failed
  <2>2. /\ cursor' \in CursorType /\ cursor'.applied >= cursor.applied
        /\ \A t \in Seqs : IsDone(cursor', t) <=>
                             (IsDone(cursor, t) \/ (t = s /\ Exhausts(cursor, s)))
    BY <1>0, <2>1, MarkFailedFacts
  <2> QED BY <1>0, <2>1, <2>2
<1> QED BY <1>1, <1>2, <1>3, <1>4 DEF OpenRecord, Held

\* An empty inbox and a device that has read nothing.
LEMMA TypeInitInv == Init => TypeInv
<1> SUFFICES ASSUME Init PROVE TypeInv
  OBVIOUS
<1>1. ServerInv /\ ServerTypeOK
  BY ServerInitInv DEF Init, ServerInv
<1>2. FromDisk(0) \in CursorType /\ 0 \in Positions
  BY MaxAttemptsAssumption, MaxSeqAssumption DEF FromDisk, CursorType, Positions
<1>3. TypeOK
  <2>1. shows \in [Seqs -> Nat]
    BY DEF Init
  <2>2. disk \in [applied : Positions, deferred : SUBSET Seqs, seen : SUBSET Seqs]
    BY <1>2 DEF Init
  <2>3. /\ live = {} /\ page = {} /\ deferred = {} /\ seen = {} /\ outbox = {}
        /\ shown = {} /\ skipped = {} /\ lost = {}
        /\ pc = "idle" /\ more = FALSE /\ dirty = FALSE
        /\ pages = 0 /\ crashes = 0 /\ faults = 0 /\ cursor = FromDisk(0)
    BY DEF Init
  <2>4. 0 \in 0..MaxPages /\ 0 \in 0..MaxCrashes /\ 0 \in 0..MaxDiskFaults
    BY SyncAssumption
  <2> QED BY <1>1, <1>2, <2>1, <2>2, <2>3, <2>4 DEF TypeOK
<1>4. PagesOfSync /\ disk.deferred \subseteq 1..nextSeq /\ disk.seen \subseteq 1..nextSeq
  BY SyncAssumption DEF Init, PagesOfSync
<1> QED BY <1>1, <1>3, <1>4 DEF TypeInv

\* Every step keeps the types.
LEMMA TypeNextInv == TypeInv /\ [Next]_vars => TypeInv'
<1> SUFFICES ASSUME TypeInv, [Next]_vars PROVE TypeInv'
  OBVIOUS
<1> DEFINE Num == 1..nextSeq
<1>0. /\ TypeOK /\ ServerTypeOK /\ ServerInv /\ PagesOfSync
      /\ disk.deferred \subseteq Num /\ disk.seen \subseteq Num
  BY DEF TypeInv, TypeOK
<1>1. ServerInv' /\ ServerTypeOK'
  BY <1>0, StepsOfShard, ServerNextInv DEF ServerInv
<1>2. /\ nextSeq \in Nat /\ nextSeq' \in Nat /\ nextSeq <= nextSeq' 
      /\ Num \subseteq Num' /\ Num \subseteq Seqs
  BY <1>0, StepsOfShard, JournalGrows, NumbersInRange
<1> DEFINE Goal == /\ TypeOK' /\ PagesOfSync'
                   /\ disk'.deferred \subseteq Num' /\ disk'.seen \subseteq Num'
<1>3. SUFFICES Goal
  BY <1>1 DEF TypeInv
<1>4. /\ live \subseteq Num /\ page \subseteq Num /\ deferred \subseteq Num
      /\ outbox \subseteq Num /\ seen \subseteq Num /\ shown \subseteq Num
      /\ skipped \subseteq Num /\ lost \subseteq Num
      /\ more \in BOOLEAN /\ dirty \in BOOLEAN /\ pages \in 0..MaxPages
      /\ cursor \in CursorType /\ shows \in [Seqs -> Nat]
      /\ pc \in {"idle", "fetch", "open", "apply", "persist", "ack"}
      /\ disk \in [applied : Positions, deferred : SUBSET Seqs, seen : SUBSET Seqs]
      /\ crashes \in 0..MaxCrashes /\ faults \in 0..MaxDiskFaults
      /\ MaxPages \in Nat \ {0} /\ MaxCrashes \in Nat /\ MaxDiskFaults \in Nat
  BY <1>0, SyncAssumption DEF TypeOK
<1> HIDE DEF Num
\* The parts that most steps leave alone.
<1>5. CASE UNCHANGED <<pc, page, more, pages, engine, dirty, disk, history, bounds>>
           /\ (UNCHANGED live \/ live' \subseteq Num')
  <2>1. live' \subseteq Num'
    BY <1>2, <1>4, <1>5
  <2> QED BY <1>0, <1>1, <1>2, <1>4, <1>5, <2>1
          DEF TypeOK, PagesOfSync, engine, history, bounds, Num
<1>6. CASE UNCHANGED vars
  BY <1>5, <1>6 DEF vars, clientVars
<1>7. CASE \E k \in Arrives : Deliver(k)
  <2>1. PICK k \in Arrives : Deliver(k)
    BY <1>7
  <2>2. nextSeq' = nextSeq + 1
    BY <1>0, <2>1 DEF Deliver, AppendItem, ServerTypeOK, nextSeq
  <2>3. live' \subseteq Num'
    <3>1. nextSeq + 1 \in Num'
      BY <1>2, <2>2 DEF Num
    <3> QED BY <1>2, <1>4, <2>1, <3>1 DEF Deliver
  <2> QED BY <1>5, <2>1, <2>3 DEF Deliver
<1>8. CASE \E s \in Seqs : LiveLost(s)
  <2>1. live' \subseteq Num'
    BY <1>2, <1>4, <1>8 DEF LiveLost
  <2> QED BY <1>5, <1>8, <2>1 DEF LiveLost
<1>9. CASE Shard
  BY <1>5, <1>9 DEF Shard, clientVars
\* The other steps are taken by the host; the shard stands still, or hears an
\* acknowledgement.
<1>10. ASSUME HostStep \/ Crash PROVE nextSeq' = nextSeq /\ Num' = Num
  <2>1. items' = items
    BY <1>10 DEF HostStep, Crash, OpenNext, StartSync, FetchPage, FetchFails,
         EndPage, SaveState, Persist, Ack, AckLost, OpenLive, ApplyEvent,
         AckTo, serverVars
  <2> QED BY <2>1 DEF nextSeq, Num
<1>11. CASE Crash
  <2>1. disk.applied \in Positions
    BY <1>4
  <2>2. FromDisk(disk.applied) \in CursorType
    BY <2>1, MaxAttemptsAssumption DEF FromDisk, CursorType
  <2>3. lost' \subseteq Num'
    BY <1>2, <1>4, <1>11 DEF Crash
  <2>4. crashes' \in 0..MaxCrashes
    BY <1>4, <1>11 DEF Crash
  <2>5. /\ live' = {} /\ page' = {} /\ outbox' = {} /\ pages' = 0
        /\ deferred' = disk.deferred /\ seen' = disk.seen
        /\ cursor' = FromDisk(disk.applied) /\ dirty' = FALSE /\ pc' = "idle"
        /\ UNCHANGED <<more, disk, shown, shows, skipped, faults>>
    BY <1>11 DEF Crash
  <2>6. 0 \in 0..MaxPages
    BY <1>4
  <2>7. TypeOK'
    BY <1>0, <1>1, <1>2, <1>4, <2>2, <2>3, <2>4, <2>5, <2>6 DEF TypeOK, Num
  <2>8. PagesOfSync'
    BY <2>5 DEF PagesOfSync
  <2> QED BY <1>0, <1>2, <2>5, <2>7, <2>8
<1>12. ASSUME NEW s \in Num, OpenRecord(s), HostStep,
              NEW next \in {"open", "idle", "persist"}, pc' = AfterOpen(next),
              next = "idle" => pages = 0,
              page' \subseteq page, live' \subseteq live, MarkDirty(s),
              UNCHANGED <<more, pages, disk, shown, shows, lost, bounds>>
       PROVE  Goal
  <2>1. /\ cursor' \in CursorType /\ outbox' \subseteq Num /\ skipped' \subseteq Num
        /\ deferred' \subseteq Num /\ seen' \subseteq Num
    BY <1>0, <1>12, OpenRecordFacts DEF Num
  <2>2. pc' \in {"open", "idle", "persist", "apply"} /\ (pc' = "idle" => pages = 0)
    BY <1>12 DEF AfterOpen
  <2>3. dirty' \in BOOLEAN
    BY <1>12 DEF MarkDirty
  <2>4. TypeOK'
    BY <1>0, <1>1, <1>4, <1>10, <1>12, <2>1, <2>2, <2>3 DEF TypeOK, bounds, Num
  <2>5. PagesOfSync'
    BY <1>12, <2>2 DEF PagesOfSync
  <2> QED BY <1>0, <1>10, <1>12, <2>4, <2>5
<1>13. CASE OpenNext
  <2>1. PICK s \in page : OpenRecord(s) /\ page' = page \ {s} /\ MarkDirty(s)
                          /\ pc' = AfterOpen("open")
    <3> DEFINE s == CHOOSE u \in page : \A v \in page : u <= v
    <3>1. PICK u \in page : \A v \in page : u <= v
      <4>1. page # {}
        BY <1>13 DEF OpenNext
      <4>2. page \subseteq Nat
        BY <1>2, <1>4 DEF Num
      <4> QED BY <4>1, <4>2, LeastNumber
    <3>2. s \in page
      BY <3>1
    <3> QED BY <1>13, <3>2 DEF OpenNext
  <2>2. s \in Num
    BY <1>4, <2>1
  <2> QED BY <1>12, <1>13, <2>1, <2>2 DEF OpenNext, HostStep
<1>14. CASE \E s \in Seqs : OpenLive(s)
  <2>1. PICK s \in Seqs : OpenLive(s)
    BY <1>14
  <2>2. s \in Num /\ HostStep /\ pages = 0
    BY <1>0, <1>4, <2>1 DEF OpenLive, HostStep, PagesOfSync
  <2>3. PICK next \in {"open", "idle", "persist"} : pc' = AfterOpen(next)
    BY <2>1 DEF OpenLive
  <2> QED BY <1>12, <2>1, <2>2, <2>3 DEF OpenLive
<1>15. CASE \E s \in Seqs, fails \in BOOLEAN : ApplyEvent(s, fails)
  <2>1. PICK s \in Seqs, fails \in BOOLEAN : ApplyEvent(s, fails)
    BY <1>15
  <2>2. s \in Num /\ HostStep /\ outbox' \subseteq Num
    BY <1>4, <2>1 DEF ApplyEvent, HostStep
  <2>3. /\ shown' \subseteq Num /\ skipped' \subseteq Num /\ shows' \in [Seqs -> Nat]
    BY <1>4, <2>1, <2>2 DEF ApplyEvent
  <2>4. /\ pc' \in {"idle", "fetch", "open", "apply", "persist", "ack"}
        /\ pc' = "idle" => pages = 0
        /\ pc' = "fetch" => pages < MaxPages
    BY <1>0, <1>4, <2>1 DEF ApplyEvent, PagesOfSync
  <2>5. dirty' \in BOOLEAN
    BY <2>1 DEF ApplyEvent
  <2>6. UNCHANGED <<live, page, more, pages, cursor, deferred, seen, disk, lost, bounds>>
    BY <2>1 DEF ApplyEvent
  <2>7. TypeOK'
    BY <1>0, <1>1, <1>4, <1>10, <2>2, <2>3, <2>4, <2>5, <2>6 DEF TypeOK, bounds, Num
  <2>8. PagesOfSync'
    BY <2>4, <2>6 DEF PagesOfSync
  <2> QED BY <1>0, <1>10, <2>2, <2>6, <2>7, <2>8
\* The steps that only move the host on.
<1>16. ASSUME HostStep, pc' \in {"idle", "fetch", "open", "apply", "persist", "ack"},
              page' \subseteq Num, more' \in BOOLEAN, pages' \in 0..MaxPages,
              PagesOfSync', UNCHANGED <<live, engine, dirty, disk, history, bounds>>
       PROVE  Goal
  <2>1. TypeOK'
    BY <1>0, <1>1, <1>4, <1>10, <1>16 DEF TypeOK, engine, history, bounds, Num
  <2> QED BY <1>0, <1>10, <1>16, <2>1
<1>17. CASE StartSync
  BY <1>0, <1>4, <1>16, <1>17 DEF StartSync, HostStep, PagesOfSync
<1>18. CASE FetchPage
  <2>1. page' \subseteq log /\ more' \in BOOLEAN
    BY <1>18 DEF FetchPage, Scan, Rows
  <2>2. log \subseteq Num
    BY <1>0 DEF ServerTypeOK, Num
  <2>3. pages' \in 0..MaxPages
    BY <1>0, <1>4, <1>18 DEF FetchPage, PagesOfSync
  <2> QED BY <1>16, <1>18, <2>1, <2>2, <2>3 DEF FetchPage, HostStep, PagesOfSync
<1>19. CASE FetchFails
  BY <1>4, <1>16, <1>19 DEF FetchFails, HostStep, PagesOfSync
<1>20. CASE EndPage
  <2>1. pages' = pages /\ pc' = IF more /\ pages < MaxPages THEN "fetch" ELSE "persist"
    BY <1>20 DEF EndPage
  <2>2. PagesOfSync'
    BY <2>1 DEF PagesOfSync
  <2> QED BY <1>4, <1>16, <1>20, <2>1, <2>2 DEF EndPage, HostStep
<1>21. CASE Ack \/ AckLost
  BY <1>4, <1>16, <1>21 DEF Ack, AckLost, HostStep, PagesOfSync
\* The steps that write to the disk.
<1>22. CASE SaveState \/ Persist
  <2>1. WriteState /\ dirty' = FALSE /\ HostStep
        /\ UNCHANGED <<live, page, more, pages, engine, history, crashes>>
    BY <1>22 DEF SaveState, Persist, HostStep
  <2>2. /\ disk' \in [applied : Positions, deferred : SUBSET Seqs, seen : SUBSET Seqs]
        /\ disk'.deferred \subseteq Num /\ disk'.seen \subseteq Num
        /\ faults' \in 0..MaxDiskFaults
    <3>1. CASE disk' = Snapshot /\ UNCHANGED faults
      <4>1. cursor.applied \in Positions
        BY <1>4 DEF CursorType
      <4>2. deferred \subseteq Seqs /\ seen \subseteq Seqs
        BY <1>2, <1>4
      <4> QED BY <1>4, <3>1, <4>1, <4>2 DEF Snapshot
    <3>2. CASE faults < MaxDiskFaults /\ faults' = faults + 1 /\ UNCHANGED disk
      BY <1>0, <1>4, <3>2
    <3> QED BY <2>1, <3>1, <3>2 DEF WriteState
  <2>3. pc' \in {pc, "ack"}
    BY <1>22 DEF SaveState, Persist
  <2>4. TypeOK'
    BY <1>0, <1>1, <1>4, <1>10, <2>1, <2>2, <2>3 DEF TypeOK, engine, history, Num
  <2>5. PagesOfSync'
    BY <1>0, <2>1, <2>3 DEF PagesOfSync
  <2> QED BY <1>10, <2>1, <2>2, <2>4, <2>5
<1> QED
  BY <1>6, <1>7, <1>8, <1>9, <1>11, <1>13, <1>14, <1>15, <1>17, <1>18, <1>19,
     <1>20, <1>21, <1>22 DEF Next, HostStep

-----------------------------------------------------------------------------
(* The positions of cursor, disk and server                                *)

\* The disk is behind the cursor; the server is behind the disk, and what is
\* about to be acknowledged is on disk, as long as writing works.
PositionsInv == /\ disk.applied <= cursor.applied
                /\ AckBehindDisk
                /\ pc = "ack" /\ faults = 0 => disk.applied = cursor.applied

\* The record that OpenNext or OpenLive opens has a number.
LEMMA OpensANumber ==
  ASSUME TypeOK, OpenNext \/ \E s \in Seqs : OpenLive(s)
  PROVE  /\ \E s \in 1..nextSeq : OpenRecord(s)
         /\ pc' # "ack"
         /\ UNCHANGED <<serverVars, disk, shown, shows, lost, bounds>>
<1>1. CASE OpenNext
  <2> DEFINE s == CHOOSE t \in page : \A u \in page : t <= u
  <2>1. page \subseteq 1..nextSeq /\ page \subseteq Nat /\ page # {}
    BY <1>1, NumbersInRange DEF TypeOK, OpenNext
  <2>2. s \in page
    BY <2>1, LeastNumber
  <2>3. OpenRecord(s) /\ pc' = AfterOpen("open")
        /\ UNCHANGED <<serverVars, disk, shown, shows, lost, bounds>>
    BY <1>1 DEF OpenNext
  <2> HIDE DEF s
  <2>4. pc' # "ack"
    BY <2>3 DEF AfterOpen
  <2> QED BY <2>1, <2>2, <2>3, <2>4
<1>2. CASE \E s \in Seqs : OpenLive(s)
  <2>1. PICK s \in Seqs : OpenLive(s)
    BY <1>2
  <2>2. s \in 1..nextSeq /\ OpenRecord(s)
        /\ UNCHANGED <<serverVars, disk, shown, shows, lost, bounds>>
    BY <2>1 DEF TypeOK, OpenLive
  <2>3. pc' # "ack"
    BY <2>1 DEF OpenLive, AfterOpen
  <2> QED BY <2>2, <2>3
<1> QED BY <1>1, <1>2

\* Every step keeps the order of the positions.
LEMMA PositionsNextInv ==
  TypeInv /\ PositionsInv /\ [Next]_vars => PositionsInv'
<1> SUFFICES ASSUME TypeInv, PositionsInv, [Next]_vars PROVE PositionsInv'
  OBVIOUS
<1>0. /\ TypeOK /\ acked \in Nat /\ disk.applied \in Nat /\ cursor.applied \in Nat
      /\ faults \in Nat
  BY MaxSeqAssumption, SyncAssumption
     DEF TypeInv, TypeOK, ServerTypeOK, CursorType, Positions
\* The steps that move none of the positions.
<1>1. ASSUME pc' = "ack" => pc = "ack",
             UNCHANGED <<acked, disk, cursor, faults>>
      PROVE  PositionsInv'
  BY <1>0, <1>1 DEF PositionsInv, AckBehindDisk
<1>2. CASE UNCHANGED vars
  BY <1>1, <1>2 DEF vars, serverVars, clientVars, engine, bounds
<1>3. CASE \E k \in Arrives : Deliver(k)
  BY <1>1, <1>3 DEF Deliver, AppendItem, engine, bounds
<1>4. CASE \E s \in Seqs : LiveLost(s)
  BY <1>1, <1>4 DEF LiveLost, serverVars, engine, bounds
<1>5. CASE Shard
  <2>1. acked' = acked
    BY <1>5 DEF Shard, ServerStep, Hide, GcExpired, GcAcked, GcRecount, GcStops,
                DayPasses, MonthPasses
  <2> QED BY <1>1, <1>5, <2>1 DEF Shard, clientVars, engine, bounds
<1>6. CASE Crash
  <2>1. /\ cursor'.applied = disk.applied /\ pc' = "idle"
        /\ UNCHANGED <<acked, disk, faults>>
    BY <1>6 DEF Crash, FromDisk, serverVars
  <2> QED BY <1>0, <2>1 DEF PositionsInv, AckBehindDisk
<1>7. CASE OpenNext \/ \E s \in Seqs : OpenLive(s)
  <2>1. PICK s \in 1..nextSeq : OpenRecord(s)
    BY <1>0, <1>7, OpensANumber
  <2>2. pc' # "ack" /\ UNCHANGED <<acked, disk, faults>>
    BY <1>0, <1>7, OpensANumber DEF serverVars, bounds
  <2>3. cursor'.applied >= cursor.applied /\ cursor'.applied \in Nat
    BY <1>0, <2>1, OpenRecordFacts, MaxSeqAssumption DEF CursorType, Positions
  <2> QED BY <1>0, <2>2, <2>3 DEF PositionsInv, AckBehindDisk
<1>8. CASE \E s \in Seqs, fails \in BOOLEAN : ApplyEvent(s, fails)
  BY <1>1, <1>8 DEF ApplyEvent, serverVars, bounds
<1>9. CASE StartSync \/ FetchPage \/ FetchFails \/ EndPage \/ AckLost
  BY <1>1, <1>9 DEF StartSync, FetchPage, FetchFails, EndPage, AckLost,
                    serverVars, engine, bounds
<1>10. CASE Ack
  <2>1. /\ pc = "ack" /\ pc' = "idle" /\ acked' = MaxOf(acked, cursor.applied)
        /\ UNCHANGED <<disk, cursor, faults>>
    BY <1>10 DEF Ack, AckTo, engine, bounds
  <2> QED BY <1>0, <2>1 DEF PositionsInv, AckBehindDisk, MaxOf
<1>11. CASE SaveState \/ Persist
  <2>1. WriteState /\ UNCHANGED <<acked, cursor>>
    BY <1>11 DEF SaveState, Persist, serverVars, engine
  <2>2. CASE disk' = Snapshot /\ UNCHANGED faults
    <3>1. disk'.applied = cursor.applied
      BY <2>2 DEF Snapshot
    <3> QED BY <1>0, <2>1, <2>2, <3>1 DEF PositionsInv, AckBehindDisk
  <2>3. CASE faults' = faults + 1 /\ UNCHANGED disk
    <3>1. faults' # 0
      BY <1>0, <2>3
    <3> QED BY <1>0, <2>1, <2>3, <3>1 DEF PositionsInv, AckBehindDisk
  <2> QED BY <2>1, <2>2, <2>3 DEF WriteState
<1> QED
  BY <1>2, <1>3, <1>4, <1>5, <1>6, <1>7, <1>8, <1>9, <1>10, <1>11
  DEF Next, HostStep

-----------------------------------------------------------------------------
(* What the cursor has passed, and what the server still holds             *)

\* The first two parts of CursorPassesOnlyHandled, through is_done.
HandledInv == /\ \A t \in Seqs : IsDone(cursor, t) => t \in Handled
              /\ 1..disk.applied \subseteq HandledOnDisk

\* A number is in the journal, was deleted unread, or was acknowledged.
JournalKept == 1..nextSeq \subseteq log \cup gone \cup 1..acked

\* HandledInv is what CursorPassesOnlyHandled says.
LEMMA HandledByIsDone ==
  ASSUME TypeOK, HandledInv
  PROVE  CursorPassesOnlyHandled
<1>1. /\ cursor.applied \in Nat /\ cursor.ahead \subseteq Seqs
      /\ 1..cursor.applied \subseteq Seqs
  BY MaxSeqAssumption DEF TypeOK, CursorType, Positions, Seqs
<1>2. 1..cursor.applied \subseteq Handled
  BY <1>1 DEF HandledInv, IsDone
<1>3. cursor.ahead \subseteq Handled
  BY <1>1 DEF HandledInv, IsDone
<1> QED BY <1>2, <1>3 DEF HandledInv, CursorPassesOnlyHandled

\* Every step of the shard keeps the journal or says where the record went.
LEMMA KeptNextInv ==
  ServerTypeOK /\ JournalKept /\ [ServerNext]_serverVars => JournalKept'
<1> SUFFICES ASSUME ServerTypeOK, JournalKept, [ServerNext]_serverVars
             PROVE  JournalKept'
  OBVIOUS
<1>0. /\ nextSeq \in Nat /\ acked \in Nat /\ log \subseteq 1..nextSeq
      /\ ttl \in Int /\ day \in Int
  BY MaxSeqAssumption DEF ServerTypeOK, nextSeq, Positions
<1>1. CASE \E k \in Kinds : AppendItem(k)
  <2>1. PICK k \in Kinds : AppendItem(k)
    BY <1>1
  <2>2. nextSeq' = nextSeq + 1
    BY <2>1 DEF AppendItem, ServerTypeOK, nextSeq
  <2>3. log' = log \cup {nextSeq + 1} /\ gone' = gone /\ acked' = acked
    BY <2>1 DEF AppendItem
  <2>4. 1..nextSeq' = 1..nextSeq \cup {nextSeq + 1}
    BY <1>0, <2>2
  <2> QED BY <2>3, <2>4 DEF JournalKept
<1>2. CASE \E n \in Positions : AckTo(n)
  <2>1. /\ UNCHANGED <<items, log, gone>> /\ acked' \in Nat /\ acked' >= acked
    BY <1>0, <1>2, MaxSeqAssumption DEF AckTo, MaxOf, Positions
  <2>2. 1..acked \subseteq 1..acked'
    BY <1>0, <2>1
  <2> QED BY <2>1, <2>2 DEF JournalKept, nextSeq
<1>3. ASSUME UNCHANGED <<items, acked>>, gone \subseteq gone',
             \A s \in log \ log' : s \in gone' \/ s \in 1..acked
      PROVE  JournalKept'
  BY <1>3 DEF JournalKept, nextSeq
<1>4. CASE \E S \in SUBSET MayHide : Hide(S)
  <2>1. PICK S \in SUBSET MayHide : Hide(S)
    BY <1>4
  <2>2. \A s \in log \ log' : s \in gone' \/ s \in 1..acked
    BY <1>0, <2>1 DEF Hide
  <2> QED BY <1>3, <2>1, <2>2 DEF Hide
<1>5. CASE GcExpired
  <2>1. \A s \in log \ log' : s \in gone' \/ s \in 1..acked
    BY <1>0, <1>5 DEF GcExpired
  <2> QED BY <1>3, <1>5, <2>1 DEF GcExpired
<1>6. CASE GcAcked
  <2>1. \A s \in log \ log' : s \in gone' \/ s \in 1..acked
    BY <1>0, <1>6 DEF GcAcked
  <2> QED BY <1>3, <1>6, <2>1 DEF GcAcked
<1>7. CASE UNCHANGED <<items, log, acked, gone>>
  BY <1>7 DEF JournalKept, nextSeq
<1>8. CASE \/ GcRecount \/ GcStops \/ UNCHANGED serverVars
           \/ \E d \in Seqs : DayPasses(d) \/ MonthPasses(d)
  BY <1>7, <1>8 DEF GcRecount, GcStops, DayPasses, MonthPasses, serverVars
<1> QED
  BY <1>1, <1>2, <1>4, <1>5, <1>6, <1>8 DEF ServerNext, ServerStep

\* Every step keeps what is dealt with.
LEMMA HandledNextInv ==
  TypeInv /\ HandledInv /\ [Next]_vars => HandledInv'
<1> SUFFICES ASSUME TypeInv, HandledInv, [Next]_vars PROVE HandledInv'
  OBVIOUS
<1>0. /\ TypeOK /\ disk.applied \in Nat /\ cursor.applied \in Nat
      /\ 1..disk.applied \subseteq Seqs /\ 1..cursor.applied \subseteq Seqs
  <2>1. TypeOK /\ disk.applied \in Positions /\ cursor.applied \in Positions
    BY DEF TypeInv, TypeOK, CursorType
  <2> QED BY <2>1, MaxSeqAssumption DEF Positions, Seqs
\* The steps that move no record from hand to hand.
<1>1. ASSUME UNCHANGED <<cursor, disk, deferred, outbox, shown, skipped, lost>>
      PROVE  HandledInv'
  BY <1>1 DEF HandledInv, Handled, HandledOnDisk
<1>2. CASE UNCHANGED vars
  BY <1>1, <1>2 DEF vars, clientVars, engine, history
<1>3. CASE \E k \in Arrives : Deliver(k)
  BY <1>1, <1>3 DEF Deliver, engine, history
<1>4. CASE \E s \in Seqs : LiveLost(s)
  BY <1>1, <1>4 DEF LiveLost, engine, history
<1>5. CASE Shard
  BY <1>1, <1>5 DEF Shard, clientVars, engine, history
<1>6. CASE Crash
  <2>1. /\ cursor' = FromDisk(disk.applied) /\ deferred' = disk.deferred
        /\ lost' = lost \cup {s \in outbox \ shown : ~Recoverable(s)}
        /\ outbox' = {} /\ UNCHANGED <<disk, shown, skipped>>
    BY <1>6 DEF Crash
  <2>2. ASSUME NEW t \in 1..disk.applied
        PROVE  t \in shown \cup skipped \cup lost' \cup disk.deferred
    <3>1. t \in shown \cup skipped \cup lost \cup outbox \cup disk.deferred
      BY <2>2 DEF HandledInv, HandledOnDisk
    <3>2. ~(t > disk.applied)
      BY <1>0, <2>2
    <3>3. ASSUME t \in outbox, t \notin shown, t \notin disk.deferred
          PROVE  t \in lost'
      BY <2>1, <3>2, <3>3 DEF Recoverable
    <3> QED BY <2>1, <3>1, <3>3
  <2>3. \A t \in Seqs : IsDone(cursor', t) => t \in 1..disk.applied
    BY <1>0, <2>1 DEF IsDone, FromDisk, Seqs
  <2> QED BY <2>1, <2>2, <2>3 DEF HandledInv, Handled, HandledOnDisk
<1>7. CASE OpenNext \/ \E s \in Seqs : OpenLive(s)
  <2>1. PICK s \in 1..nextSeq : OpenRecord(s)
    BY <1>0, <1>7, OpensANumber
  <2>2. UNCHANGED <<disk, shown, lost>>
    BY <1>0, <1>7, OpensANumber
  <2>3. /\ \A t \in Seqs : IsDone(cursor', t) =>
             \/ IsDone(cursor, t)
             \/ t \in outbox' \cup deferred' \cup skipped'
        /\ outbox \subseteq outbox' /\ skipped \subseteq skipped'
        /\ deferred \subseteq deferred' \cup outbox' \cup skipped'
    BY <1>0, <2>1, OpenRecordFacts
  <2>4. Handled \subseteq Handled' /\ HandledOnDisk \subseteq HandledOnDisk'
    BY <2>2, <2>3 DEF Handled, HandledOnDisk
  <2>5. \A t \in Seqs : IsDone(cursor', t) => t \in Handled'
    BY <2>3, <2>4 DEF HandledInv, Handled
  <2> QED BY <2>2, <2>4, <2>5 DEF HandledInv
<1>8. CASE \E s \in Seqs, fails \in BOOLEAN : ApplyEvent(s, fails)
  <2>1. PICK s \in Seqs, fails \in BOOLEAN : ApplyEvent(s, fails)
    BY <1>8
  <2>2. /\ outbox' = outbox \ {s} /\ s \in shown' \cup skipped'
        /\ shown \subseteq shown' /\ skipped \subseteq skipped'
        /\ UNCHANGED <<cursor, disk, deferred, lost>>
    BY <2>1 DEF ApplyEvent
  <2>3. Handled \subseteq Handled' /\ HandledOnDisk \subseteq HandledOnDisk'
    BY <2>2 DEF Handled, HandledOnDisk
  <2> QED BY <2>2, <2>3 DEF HandledInv
<1>9. CASE StartSync \/ FetchPage \/ FetchFails \/ EndPage \/ Ack \/ AckLost
  BY <1>1, <1>9 DEF StartSync, FetchPage, FetchFails, EndPage, Ack, AckLost,
                    engine, history
<1>10. CASE SaveState \/ Persist
  <2>1. WriteState /\ UNCHANGED <<cursor, deferred, outbox, shown, skipped, lost>>
    BY <1>10 DEF SaveState, Persist, engine, history
  <2>2. CASE disk' = Snapshot
    <3>1. disk'.applied = cursor.applied /\ disk'.deferred = deferred
      BY <2>2 DEF Snapshot
    <3>2. Handled' = Handled /\ HandledOnDisk' = Handled
      BY <2>1, <3>1 DEF Handled, HandledOnDisk
    <3>3. 1..cursor.applied \subseteq Handled
      BY <1>0 DEF HandledInv, IsDone
    <3> QED BY <2>1, <3>1, <3>2, <3>3 DEF HandledInv
  <2>3. CASE UNCHANGED disk
    BY <1>1, <2>1, <2>3
  <2> QED BY <2>1, <2>2, <2>3 DEF WriteState
<1> QED
  BY <1>2, <1>3, <1>4, <1>5, <1>6, <1>7, <1>8, <1>9, <1>10 DEF Next, HostStep

-----------------------------------------------------------------------------
(* How often a record is applied                                           *)

\* The engine can tell that it has opened s: an envelope by the replay guard,
\* another record by the cursor.
KnownOpen(s) == IF items[s] \in Sent THEN s \in seen ELSE IsDone(cursor, s)

\* A record is waiting in the outbox, or was applied in this life, only if the
\* engine knows that it opened it; only group envelopes wait for keys.
OnceInv ==
  /\ ShownOncePerLife
  /\ \A s \in outbox : shows[s] <= crashes
  /\ \A s \in 1..nextSeq : s \in outbox \/ shows[s] > crashes => KnownOpen(s)
  /\ \A s \in Seqs \ (1..nextSeq) : shows[s] = 0
  /\ \A s \in deferred \cup disk.deferred : items[s] \in Sent

\* Opening a record puts into the outbox only what the engine did not know to
\* be open, and it knows it from then on.
LEMMA OpensOnce ==
  ASSUME TypeOK, \A t \in deferred : items[t] \in Sent,
         NEW s \in 1..nextSeq, OpenRecord(s), items' = items
  PROVE  /\ \A t \in outbox' \ outbox : ~KnownOpen(t)
         /\ \A t \in 1..nextSeq : t \in outbox' /\ t \notin outbox => KnownOpen(t)'
         /\ \A t \in 1..nextSeq : KnownOpen(t) => KnownOpen(t)'
         /\ \A t \in deferred' : items[t] \in Sent
<1>0. /\ 1..nextSeq \subseteq Seqs /\ cursor \in CursorType /\ s \in Seqs
      /\ deferred \subseteq 1..nextSeq
  BY NumbersInRange DEF TypeOK
<1>1. /\ seen \subseteq seen'
      /\ \A t \in Seqs : IsDone(cursor, t) => IsDone(cursor', t)
  BY OpenRecordFacts
<1>2. \A t \in 1..nextSeq : KnownOpen(t) => KnownOpen(t)'
  BY <1>0, <1>1 DEF KnownOpen
<1>3. CASE outbox' = outbox /\ deferred' = deferred
  BY <1>2, <1>3
<1>4. ASSUME MustOpen(s), "ok" \in May(s),
             NEW D \in SUBSET (deferred \ seen), NEW E \in SUBSET (deferred \ D),
             Opened(s, D, E)
      PROVE  /\ \A t \in outbox' \ outbox : ~KnownOpen(t)
             /\ \A t \in 1..nextSeq : t \in outbox' /\ t \notin outbox => KnownOpen(t)'
             /\ \A t \in deferred' : items[t] \in Sent
  <2>1. /\ cursor' = MarkApplied(cursor, s)
        /\ outbox' = outbox \cup {s} \cup D
        /\ seen' = seen \cup Envelopes({s} \cup D)
        /\ deferred' = deferred \ (D \cup E)
    BY <1>4 DEF Opened
  <2>2. s \notin seen /\ ~IsDone(cursor, s)
    BY <1>4 DEF May, MustOpen
  <2>3. IsDone(cursor', s)
    BY <1>0, <2>1, MarkAppliedFacts
  <2>4. ~KnownOpen(s) /\ \A t \in D : ~KnownOpen(t)
    BY <2>2 DEF KnownOpen
  <2>5. KnownOpen(s)'
    BY <2>1, <2>3 DEF KnownOpen, Envelopes
  <2>6. \A t \in D : KnownOpen(t)'
    BY <2>1 DEF KnownOpen, Envelopes
  <2> QED BY <2>1, <2>4, <2>5, <2>6
<1>5. CASE "keys" \in May(s) /\ PutAside(s)
  <2>1. outbox' = outbox /\ deferred' = deferred \cup {s}
    BY <1>5 DEF PutAside
  <2>2. "keys" \in Opens[items[s]]
    BY <1>5 DEF May
  <2>3. items[s] \in Kinds
    BY DEF TypeOK, ServerTypeOK, nextSeq
  <2>4. items[s] \in Sent
    BY <2>2, <2>3, SyncAssumption DEF Kinds
  <2> QED BY <1>2, <2>1, <2>4
<1>6. CASE UNCHANGED <<engine, skipped>> \/ Failed(s)
  BY <1>3, <1>6 DEF engine, Failed
<1> QED BY <1>2, <1>4, <1>5, <1>6 DEF OpenRecord, Held

\* Every step keeps it; a crash starts a new life, in which everything may be
\* applied once more.
LEMMA OnceNextInv ==
  TypeInv /\ OnceInv /\ [Next]_vars => OnceInv'
<1> SUFFICES ASSUME TypeInv, OnceInv, [Next]_vars PROVE OnceInv'
  OBVIOUS
<1>0. /\ TypeOK /\ ServerTypeOK /\ 1..nextSeq \subseteq Seqs /\ nextSeq \in Nat
      /\ shows \in [Seqs -> Nat] /\ crashes \in Nat
      /\ outbox \subseteq 1..nextSeq /\ deferred \subseteq 1..nextSeq
      /\ disk.deferred \subseteq 1..nextSeq
  BY NumbersInRange, SyncAssumption DEF TypeInv, TypeOK
<1>1. /\ nextSeq' \in Nat /\ 1..nextSeq \subseteq 1..nextSeq'
      /\ \A s \in 1..nextSeq : items'[s] = items[s]
  BY <1>0, StepsOfShard, JournalGrows
\* The steps of the shard, and those that only move the host on.
<1>2. ASSUME UNCHANGED <<cursor, deferred, seen, outbox, shows, crashes>>,
             disk'.deferred \subseteq deferred \cup disk.deferred
      PROVE  OnceInv'
  <2>1. ShownOncePerLife' /\ \A s \in outbox' : shows'[s] <= crashes'
    BY <1>2 DEF OnceInv, ShownOncePerLife
  <2>2. ASSUME NEW s \in 1..nextSeq', s \in outbox' \/ shows'[s] > crashes'
        PROVE  KnownOpen(s)'
    <3>1. CASE s \in 1..nextSeq
      <4>1. KnownOpen(s) /\ items'[s] = items[s]
        BY <1>1, <1>2, <2>2, <3>1 DEF OnceInv
      <4> QED BY <1>2, <4>1 DEF KnownOpen
    <3>2. CASE s \notin 1..nextSeq
      <4>1. s \in Seqs
        <5>1. TypeInv'
          BY TypeNextInv
        <5>2. TypeOK'
          BY <5>1 DEF TypeInv
        <5>3. nextSeq' <= MaxSeq
          BY <5>2 DEF TypeOK, ServerTypeOK, nextSeq
        <5> QED BY <1>1, <5>3, MaxSeqAssumption DEF Seqs
      <4>2. shows'[s] = 0 /\ s \notin outbox'
        BY <1>0, <1>2, <3>2, <4>1 DEF OnceInv
      <4> QED BY <1>0, <1>2, <2>2, <4>2
    <3> QED BY <3>1, <3>2
  <2>3. \A s \in Seqs \ (1..nextSeq') : shows'[s] = 0
    BY <1>1, <1>2 DEF OnceInv
  <2>4. \A s \in deferred' \cup disk'.deferred : items'[s] \in Sent
    BY <1>0, <1>1, <1>2 DEF OnceInv
  <2> QED BY <2>1, <2>2, <2>3, <2>4 DEF OnceInv
<1>3. CASE UNCHANGED vars
  BY <1>2, <1>3 DEF vars, clientVars, engine, history, bounds
<1>4. CASE \E k \in Arrives : Deliver(k)
  BY <1>2, <1>4 DEF Deliver, engine, history, bounds
<1>5. CASE \E s \in Seqs : LiveLost(s)
  BY <1>2, <1>5 DEF LiveLost, engine, history, bounds
<1>6. CASE Shard
  BY <1>2, <1>6 DEF Shard, clientVars, engine, history, bounds
<1>7. CASE StartSync \/ FetchPage \/ FetchFails \/ EndPage \/ Ack \/ AckLost
  BY <1>2, <1>7 DEF StartSync, FetchPage, FetchFails, EndPage, Ack, AckLost,
                    engine, history, bounds
<1>8. CASE SaveState \/ Persist
  <2>1. WriteState /\ UNCHANGED <<cursor, deferred, seen, outbox, shows, crashes>>
    BY <1>8 DEF SaveState, Persist, engine, history
  <2>2. disk'.deferred \subseteq deferred \cup disk.deferred
    BY <2>1 DEF WriteState, Snapshot
  <2> QED BY <1>2, <2>1, <2>2
<1>9. CASE Crash
  <2>1. /\ crashes' = crashes + 1 /\ outbox' = {} /\ deferred' = disk.deferred
        /\ UNCHANGED <<items, disk, shows>>
    BY <1>9 DEF Crash, serverVars
  <2>2. \A s \in Seqs : shows[s] \in Nat /\ shows[s] <= crashes + 1
    BY <1>0 DEF OnceInv, ShownOncePerLife
  <2>3. ShownOncePerLife'
    BY <1>0, <2>1, <2>2 DEF ShownOncePerLife
  <2>4. nextSeq' = nextSeq
    BY <2>1 DEF nextSeq
  <2>5. \A s \in 1..nextSeq' : ~(s \in outbox' \/ shows'[s] > crashes')
    BY <1>0, <2>1, <2>2, <2>4
  <2> QED BY <2>1, <2>3, <2>4, <2>5 DEF OnceInv
<1>10. CASE OpenNext \/ \E s \in Seqs : OpenLive(s)
  <2>1. PICK s \in 1..nextSeq : OpenRecord(s)
    BY <1>0, <1>10, OpensANumber
  <2>2. UNCHANGED <<items, disk, shows, crashes>> /\ nextSeq' = nextSeq
    BY <1>0, <1>10, OpensANumber DEF serverVars, bounds, nextSeq
  <2>3. \A t \in deferred : items[t] \in Sent
    BY DEF OnceInv
  <2>4. /\ \A t \in outbox' \ outbox : ~KnownOpen(t)
        /\ \A t \in 1..nextSeq : t \in outbox' /\ t \notin outbox => KnownOpen(t)'
        /\ \A t \in 1..nextSeq : KnownOpen(t) => KnownOpen(t)'
        /\ \A t \in deferred' : items[t] \in Sent
    BY <1>0, <2>1, <2>2, <2>3, OpensOnce
  <2>5. outbox' \subseteq 1..nextSeq
    BY <1>0, <2>1, OpenRecordFacts
  <2>6. \A t \in outbox' : shows[t] <= crashes
    <3> SUFFICES ASSUME NEW t \in outbox', t \notin outbox PROVE shows[t] <= crashes
      BY DEF OnceInv
    <3>1. ~KnownOpen(t) /\ t \in 1..nextSeq
      BY <2>4, <2>5
    <3>2. ~(shows[t] > crashes)
      BY <3>1 DEF OnceInv
    <3>3. shows[t] \in Nat
      BY <1>0, <3>1
    <3> QED BY <1>0, <3>2, <3>3
  <2>7. ASSUME NEW t \in 1..nextSeq, t \in outbox' \/ shows[t] > crashes
        PROVE  KnownOpen(t)'
    <3>1. CASE t \in outbox \/ shows[t] > crashes
      BY <2>4, <3>1 DEF OnceInv
    <3>2. CASE t \in outbox' /\ t \notin outbox
      BY <2>4, <3>2
    <3> QED BY <2>7, <3>1, <3>2
  <2>8. ShownOncePerLife'
    BY <2>2 DEF OnceInv, ShownOncePerLife
  <2>9. \A t \in deferred' \cup disk'.deferred : items'[t] \in Sent
    BY <2>2, <2>4 DEF OnceInv
  <2> QED BY <2>2, <2>6, <2>7, <2>8, <2>9 DEF OnceInv
<1>11. CASE \E s \in Seqs, fails \in BOOLEAN : ApplyEvent(s, fails)
  <2>1. PICK s \in Seqs, fails \in BOOLEAN : ApplyEvent(s, fails)
    BY <1>11
  <2>2. /\ s \in outbox /\ outbox' = outbox \ {s}
        /\ UNCHANGED <<items, cursor, deferred, seen, disk, crashes>>
        /\ nextSeq' = nextSeq
    BY <2>1 DEF ApplyEvent, serverVars, bounds, nextSeq
  <2>3. shows[s] <= crashes /\ KnownOpen(s) /\ s \in 1..nextSeq
    BY <1>0, <2>2 DEF OnceInv
  <2>4. /\ shows' \in [Seqs -> Nat]
        /\ shows'[s] = shows[s] \/ shows'[s] = shows[s] + 1
        /\ \A t \in Seqs : t # s => shows'[t] = shows[t]
    BY <1>0, <2>1 DEF ApplyEvent
  <2>5. \A t \in 1..nextSeq : KnownOpen(t) => KnownOpen(t)'
    BY <2>2 DEF KnownOpen
  <2>6. ShownOncePerLife'
    <3>1. shows[s] \in Nat
      BY <1>0
    <3>2. shows'[s] <= 1 + crashes
      BY <1>0, <2>3, <2>4, <3>1
    <3> QED BY <2>2, <2>4, <3>2 DEF OnceInv, ShownOncePerLife
  <2>7. \A t \in outbox' : shows'[t] <= crashes'
    BY <1>0, <2>2, <2>4 DEF OnceInv
  <2>8. ASSUME NEW t \in 1..nextSeq', t \in outbox' \/ shows'[t] > crashes'
        PROVE  KnownOpen(t)'
    <3>1. CASE t = s
      BY <2>3, <2>5, <3>1
    <3>2. CASE t # s
      BY <1>0, <2>2, <2>4, <2>5, <2>8, <3>2 DEF OnceInv
    <3> QED BY <3>1, <3>2
  <2>9. \A t \in Seqs \ (1..nextSeq') : shows'[t] = 0
    BY <2>2, <2>3, <2>4 DEF OnceInv
  <2> QED BY <2>2, <2>6, <2>7, <2>8, <2>9 DEF OnceInv
<1> QED
  BY <1>3, <1>4, <1>5, <1>6, <1>7, <1>8, <1>9, <1>10, <1>11 DEF Next, HostStep

-----------------------------------------------------------------------------
(* The theorems                                                            *)

\* All layers together.
SyncInv == TypeInv /\ PositionsInv /\ HandledInv /\ JournalKept /\ OnceInv

\* The layers hold at the start.
LEMMA SyncInitInv == Init => SyncInv
<1> SUFFICES ASSUME Init PROVE SyncInv
  OBVIOUS
<1>1. /\ cursor = FromDisk(0) /\ acked = 0 /\ items = <<>>
      /\ disk = [applied |-> 0, deferred |-> {}, seen |-> {}] /\ deferred = {}
      /\ outbox = {} /\ crashes = 0 /\ pc = "idle"
      /\ shows = [s \in Seqs |-> 0]
  BY DEF Init, ServerInit
<1>2. PositionsInv
  BY <1>1 DEF FromDisk, PositionsInv, AckBehindDisk
<1>3. HandledInv
  BY <1>1 DEF FromDisk, HandledInv, IsDone, Seqs
<1>4. nextSeq = 0 /\ 1..nextSeq = {}
  BY <1>1 DEF nextSeq
<1>5. JournalKept
  BY <1>4 DEF JournalKept
<1>6. OnceInv
  BY <1>1, <1>4 DEF OnceInv, ShownOncePerLife
<1> QED BY <1>2, <1>3, <1>5, <1>6, TypeInitInv DEF SyncInv

\* Every step keeps the layers.
LEMMA SyncNextInv == SyncInv /\ [Next]_vars => SyncInv'
<1> SUFFICES ASSUME SyncInv, [Next]_vars PROVE SyncInv'
  OBVIOUS
<1>1. TypeInv' /\ PositionsInv' /\ HandledInv' /\ OnceInv'
  BY TypeNextInv, PositionsNextInv, HandledNextInv, OnceNextInv DEF SyncInv
<1>2. TypeOK /\ ServerTypeOK
  BY DEF SyncInv, TypeInv, TypeOK
<1>3. JournalKept'
  BY <1>2, StepsOfShard, KeptNextInv DEF SyncInv
<1> QED BY <1>1, <1>3 DEF SyncInv

\* The layers give the properties.
LEMMA SyncInvImplies ==
  SyncInv => /\ TypeOK /\ CursorPassesOnlyHandled /\ AckBehindDisk
             /\ NoSilentLoss /\ ShownOncePerLife
<1> SUFFICES ASSUME SyncInv
             PROVE  /\ TypeOK /\ CursorPassesOnlyHandled /\ AckBehindDisk
                    /\ NoSilentLoss /\ ShownOncePerLife
  OBVIOUS
<1>1. TypeOK /\ AckBehindDisk /\ ShownOncePerLife
  BY DEF SyncInv, TypeInv, PositionsInv, OnceInv
<1>2. CursorPassesOnlyHandled
  BY <1>1, HandledByIsDone DEF SyncInv
<1>3. ASSUME faults = 0 PROVE 1..acked \subseteq HandledOnDisk
  <2>1. acked \in Nat /\ disk.applied \in Nat
    BY <1>1, MaxSeqAssumption DEF TypeOK, ServerTypeOK, Positions
  <2>2. 1..acked \subseteq 1..disk.applied
    BY <1>1, <1>3, <2>1 DEF AckBehindDisk
  <2> QED BY <2>2 DEF SyncInv, HandledInv
<1>4. NoSilentLoss
  BY <1>3 DEF SyncInv, JournalKept, NoSilentLoss
<1> QED BY <1>1, <1>2, <1>4

\* The host, the engine and the shard keep their types.
THEOREM SyncTypeCorrect == Spec => []TypeOK
<1> QED BY SyncInitInv, SyncNextInv, SyncInvImplies, PTL DEF Spec

\* SYNC-1 for every journal: the cursor, in memory and on disk, passes only
\* records that were handed on, put aside or given up.
THEOREM CursorIsHonest == Spec => []CursorPassesOnlyHandled
<1> QED BY SyncInitInv, SyncNextInv, SyncInvImplies, PTL DEF Spec

\* State first, then msg.inbox.ack: without a failed write the server is never
\* told of a record that is not behind the cursor on disk.
THEOREM AckFollowsDisk == Spec => []AckBehindDisk
<1> QED BY SyncInitInv, SyncNextInv, SyncInvImplies, PTL DEF Spec

\* End to end: no accepted record disappears between the journal of the shard
\* and the hands of the host, except by TTL or hiding.
THEOREM NoRecordVanishes == Spec => []NoSilentLoss
<1> QED BY SyncInitInv, SyncNextInv, SyncInvImplies, PTL DEF Spec

\* A record is applied at most once between two starts of the process, however
\* live events, pages and deferred envelopes repeat it.
THEOREM AppliedOncePerLife == Spec => []ShownOncePerLife
<1> QED BY SyncInitInv, SyncNextInv, SyncInvImplies, PTL DEF Spec
=============================================================================
