--------------------------- MODULE HistoryServer ----------------------------
(***************************************************************************)
(* The history journal the messenger shard keeps for one account           *)
(* (backend/shards/messenger/src/v2_history.rs).  Devices append records;  *)
(* a checkpoint, which a device builds out of records of its own kind      *)
(* (chunk), replaces everything up to a number.                            *)
(*                                                                         *)
(* The server sees ciphertext only.  Here a record carries the operations  *)
(* it seals: one for an ordinary record, the state of one message for a    *)
(* segment of a checkpoint, none for its summary.  The quota on bytes is   *)
(* decided the way the quota on records is and is left out.                *)
(***************************************************************************)
EXTENDS Journal, Sequences, FiniteSets

CONSTANTS Op,           \* operations on messages: a row, an edit, a deletion
          MaxRecords,   \* max_records: rows the journal may hold
          PAGE_ITEMS    \* records in an answer of history.sync

ASSUME HistoryServerAssumption == MaxRecords \in Nat \ {0} /\ PAGE_ITEMS \in Nat \ {0}

VARIABLES recs,   \* the records in the order of their numbers, as appended
          live,   \* the numbers whose rows are in user_history_log
          cp      \* the row of user_history_checkpoint; id 0: none

historyVars == <<recs, live, cp>>

Record == [chunk : BOOLEAN, ops : SUBSET Op]
Checkpoint == [id : Nat, upto : Positions, summary : Positions, chunks : SUBSET Seqs]

NoCheckpoint == [id |-> 0, upto |-> 0, summary |-> 0, chunks |-> {}]

headSeq == Len(recs)

HistoryInit == recs = <<>> /\ live = {} /\ cp = NoCheckpoint

\* append_new would exceed the quota: LIMIT.
Full == Cardinality(live) >= MaxRecords

\* append_new: the transaction that takes the next number and writes the row.
AppendRecord(r) ==
  /\ headSeq < MaxSeq
  /\ ~Full
  /\ recs' = Append(recs, r)
  /\ live' = live \cup {headSeq + 1}
  /\ UNCHANGED cp

\* The SELECT of history.sync with skip_chunks: the first page of ordinary
\* records after a number, and whether there are more.
After(n) == {s \in live : s > n /\ ~recs[s].chunk}
Page(n) == {s \in After(n) : Cardinality({t \in After(n) : t < s}) < PAGE_ITEMS}
More(n) == Page(n) # After(n)

\* The SELECTs of history.get: the operations of the row, none when it is gone.
Get(s) == IF s \in live THEN recs[s].ops ELSE {}

\* What history.checkpoint.commit demands besides the expected number.
ValidCommit(upto, chunks) ==
  /\ upto <= headSeq
  /\ upto >= cp.upto
  /\ \A s \in chunks \cup {upto} : s <= upto /\ s \in live /\ recs[s].chunk

\* A slip: only the segments are put into keep, not the summary.
CommitLosesSummary(upto, chunks) ==
  /\ live' = {s \in live : s > upto \/ s \in chunks}
  /\ cp' = [id |-> cp.id + 1, upto |-> upto, summary |-> upto, chunks |-> chunks]
  /\ UNCHANGED recs

\* history.checkpoint.commit, the transaction once its checks have passed.
\* The client always commits up to its summary.
CommitCheckpoint(upto, chunks) ==
  /\ live' = {s \in live : s > upto \/ s \in chunks \cup {upto}}
  /\ cp' = [id |-> cp.id + 1, upto |-> upto, summary |-> upto, chunks |-> chunks]
  /\ UNCHANGED recs

\* What a device that starts now would be given: the checkpoint's segments
\* and the ordinary records after it.
Recoverable == (UNION {Get(s) : s \in cp.chunks}) \cup (UNION {recs[s].ops : s \in After(cp.upto)})
=============================================================================
