---------------------------- MODULE InboxServer -----------------------------
(***************************************************************************)
(* The inbox journal the messenger shard keeps for one device              *)
(* (backend/shards/messenger/src/v2.rs, tables inbox_log and inbox_device  *)
(* of migrations_v2).  Deliveries append records and give them the next    *)
(* number; the device acknowledges a prefix; an hourly sweep deletes what  *)
(* is too old.                                                             *)
(*                                                                         *)
(* Each SQL statement or transaction of the shard is one action: the       *)
(* statements of the sweep are separate ones, so deliveries and            *)
(* acknowledgements may run between them, and the process may stop there.  *)
(* Time is two marks: the records of the numbers up to day are older than  *)
(* ACKED_KEEP_SECS (a day), those up to ttl older than INBOX_TTL_SECS (30  *)
(* days).  The quota on bytes is decided the way the quota on records is   *)
(* and is left out.                                                        *)
(***************************************************************************)
EXTENDS Journal, Sequences, FiniteSets

CONSTANTS MaxRecords,   \* quota of records a device may have waiting
          TtlHorizon,   \* bound: the numbers whose records can reach the TTL
          MayHide       \* the numbers the device's owner may hide

ASSUME ServerAssumption == /\ MaxRecords \in Nat \ {0}
                           /\ TtlHorizon \in Positions
                           /\ MayHide \subseteq Seqs

VARIABLES items,     \* the items in the order of their numbers, as appended
          log,       \* the numbers whose rows are in inbox_log
          acked,     \* inbox_device.acked_seq
          records,   \* inbox_device.records, the quick counter of the quota
          day, ttl,  \* the clock, as marks in the journal
          gc,        \* the statement at which the sweep is
          gone       \* history: rows deleted before they were acknowledged

serverVars == <<items, log, acked, records, day, ttl, gc, gone>>

\* What senders set (quota applies) and what the server itself adds.
Sent == {"sealed", "group"}
Kinds == Sent \cup {"service"}

nextSeq == Len(items)

\* The rows the device has not acknowledged.
Unacked == {s \in log : s > acked}

\* Those among them that senders set.
SentUnacked == {s \in Unacked : items[s] \in Sent}

MaxOf(a, b) == IF a >= b THEN a ELSE b

ServerInit == /\ items = <<>>
              /\ log = {}
              /\ acked = 0
              /\ records = 0
              /\ day = 0
              /\ ttl = 0
              /\ gc = "idle"
              /\ gone = {}

\* A slip: the quick counter alone decides, as before MSG-09, but one late.
OverQuotaLate(k) == k \in Sent /\ records > MaxRecords

\* The quota check of append_in: the counter is the quick path, the decision
\* counts the rows that are not acknowledged.
OverQuota(k) == /\ k \in Sent
                /\ records >= MaxRecords
                /\ Cardinality(Unacked) >= MaxRecords

\* append_in with the transaction around it; an item over the quota is
\* refused with LIMIT and changes nothing.
AppendItem(k) ==
  /\ nextSeq < MaxSeq
  /\ ~OverQuota(k)
  /\ items' = Append(items, k)
  /\ log' = log \cup {nextSeq + 1}
  /\ records' = records + 1
  /\ UNCHANGED <<acked, day, ttl, gc, gone>>

\* msg.inbox.ack: the larger of the two, whatever the device says.
AckTo(n) ==
  /\ acked' = MaxOf(acked, n)
  /\ UNCHANGED <<items, log, records, day, ttl, gc, gone>>

\* A slip: the counter goes down once for every number of the request.
HideCountsAll(S) ==
  /\ S # {}
  /\ log' = log \ S
  /\ records' = MaxOf(records - Cardinality(S), 0)
  /\ gone' = gone \cup {s \in log \cap S : s > acked}
  /\ UNCHANGED <<items, acked, day, ttl, gc>>

\* msg.inbox.hide: one transaction; the counter goes down once for every row
\* that was really there.
Hide(S) ==
  /\ S # {}
  /\ log' = log \ S
  /\ records' = MaxOf(records - Cardinality(log \cap S), 0)
  /\ gone' = gone \cup {s \in log \cap S : s > acked}
  /\ UNCHANGED <<items, acked, day, ttl, gc>>

\* First statement of gc(): the TTL takes a row whether it was read or not.
GcExpired ==
  /\ gc = "idle"
  /\ log' = {s \in log : s > ttl}
  /\ gone' = gone \cup {s \in log : s <= ttl /\ s > acked}
  /\ gc' = "acked"
  /\ UNCHANGED <<items, acked, records, day, ttl>>

\* A slip: the sweep forgets to ask what was acknowledged.
GcAckedAll ==
  /\ gc = "acked"
  /\ log' = {s \in log : s > day}
  /\ gc' = "recount"
  /\ UNCHANGED <<items, acked, records, day, ttl, gone>>

\* Second statement: rows older than a day go once they are acknowledged.
GcAcked ==
  /\ gc = "acked"
  /\ log' = {s \in log : s > day \/ s > acked}
  /\ gc' = "recount"
  /\ UNCHANGED <<items, acked, records, day, ttl, gone>>

\* Last statement: the counters are counted anew.
GcRecount ==
  /\ gc = "recount"
  /\ records' = Cardinality(log)
  /\ gc' = "idle"
  /\ UNCHANGED <<items, log, acked, day, ttl, gone>>

\* A statement fails or the shard stops: the rest of the sweep is not done.
GcStops ==
  /\ gc # "idle"
  /\ gc' = "idle"
  /\ UNCHANGED <<items, log, acked, records, day, ttl, gone>>

\* Time passes: some more records are a day old, then 30 days old.
DayPasses(d) ==
  /\ d > day /\ d <= nextSeq
  /\ day' = d
  /\ UNCHANGED <<items, log, acked, records, ttl, gc, gone>>

MonthPasses(d) ==
  /\ d > ttl /\ d <= day /\ d <= TtlHorizon
  /\ ttl' = d
  /\ UNCHANGED <<items, log, acked, records, day, gc, gone>>

\* The steps the shard takes without the device.
ServerStep ==
  \/ \E S \in SUBSET MayHide : Hide(S)
  \/ GcExpired \/ GcAcked \/ GcRecount \/ GcStops
  \/ \E d \in Seqs : DayPasses(d) \/ MonthPasses(d)

\* The shard on its own: the device acknowledges whatever it likes.
ServerNext == \/ \E k \in Kinds : AppendItem(k)
              \/ \E n \in Positions : AckTo(n)
              \/ ServerStep

ServerSpec == ServerInit /\ [][ServerNext]_serverVars

-----------------------------------------------------------------------------
(* Properties                                                              *)

\* The columns and rows have their types, and every row has a number that
\* was handed out.
ServerTypeOK == /\ items \in Seq(Kinds) /\ Len(items) <= MaxSeq
                /\ log \subseteq 1..nextSeq
                /\ acked \in Positions
                /\ records \in Nat
                /\ ttl \in Positions /\ day \in ttl..nextSeq
                /\ gc \in {"idle", "acked", "recount"}
                /\ gone \subseteq 1..nextSeq /\ gone \cap log = {}

\* The counter of append_in's quick path is never below the rows that are
\* really there, between the statements of a sweep and after one that was cut
\* off, too: the quick path never lets in what the quota would refuse.
CounterCoversLog == Cardinality(log) <= records

\* C1-07: senders can never have more than MaxRecords records waiting for a
\* device that has not read them.
UnackedWithinQuota == Cardinality(SentUnacked) <= MaxRecords
=============================================================================
