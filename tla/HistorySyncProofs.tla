------------------------- MODULE HistorySyncProofs --------------------------
(***************************************************************************)
(* What is proved of the history (HistorySync), for any number of devices  *)
(* and operations, any quota and page, and any faults.                     *)
(*                                                                         *)
(* The current checkpoint is whole.  CheckpointAlive is inductive as it    *)
(* stands: three things can happen to the journal (nothing, a record is    *)
(* appended, a checkpoint is committed), and each step of a device does    *)
(* one of them.                                                            *)
(*                                                                         *)
(* What the user did on a device is not lost.  OwnNeverLost alone is not   *)
(* inductive: FlushDone cuts a prefix off the queue, and only what is      *)
(* known of the worker's batch says that the prefix is in the journal      *)
(* (JobOK).  OwnInv adds that the queue on disk is the one in memory, so   *)
(* that a restart brings back what was there.                              *)
(*                                                                         *)
(* The types.  TypeOK needs OwnInv (a batch is cut from the queue) and     *)
(* that a page holds numbers of the journal (PagesOrdinary).               *)
(*                                                                         *)
(* What arrived is queued until the journal has it.  A queue gives up an   *)
(* operation because it is in seen: KnownOK says that what is in seen is   *)
(* in the journal, which follows a record from the page to the merge.      *)
(*                                                                         *)
(* Checkpoints lose nothing while one device builds them, but for what     *)
(* that device has lost itself.  CompactInv says of it, at each step of    *)
(* pullLocked and buildCheckpointLocked, that what a new device would be   *)
(* given it has or had and lost (Has), is in hand or still to come         *)
(* (CoverOK); it is stated for a journal and a device as values, so that   *)
(* an append by anybody is one lemma (CoverGrows).  What is lost never     *)
(* shrinks, so that a loss at any step only weakens it (CoverStore).       *)
(*                                                                         *)
(* The devices implement SharedHistory.  ActedInv: every operation         *)
(* anywhere was recorded on some device.                                   *)
(***************************************************************************)
EXTENDS HistorySync, SequenceTheorems, FiniteSetTheorems, WellFoundedInduction, TLAPS

\* A step that leaves the journal alone.
JournalSame == UNCHANGED historyVars

\* A step that appends a record.
JournalAppends == live \subseteq live' /\ UNCHANGED cp

\* A step that commits a checkpoint the shard has found valid.
JournalCommits == \E upto, chunks : ValidCommit(upto, chunks) /\ CommitCheckpoint(upto, chunks)

\* append_new only adds a row.
LEMMA AppendKeepsRows == ASSUME NEW r, AppendRecord(r)
                         PROVE  JournalAppends
  BY DEF AppendRecord, JournalAppends

\* record() touches no row of the journal.
LEMMA HostStep == ASSUME NEW d, Host(d)
                  PROVE  JournalSame
  BY DEF Host, RecordGet, RecordPut, RecordQueue, JournalSame

\* loop, pullLocked: a device that reads touches no row of the journal.
LEMMA PullStep == ASSUME NEW d, Sync(d) \/ Pull(d)
                  PROVE  JournalSame
  BY DEF Sync, Pull, ReadHead, ReadCheckpoint, ReadRows, LoadSummary, LoadSegment,
         AbsorbGet, AbsorbPut, CheckpointLoaded, OpenWaits, Open, PageDone, JournalSame

\* flushLocked appends or touches nothing.
LEMMA WriteStep == ASSUME NEW d, Flush(d) \/ Write(d)
                   PROVE  JournalSame \/ JournalAppends
  BY AppendKeepsRows
     DEF Flush, Write, Take, AppendOp, FlushDone, FlushRefused, JournalSame

\* maybeCheckpointLocked and buildCheckpointLocked append, commit or touch
\* nothing.
LEMMA CompactStep == ASSUME NEW d, AskHead(d) \/ Compact(d)
                     PROVE  JournalSame \/ JournalAppends \/ JournalCommits
<1>1. CASE UploadSegment(d) \/ UploadSummary(d)
  BY <1>1, AppendKeepsRows DEF UploadSegment, UploadSummary
<1>2. CASE Commit(d)
  BY <1>2 DEF Commit, JournalCommits
<1>3. CASE AskHead(d) \/ Due(d) \/ Build(d) \/ UploadRefused(d) \/ CheckFrom(d)
             \/ CheckRows(d) \/ CommitRefused(d)
  BY <1>3 DEF AskHead, Due, Build, UploadRefused, CheckFrom, CheckRows, CommitRefused, JournalSame
<1> QED BY <1>1, <1>2, <1>3 DEF Compact

\* Whatever fails, the shard has done one of the three or nothing.
LEMMA FaultStep == ASSUME NEW d, Fault(d)
                   PROVE  JournalSame \/ JournalAppends \/ JournalCommits
<1>1. CASE FlushFailed(d)
  BY <1>1, AppendKeepsRows DEF FlushFailed, JournalSame
<1>2. CASE CommitUnanswered(d)
  BY <1>2 DEF CommitUnanswered, JournalCommits
<1>3. CASE RequestFails(d) \/ Crash(d) \/ Lapse(d)
  BY <1>3 DEF RequestFails, Crash, Lapse, JournalSame
<1> QED BY <1>1, <1>2, <1>3 DEF Fault

\* Every step of every thread is one of the three.
LEMMA JournalStep == ASSUME [Next]_vars
                     PROVE  JournalSame \/ JournalAppends \/ JournalCommits
<1>1. CASE UNCHANGED vars
  BY <1>1 DEF vars, JournalSame
<1>2. ASSUME NEW d \in Device, Host(d) \/ Sync(d) \/ Pull(d) \/ Flush(d) \/ Write(d)
                                 \/ AskHead(d) \/ Compact(d) \/ Fault(d)
      PROVE  JournalSame \/ JournalAppends \/ JournalCommits
  BY <1>2, HostStep, PullStep, WriteStep, CompactStep, FaultStep
<1>3. ASSUME NEW o, Ages(o)
      PROVE  JournalSame
  BY <1>3 DEF Ages, JournalSame
<1> QED BY <1>1, <1>2, <1>3 DEF Next

\* The shard starts with no checkpoint.
LEMMA AliveInit == Init => CheckpointAlive
  BY DEF Init, HistoryInit, NoCheckpoint, CheckpointAlive

\* commit: what the new checkpoint names is there and is spared by the DELETE.
LEMMA CommitAlive == ASSUME JournalCommits
                     PROVE  CheckpointAlive'
<1>1. PICK upto, chunks : ValidCommit(upto, chunks) /\ CommitCheckpoint(upto, chunks)
  BY DEF JournalCommits
<1>2. chunks \cup {upto} \subseteq live
  BY <1>1 DEF ValidCommit
<1>3. chunks \cup {upto} \subseteq live'
  BY <1>1, <1>2 DEF CommitCheckpoint
<1>4. cp'.chunks = chunks /\ cp'.summary = upto
  BY <1>1 DEF CommitCheckpoint
<1> QED BY <1>3, <1>4 DEF CheckpointAlive

\* A step of any device leaves the current checkpoint whole.
LEMMA AliveStep == CheckpointAlive /\ [Next]_vars => CheckpointAlive'
<1> SUFFICES ASSUME CheckpointAlive, [Next]_vars PROVE CheckpointAlive'
  OBVIOUS
<1>1. CASE JournalSame
  BY <1>1 DEF JournalSame, historyVars, CheckpointAlive
<1>2. CASE JournalAppends
  BY <1>2 DEF JournalAppends, CheckpointAlive
<1>3. CASE JournalCommits
  BY <1>3, CommitAlive
<1> QED BY <1>1, <1>2, <1>3, JournalStep

\* commit and the compare-and-swap: whichever devices build checkpoints at
\* once, whatever answers are lost, the summary and the segments of the current
\* checkpoint are rows of the journal, for every quota, page size and number
\* of devices.
THEOREM CheckpointStaysWhole == Spec => []CheckpointAlive
<1>1. Init => CheckpointAlive BY AliveInit
<1>2. CheckpointAlive /\ [Next]_vars => CheckpointAlive' BY AliveStep
<1> QED BY <1>1, <1>2, PTL DEF Spec

-----------------------------------------------------------------------------

\* What the worker of a device holds of its own operations: the first j.own
\* of the queue q, each still to be written or in the journal.
JobOK(j, q) ==
  /\ {"own", "due", "batch", "up"} \subseteq DOMAIN j
  /\ j.own \in Nat /\ j.due \subseteq Op /\ j.batch \in Seq(Op) /\ j.up \subseteq SUBSET Op
  /\ j.own <= Len(q)
  /\ \A k \in 1..j.own : q[k] \in Elements(j.batch) \cup Journaled

\* A call of record() under way: its input, the row read, and whether it is
\* written.
Calls == [input : Inputs, prev : SUBSET Op, stored : BOOLEAN]

\* The part of the type invariant that the argument needs.
QueuesTyped ==
  /\ recs \in Seq(Record)
  /\ own \in [Device -> Seq(Op)]
  /\ incoming \in [Device -> SUBSET Op]
  /\ disk \in [Device -> [own : Seq(Op), incoming : SUBSET Op]]
  /\ ui \in [Device -> SUBSET Calls]
  /\ job = [d \in Device |-> job[d]]
  /\ done \subseteq Inputs

\* The queue on disk is the one in memory, and a call of record() is one of
\* its device.
OwnInv == /\ QueuesTyped
          /\ \A d \in Device : disk[d].own = own[d]
          /\ \A d \in Device : \A c \in ui[d] : c.input.dev = d
          /\ \A d \in Device : JobOK(job[d], own[d])
          /\ OwnNeverLost

\* Queueing an operation (record) keeps the queue and adds the operation.
LEMMA AppendElements ==
  ASSUME NEW s \in Seq(Op), NEW o \in Op
  PROVE  /\ Append(s, o) \in Seq(Op)
         /\ Len(Append(s, o)) = Len(s) + 1
         /\ \A k \in 1..Len(s) : Append(s, o)[k] = s[k]
         /\ Elements(Append(s, o)) = Elements(s) \cup {o}
<1>1. /\ Append(s, o) \in Seq(Op)
      /\ Len(Append(s, o)) = Len(s) + 1
      /\ \A k \in 1..Len(s) : Append(s, o)[k] = s[k]
      /\ Append(s, o)[Len(s) + 1] = o
  BY AppendProperties
<1>2. Len(s) \in Nat
  BY LenProperties
<1> QED BY <1>1, <1>2 DEF Elements

\* Taking the first operation off a batch (appendLocked) leaves the others.
LEMMA TailElements ==
  ASSUME NEW s \in Seq(Op), s # <<>>
  PROVE  /\ Head(s) \in Op
         /\ Tail(s) \in Seq(Op)
         /\ Elements(s) \subseteq {Head(s)} \cup Elements(Tail(s))
<1>1. /\ Head(s) \in Op /\ Tail(s) \in Seq(Op)
      /\ Len(Tail(s)) = Len(s) - 1
      /\ \A i \in 1..Len(Tail(s)) : Tail(s)[i] = s[i + 1]
  BY HeadTailProperties
<1>2. Len(s) \in Nat /\ Len(s) > 0 /\ Head(s) = s[1]
  BY LenProperties, EmptySeq
<1>3. ASSUME NEW i \in 1..Len(s), i # 1
      PROVE  i - 1 \in 1..Len(Tail(s)) /\ s[i] = Tail(s)[i - 1]
  BY <1>1, <1>2, <1>3
<1>4. ASSUME NEW i \in 1..Len(s)
      PROVE  s[i] \in {Head(s)} \cup Elements(Tail(s))
  <2>1. CASE i = 1 BY <1>2, <2>1
  <2>2. CASE i # 1
    <3>1. i - 1 \in 1..Len(Tail(s)) /\ s[i] = Tail(s)[i - 1]
      BY <1>3, <2>2
    <3> QED BY <3>1 DEF Elements
  <2> QED BY <2>1, <2>2
<1>5. Elements(s) \subseteq {Head(s)} \cup Elements(Tail(s))
  BY <1>4 DEF Elements
<1> QED BY <1>1, <1>5

\* The incoming operations put behind a batch (flushLocked) push none out.
LEMMA ConcatElements ==
  ASSUME NEW s \in Seq(Op), NEW t \in Seq(Op)
  PROVE  s \o t \in Seq(Op) /\ Elements(s) \subseteq Elements(s \o t)
<1>1. /\ s \o t \in Seq(Op)
      /\ Len(s \o t) = Len(s) + Len(t)
      /\ \A i \in 1..Len(s) : (s \o t)[i] = s[i]
  BY ConcatProperties
<1>2. Len(s) \in Nat /\ Len(t) \in Nat
  BY LenProperties
<1>3. ASSUME NEW i \in 1..Len(s)
      PROVE  i \in 1..Len(s \o t) /\ s[i] = (s \o t)[i]
  BY <1>1, <1>2
<1>4. Elements(s) \subseteq Elements(s \o t)
  BY <1>3 DEF Elements
<1> QED BY <1>1, <1>4

\* and are all there themselves.
LEMMA ConcatSecond ==
  ASSUME NEW s \in Seq(Op), NEW t \in Seq(Op)
  PROVE  Elements(t) \subseteq Elements(s \o t)
<1>1. /\ Len(s \o t) = Len(s) + Len(t)
      /\ \A i \in 1..Len(t) : (s \o t)[Len(s) + i] = t[i]
  BY ConcatProperties
<1>2. Len(s) \in Nat /\ Len(t) \in Nat
  BY LenProperties
<1>3. ASSUME NEW i \in 1..Len(t)
      PROVE  Len(s) + i \in 1..Len(s \o t) /\ t[i] = (s \o t)[Len(s) + i]
  BY <1>1, <1>2
<1> QED BY <1>3 DEF Elements

\* Where flushLocked cuts the queue: every operation is before or after.
LEMMA CutElements ==
  ASSUME NEW s \in Seq(Op), NEW n \in Nat, n <= Len(s)
  PROVE  /\ SubSeq(s, 1, n) \in Seq(Op)
         /\ \A k \in 1..n : s[k] \in Elements(SubSeq(s, 1, n))
         /\ SubSeq(s, n + 1, Len(s)) \in Seq(Op)
         /\ Elements(s) \subseteq {s[k] : k \in 1..n} \cup Elements(SubSeq(s, n + 1, Len(s)))
<1>1. Len(s) \in Nat
  BY LenProperties
<1>2. /\ SubSeq(s, 1, n) \in Seq(Op) /\ Len(SubSeq(s, 1, n)) = n
      /\ \A k \in 1..n : SubSeq(s, 1, n)[k] = s[k]
  BY <1>1
<1>3. /\ SubSeq(s, n + 1, Len(s)) \in Seq(Op) /\ Len(SubSeq(s, n + 1, Len(s))) = Len(s) - n
      /\ \A k \in 1..(Len(s) - n) : SubSeq(s, n + 1, Len(s))[k] = s[n + k]
  BY <1>1
<1>4. ASSUME NEW k \in 1..Len(s), k > n
      PROVE  s[k] \in Elements(SubSeq(s, n + 1, Len(s)))
  <2>1. k - n \in 1..(Len(s) - n) /\ n + (k - n) = k
    BY <1>1, <1>4
  <2> QED BY <1>3, <2>1 DEF Elements
<1>5. \A k \in 1..n : s[k] \in Elements(SubSeq(s, 1, n))
  BY <1>2 DEF Elements
<1>6. Elements(s) \subseteq {s[k] : k \in 1..n} \cup Elements(SubSeq(s, n + 1, Len(s)))
  <2> SUFFICES ASSUME NEW k \in 1..Len(s)
               PROVE  s[k] \in {s[i] : i \in 1..n} \cup Elements(SubSeq(s, n + 1, Len(s)))
    BY DEF Elements
  <2>1. CASE k > n BY <1>4, <2>1
  <2>2. CASE ~(k > n)
    <3>1. k \in 1..n BY <1>1, <2>2
    <3> QED BY <3>1
  <2> QED BY <2>1, <2>2
<1> QED BY <1>2, <1>3, <1>5, <1>6

\* A worker that holds nothing.
LEMMA NoJobNext ==
  ASSUME NEW d, own'[d] \in Seq(Op), job'[d] = NoJob
  PROVE  JobOK(job[d], own[d])'
<1>1. NoJob.own = 0 /\ NoJob.due = {} /\ NoJob.batch = <<>> /\ NoJob.up = {}
      /\ {"own", "due", "batch", "up"} \subseteq DOMAIN NoJob
  BY DEF NoJob
<1>2. Len(own'[d]) \in Nat
  BY LenProperties
<1>3. /\ {"own", "due", "batch", "up"} \subseteq DOMAIN job'[d]
      /\ job'[d].own = 0 /\ job'[d].due = {} /\ job'[d].batch = <<>> /\ job'[d].up = {}
  BY <1>1
<1>4. job'[d].batch \in Seq(Op)
  BY <1>3, EmptySeq
<1>5. \A k \in 1..job'[d].own : FALSE
  BY <1>3
<1> QED BY <1>2, <1>3, <1>4, <1>5 DEF JobOK

\* append_new only adds to what was ever written to the journal.
LEMMA JournalGrows ==
  ASSUME recs \in Seq(Record), NEW r \in Record, recs' = Append(recs, r)
  PROVE  /\ recs' \in Seq(Record)
         /\ Journaled \subseteq Journaled'
         /\ ~r.chunk => r.ops \subseteq Journaled'
<1>1. /\ recs' \in Seq(Record)
      /\ Len(recs') = Len(recs) + 1
      /\ \A k \in 1..Len(recs) : recs'[k] = recs[k]
      /\ recs'[Len(recs) + 1] = r
  BY AppendProperties
<1>2. Len(recs) \in Nat
  BY LenProperties
<1> QED BY <1>1, <1>2 DEF Journaled, headSeq

\* With no call of record() finished and no queue on disk changed, a longer
\* journal loses no operation.
LEMMA NeverLostKept ==
  ASSUME OwnNeverLost, UNCHANGED done, Journaled \subseteq Journaled',
         \A d \in Device : disk'[d].own = disk[d].own, done \subseteq Inputs
  PROVE  OwnNeverLost'
<1>1. \A i \in done : i.dev \in Device
  BY HistorySyncAssumption
<1> QED BY <1>1 DEF OwnNeverLost

\* A step that writes the queues anew and changes what one worker holds.
LEMMA DiskKeeps ==
  ASSUME OwnInv, NEW d \in Device, UNCHANGED <<own, ui, done>>,
         incoming' \in [Device -> SUBSET Op],
         disk' \in [Device -> [own : Seq(Op), incoming : SUBSET Op]],
         \A e \in Device : disk'[e].own = own'[e],
         recs' \in Seq(Record), Journaled \subseteq Journaled',
         job' = [job EXCEPT ![d] = job'[d]], JobOK(job[d], own[d])'
  PROVE  OwnInv'
<1>1. QueuesTyped'
  <2>1. job' = [e \in Device |-> job'[e]]
    BY DEF OwnInv, QueuesTyped
  <2> QED BY <2>1 DEF OwnInv, QueuesTyped
<1>2. \A e \in Device : JobOK(job[e], own[e])'
  <2> SUFFICES ASSUME NEW e \in Device, e # d PROVE JobOK(job[e], own[e])'
    OBVIOUS
  <2>1. job'[e] = job[e]
    BY DEF OwnInv, QueuesTyped
  <2> QED BY <2>1 DEF OwnInv, JobOK
<1>3. OwnNeverLost'
  BY NeverLostKept DEF OwnInv, QueuesTyped
<1> QED BY <1>1, <1>2, <1>3 DEF OwnInv

\* A step that leaves the queues alone and changes what one worker holds.
LEMMA QuietKeeps ==
  ASSUME OwnInv, NEW d \in Device, UNCHANGED <<own, incoming, disk, ui, done>>,
         recs' \in Seq(Record), Journaled \subseteq Journaled',
         job' = [job EXCEPT ![d] = job'[d]], JobOK(job[d], own[d])'
  PROVE  OwnInv'
  BY DiskKeeps DEF OwnInv, QueuesTyped

\* A step that leaves the queues, the journal and the workers' batches alone.
LEMMA IdleKeeps ==
  ASSUME OwnInv, UNCHANGED <<own, incoming, disk, ui, done, job, recs>>
  PROVE  OwnInv'
<1>1. Journaled' = Journaled
  BY DEF Journaled, headSeq
<1>2. QueuesTyped'
  BY DEF OwnInv, QueuesTyped
<1>3. OwnNeverLost'
  BY <1>1, NeverLostKept DEF OwnInv, QueuesTyped
<1> QED BY <1>1, <1>2, <1>3 DEF OwnInv, JobOK

\* A network operation ends.
LEMMA SettleKeeps ==
  ASSUME OwnInv, NEW d \in Device, UNCHANGED <<own, incoming, disk, ui, done>>,
         recs' \in Seq(Record), Journaled \subseteq Journaled',
         job' = [job EXCEPT ![d] = NoJob]
  PROVE  OwnInv'
<1>1. job'[d] = NoJob
  BY DEF OwnInv, QueuesTyped
<1>2. JobOK(job[d], own[d])'
  BY <1>1, NoJobNext DEF OwnInv, QueuesTyped
<1> QED BY <1>1, <1>2, QuietKeeps

\* A step that changes a field of the worker's job that no flush looks at.
LEMMA FieldKeeps ==
  ASSUME OwnInv, NEW d \in Device, UNCHANGED <<own, incoming, disk, ui, done>>,
         recs' \in Seq(Record), Journaled \subseteq Journaled',
         NEW f \in {"head", "cp", "keep", "summary", "from"}, NEW v,
         job' = [job EXCEPT ![d] = [job[d] EXCEPT ![f] = v]]
  PROVE  OwnInv'
<1>1. job'[d] = [job[d] EXCEPT ![f] = v]
  BY DEF OwnInv, QueuesTyped
<1>2. JobOK(job[d], own[d])
  BY DEF OwnInv
<1>3. /\ {"own", "due", "batch", "up"} \subseteq DOMAIN job'[d]
      /\ job'[d].own = job[d].own /\ job'[d].due = job[d].due
      /\ job'[d].batch = job[d].batch /\ job'[d].up = job[d].up
  BY <1>1, <1>2 DEF JobOK
<1>4. JobOK(job[d], own[d])'
  BY <1>2, <1>3 DEF JobOK
<1> QED BY <1>1, <1>4, QuietKeeps

\* record(): the row is read and written.
LEMMA RecordKeeps ==
  ASSUME OwnInv, NEW d \in Device, RecordGet(d) \/ RecordPut(d)
  PROVE  OwnInv'
<1>1. UNCHANGED <<own, incoming, disk, done, job, recs>>
  BY DEF RecordGet, RecordPut, historyVars, queueVars, workVars, pastVars
<1>2. ui' \in [Device -> SUBSET Calls] /\ \A e \in Device : \A c \in ui'[e] : c.input.dev = e
  <2>1. CASE RecordGet(d)
    <3>1. PICK i \in Inputs : /\ i.dev = d
                              /\ ui' = [ui EXCEPT ![d] = {[input |-> i, prev |-> StateOf(d, {i.op}), stored |-> FALSE]}]
      BY <2>1 DEF RecordGet
    <3>2. StateOf(d, {i.op}) \subseteq Op
      BY DEF StateOf, Sharing
    <3> DEFINE c == [input |-> i, prev |-> StateOf(d, {i.op}), stored |-> FALSE]
    <3>3. c \in Calls /\ c.input = i
      BY <3>2 DEF Calls
    <3> HIDE DEF c
    <3>4. ui' = [ui EXCEPT ![d] = {c}]
      BY <3>1 DEF c
    <3> QED BY <3>1, <3>3, <3>4 DEF OwnInv, QueuesTyped
  <2>2. CASE RecordPut(d)
    <3>1. PICK r \in ui[d] : ui' = [ui EXCEPT ![d] = {[r EXCEPT !.stored = TRUE]}]
      BY <2>2 DEF RecordPut
    <3>2. r \in Calls /\ r.input.dev = d
      BY DEF OwnInv, QueuesTyped
    <3>3. [r EXCEPT !.stored = TRUE] \in Calls /\ [r EXCEPT !.stored = TRUE].input = r.input
      BY <3>2 DEF Calls
    <3> QED BY <3>1, <3>2, <3>3 DEF OwnInv, QueuesTyped
  <2> QED BY <2>1, <2>2
<1>3. Journaled' = Journaled
  BY <1>1 DEF Journaled, headSeq
<1>4. QueuesTyped'
  BY <1>1, <1>2 DEF OwnInv, QueuesTyped
<1>5. OwnNeverLost'
  BY <1>1, <1>3, NeverLostKept DEF OwnInv, QueuesTyped
<1> QED BY <1>1, <1>2, <1>3, <1>4, <1>5 DEF OwnInv, JobOK

\* record(): the operation joins its queue, which is saved.
LEMMA RecordQueueKeeps ==
  ASSUME OwnInv, NEW d \in Device, RecordQueue(d)
  PROVE  OwnInv'
<1>1. PICK r \in ui[d] :
        /\ own' = IF r.input.own THEN [own EXCEPT ![d] = Append(@, r.input.op)] ELSE own
        /\ incoming' = IF r.input.own \/ r.input.op \in seen[d] THEN incoming
                       ELSE [incoming EXCEPT ![d] = @ \cup {r.input.op}]
        /\ IF r.input.own \/ r.input.op \notin seen[d] THEN SavePending(d) ELSE UNCHANGED disk
        /\ ui' = [ui EXCEPT ![d] = {}]
        /\ done' = done \cup {r.input}
        /\ UNCHANGED <<job, recs>>
  BY DEF RecordQueue, historyVars, workVars
<1>2. r.input \in Inputs /\ r.input.dev = d /\ r.input.op \in Op /\ r.input.own \in BOOLEAN
  BY HistorySyncAssumption DEF OwnInv, QueuesTyped, Calls
<1>3. own[d] \in Seq(Op) /\ Len(own[d]) \in Nat
  BY LenProperties DEF OwnInv, QueuesTyped
<1>4. /\ own'[d] \in Seq(Op)
      /\ Len(own[d]) <= Len(own'[d])
      /\ \A k \in 1..Len(own[d]) : own'[d][k] = own[d][k]
      /\ Elements(own[d]) \subseteq Elements(own'[d])
      /\ r.input.own => r.input.op \in Elements(own'[d])
  <2>1. CASE r.input.own
    <3>1. own'[d] = Append(own[d], r.input.op)
      BY <1>1, <2>1 DEF OwnInv, QueuesTyped
    <3> QED BY <1>2, <1>3, <3>1, AppendElements
  <2>2. CASE ~r.input.own
    BY <1>1, <1>3, <2>2
  <2> QED BY <2>1, <2>2
<1>5. /\ own' \in [Device -> Seq(Op)] /\ \A e \in Device : e # d => own'[e] = own[e]
      /\ incoming' \in [Device -> SUBSET Op]
  BY <1>1, <1>2, <1>4 DEF OwnInv, QueuesTyped
<1>6. /\ disk' \in [Device -> [own : Seq(Op), incoming : SUBSET Op]]
      /\ \A e \in Device : disk'[e].own = own'[e]
  <2>1. CASE SavePending(d)
    BY <1>5, <2>1 DEF OwnInv, QueuesTyped, SavePending
  <2>2. CASE ~r.input.own /\ UNCHANGED disk
    BY <1>1, <2>2 DEF OwnInv, QueuesTyped
  <2> QED BY <1>1, <2>1, <2>2
<1>7. Journaled' = Journaled
  BY <1>1 DEF Journaled, headSeq
<1>8. QueuesTyped'
  BY <1>1, <1>2, <1>5, <1>6 DEF OwnInv, QueuesTyped
<1>9. \A e \in Device : \A c \in ui'[e] : c.input.dev = e
  BY <1>1 DEF OwnInv, QueuesTyped
<1>10. \A e \in Device : JobOK(job[e], own[e])'
  <2> SUFFICES ASSUME NEW e \in Device PROVE JobOK(job[e], own[e])'
    OBVIOUS
  <2>1. JobOK(job[e], own[e]) /\ job'[e] = job[e]
    BY <1>1 DEF OwnInv
  <2>2. CASE e # d
    BY <1>5, <1>7, <2>1, <2>2 DEF JobOK
  <2>3. CASE e = d
    BY <1>3, <1>4, <1>7, <2>1, <2>3, LenProperties DEF JobOK
  <2> QED BY <2>2, <2>3
<1>11. OwnNeverLost'
  <2> SUFFICES ASSUME NEW i \in done', i.own
               PROVE  i.op \in Elements(own'[i.dev]) \cup Journaled
    <3>1. \A i \in done' : i.dev \in Device
      BY <1>8, HistorySyncAssumption DEF QueuesTyped
    <3> QED BY <1>6, <1>7, <3>1 DEF OwnNeverLost
  <2>1. CASE i \in done
    <3>1. i.dev \in Device /\ i.op \in Elements(own[i.dev]) \cup Journaled
      BY <2>1, HistorySyncAssumption DEF OwnInv, QueuesTyped, OwnNeverLost
    <3> QED BY <3>1, <1>4, <1>5
  <2>2. CASE i = r.input
    BY <1>2, <1>4, <2>2
  <2> QED BY <1>1, <2>1, <2>2
<1> QED BY <1>6, <1>8, <1>9, <1>10, <1>11 DEF OwnInv

\* flushLocked: the worker takes its own operations, all or none.
LEMMA FlushKeeps ==
  ASSUME OwnInv, NEW d \in Device, Flush(d)
  PROVE  OwnInv'
<1>1. PICK n \in {0, Len(own[d])}, due \in SUBSET incoming[d] :
        job' = [job EXCEPT ![d].own = n, ![d].due = due, ![d].batch = SubSeq(own[d], 1, n)]
  BY DEF Flush
<1>2. UNCHANGED <<own, incoming, disk, ui, done, recs>>
  BY DEF Flush, historyVars, queueVars, pastVars
<1>3. Journaled' = Journaled
  BY <1>2 DEF Journaled, headSeq
<1>4. own[d] \in Seq(Op) /\ n \in Nat /\ n <= Len(own[d]) /\ due \subseteq Op
  BY <1>1, LenProperties DEF OwnInv, QueuesTyped
<1>5. JobOK(job[d], own[d])
  BY DEF OwnInv
<1>6. /\ {"own", "due", "batch", "up"} \subseteq DOMAIN job'[d]
      /\ job'[d].own = n /\ job'[d].due = due /\ job'[d].up = job[d].up
      /\ job'[d].batch = SubSeq(own[d], 1, n)
      /\ job' = [job EXCEPT ![d] = job'[d]]
  BY <1>1, <1>5 DEF OwnInv, QueuesTyped, JobOK
<1>7. JobOK(job[d], own[d])'
  BY <1>2, <1>4, <1>5, <1>6, CutElements DEF JobOK
<1> QED BY <1>2, <1>3, <1>6, <1>7, QuietKeeps DEF OwnInv, QueuesTyped

\* flushLocked: the incoming operations join the batch.
LEMMA TakeKeeps ==
  ASSUME OwnInv, NEW d \in Device, Take(d)
  PROVE  OwnInv'
<1> DEFINE taken == job[d].due \ seen[d]
<1>1. /\ incoming' = [incoming EXCEPT ![d] = @ \ job[d].due]
      /\ UNCHANGED <<own, ui, done, recs>>
  BY DEF Take, historyVars, pastVars
<1>2. incoming' \in [Device -> SUBSET Op]
  BY <1>1 DEF OwnInv, QueuesTyped
<1>3. Journaled' = Journaled
  BY <1>1 DEF Journaled, headSeq
<1>4. JobOK(job[d], own[d]) /\ own[d] \in Seq(Op)
  BY DEF OwnInv, QueuesTyped
<1>5. /\ job' = [job EXCEPT ![d] = job'[d]]
      /\ JobOK(job[d], own[d])'
      /\ disk' \in [Device -> [own : Seq(Op), incoming : SUBSET Op]]
      /\ \A e \in Device : disk'[e].own = own'[e]
  <2>1. CASE SavePending(d) /\ Settle(d)
    <3>1. job' = [job EXCEPT ![d] = NoJob]
      BY <2>1 DEF Settle
    <3>2. job'[d] = NoJob
      BY <3>1 DEF OwnInv, QueuesTyped
    <3>3. JobOK(job[d], own[d])'
      BY <1>1, <1>4, <3>2, NoJobNext
    <3> QED BY <1>1, <1>2, <2>1, <3>1, <3>2, <3>3 DEF OwnInv, QueuesTyped, SavePending
  <2>2. CASE /\ UNCHANGED disk
             /\ \E s \in [1..Cardinality(taken) -> taken] :
                  job' = [job EXCEPT ![d].due = taken, ![d].batch = @ \o s]
    <3>1. PICK s \in [1..Cardinality(taken) -> taken] :
            job' = [job EXCEPT ![d].due = taken, ![d].batch = @ \o s]
      BY <2>2
    <3>2. taken \subseteq Op /\ Cardinality(taken) \in Nat
      BY <1>4, HistorySyncAssumption, FS_Subset, FS_CardinalityType DEF JobOK
    <3>3. s \in Seq(Op)
      <4>1. s \in [1..Cardinality(taken) -> Op]
        BY <3>1, <3>2
      <4>2. \A n \in Nat : \A t \in [1..n -> Op] : t \in Seq(Op)
        BY SeqDef, Zenon
      <4> QED BY <3>2, <4>1, <4>2, Zenon
    <3>4. /\ {"own", "due", "batch", "up"} \subseteq DOMAIN job'[d]
          /\ job'[d].own = job[d].own /\ job'[d].due = taken /\ job'[d].up = job[d].up
          /\ job'[d].batch = job[d].batch \o s
          /\ job' = [job EXCEPT ![d] = job'[d]]
      BY <1>4, <3>1 DEF OwnInv, QueuesTyped, JobOK
    <3>5. job[d].batch \in Seq(Op)
      BY <1>4 DEF JobOK
    <3>6. job'[d].batch \in Seq(Op) /\ Elements(job[d].batch) \subseteq Elements(job'[d].batch)
      BY <3>3, <3>4, <3>5, ConcatElements
    <3>7. JobOK(job[d], own[d])'
      BY <1>1, <1>3, <1>4, <3>2, <3>4, <3>6 DEF JobOK, Elements
    <3> QED BY <1>1, <2>2, <3>4, <3>7 DEF OwnInv, QueuesTyped
  <2> QED BY <2>1, <2>2 DEF Take
<1> QED BY <1>1, <1>2, <1>3, <1>5, DiskKeeps DEF OwnInv, QueuesTyped

\* appendLocked: the first of the batch is in the journal now, whether or not
\* the device hears of it.
LEMMA AppendOpGrows ==
  ASSUME OwnInv, NEW d \in Device, job[d].batch # <<>>,
         AppendRecord([chunk |-> FALSE, ops |-> {Head(job[d].batch)}])
  PROVE  /\ recs' \in Seq(Record)
         /\ Journaled \subseteq Journaled'
         /\ Elements(job[d].batch) \subseteq Elements(Tail(job[d].batch)) \cup Journaled'
         /\ Tail(job[d].batch) \in Seq(Op)
<1> DEFINE r == [chunk |-> FALSE, ops |-> {Head(job[d].batch)}]
<1>1. job[d].batch \in Seq(Op)
  BY DEF OwnInv, JobOK
<1>2. /\ Head(job[d].batch) \in Op /\ Tail(job[d].batch) \in Seq(Op)
      /\ Elements(job[d].batch) \subseteq {Head(job[d].batch)} \cup Elements(Tail(job[d].batch))
  BY <1>1, TailElements
<1>3. r \in Record /\ ~r.chunk /\ r.ops = {Head(job[d].batch)}
  BY <1>2 DEF Record
<1>4. recs' = Append(recs, r) /\ recs \in Seq(Record)
  BY DEF AppendRecord, OwnInv, QueuesTyped
<1> HIDE DEF r
<1>5. recs' \in Seq(Record) /\ Journaled \subseteq Journaled' /\ r.ops \subseteq Journaled'
  BY <1>3, <1>4, JournalGrows
<1> QED BY <1>2, <1>3, <1>5

\* appendLocked is answered: one operation moves from the batch to the journal.
LEMMA AppendOpKeeps ==
  ASSUME OwnInv, NEW d \in Device, AppendOp(d)
  PROVE  OwnInv'
<1>1. /\ job[d].batch # <<>>
      /\ AppendRecord([chunk |-> FALSE, ops |-> {Head(job[d].batch)}])
      /\ job' = [job EXCEPT ![d].batch = Tail(@)]
      /\ UNCHANGED <<own, incoming, disk, ui, done>>
  BY DEF AppendOp, queueVars, pastVars
<1>2. /\ recs' \in Seq(Record)
      /\ Journaled \subseteq Journaled'
      /\ Elements(job[d].batch) \subseteq Elements(Tail(job[d].batch)) \cup Journaled'
      /\ Tail(job[d].batch) \in Seq(Op)
  BY <1>1, AppendOpGrows
<1>3. JobOK(job[d], own[d])
  BY DEF OwnInv
<1>4. /\ {"own", "due", "batch", "up"} \subseteq DOMAIN job'[d]
      /\ job'[d].own = job[d].own /\ job'[d].due = job[d].due /\ job'[d].up = job[d].up
      /\ job'[d].batch = Tail(job[d].batch)
      /\ job' = [job EXCEPT ![d] = job'[d]]
  BY <1>1, <1>3 DEF OwnInv, QueuesTyped, JobOK
<1>5. JobOK(job[d], own[d])'
  <2>1. \A k \in 1..job[d].own : own[d][k] \in Elements(Tail(job[d].batch)) \cup Journaled'
    BY <1>2, <1>3 DEF JobOK
  <2>2. Elements(job'[d].batch) = Elements(Tail(job[d].batch))
    BY <1>4
  <2> QED BY <1>1, <1>2, <1>3, <1>4, <2>1, <2>2 DEF JobOK, Elements
<1> QED BY <1>1, <1>2, <1>4, <1>5, QuietKeeps

\* flushLocked: the written prefix of the queue is cut off.
LEMMA FlushDoneKeeps ==
  ASSUME OwnInv, NEW d \in Device, FlushDone(d)
  PROVE  OwnInv'
<1> DEFINE n == job[d].own
           rest == SubSeq(own[d], n + 1, Len(own[d]))
<1>1. /\ job[d].batch = <<>>
      /\ own' = [own EXCEPT ![d] = rest]
      /\ SavePending(d)
      /\ job' = [job EXCEPT ![d] = NoJob]
      /\ UNCHANGED <<incoming, ui, done, recs>>
  BY DEF FlushDone, Settle, historyVars, pastVars
<1>2. Journaled' = Journaled
  BY <1>1 DEF Journaled, headSeq
<1>3. own[d] \in Seq(Op) /\ JobOK(job[d], own[d])
  BY DEF OwnInv, QueuesTyped
<1>4. \A k \in 1..n : own[d][k] \in Journaled
  <2>1. Elements(job[d].batch) = {}
    BY <1>1, EmptySeq DEF Elements
  <2> QED BY <1>3, <2>1 DEF JobOK
<1>5. rest \in Seq(Op) /\ Elements(own[d]) \subseteq Elements(rest) \cup Journaled
  BY <1>3, <1>4, CutElements DEF JobOK
<1> HIDE DEF rest
<1>6. /\ own'[d] = rest /\ own' \in [Device -> Seq(Op)]
      /\ \A e \in Device : e # d => own'[e] = own[e]
  BY <1>1, <1>5 DEF OwnInv, QueuesTyped
<1>7. /\ disk' \in [Device -> [own : Seq(Op), incoming : SUBSET Op]]
      /\ \A e \in Device : disk'[e].own = own'[e]
  BY <1>1, <1>6 DEF OwnInv, QueuesTyped, SavePending
<1>8. job'[d] = NoJob /\ \A e \in Device : e # d => job'[e] = job[e]
  BY <1>1 DEF OwnInv, QueuesTyped
<1>9. QueuesTyped'
  <2>1. job' = [e \in Device |-> job'[e]]
    BY <1>1 DEF OwnInv, QueuesTyped
  <2> QED BY <1>1, <1>6, <1>7, <2>1 DEF OwnInv, QueuesTyped
<1>10. \A e \in Device : JobOK(job[e], own[e])'
  <2>1. JobOK(job[d], own[d])'
    BY <1>5, <1>6, <1>8, NoJobNext
  <2>2. ASSUME NEW e \in Device, e # d PROVE JobOK(job[e], own[e])'
    BY <1>2, <1>6, <1>8, <2>2 DEF OwnInv, JobOK
  <2> QED BY <2>1, <2>2
<1>11. OwnNeverLost'
  <2>1. \A i \in done : i.dev \in Device
    BY HistorySyncAssumption DEF OwnInv, QueuesTyped
  <2>2. \A e \in Device : Elements(own[e]) \subseteq Elements(own'[e]) \cup Journaled
    BY <1>5, <1>6
  <2> QED BY <1>1, <1>2, <1>7, <2>1, <2>2 DEF OwnInv, OwnNeverLost
<1> QED BY <1>1, <1>7, <1>9, <1>10, <1>11 DEF OwnInv

\* flushLocked, catch: the own operations never left their queue.
LEMMA RequeueKeeps ==
  ASSUME OwnInv, NEW d \in Device, Requeue(d), UNCHANGED <<ui, done>>,
         recs' \in Seq(Record), Journaled \subseteq Journaled'
  PROVE  OwnInv'
<1>1. /\ incoming' = [incoming EXCEPT ![d] = @ \cup job[d].due]
      /\ UNCHANGED own /\ SavePending(d)
      /\ job' = [job EXCEPT ![d] = NoJob]
  BY DEF Requeue, Settle
<1>2. incoming' \in [Device -> SUBSET Op]
  BY <1>1 DEF OwnInv, QueuesTyped, JobOK
<1>3. /\ disk' \in [Device -> [own : Seq(Op), incoming : SUBSET Op]]
      /\ \A e \in Device : disk'[e].own = own'[e]
  BY <1>1, <1>2 DEF OwnInv, QueuesTyped, SavePending
<1>4. job'[d] = NoJob
  BY <1>1 DEF OwnInv, QueuesTyped
<1>5. JobOK(job[d], own[d])'
  BY <1>1, <1>4, NoJobNext DEF OwnInv, QueuesTyped
<1> QED BY <1>1, <1>2, <1>3, <1>4, <1>5, DiskKeeps

\* flushLocked stops on an error, whether or not the shard wrote the record.
LEMMA FlushStopsKeeps ==
  ASSUME OwnInv, NEW d \in Device, FlushFailed(d) \/ FlushRefused(d)
  PROVE  OwnInv'
<1>1. Requeue(d) /\ UNCHANGED <<ui, done>>
  BY DEF FlushFailed, FlushRefused, pastVars
<1>2. recs' \in Seq(Record) /\ Journaled \subseteq Journaled'
  <2>1. CASE UNCHANGED recs
    BY <2>1 DEF Journaled, headSeq, OwnInv, QueuesTyped
  <2>2. CASE job[d].batch # <<>> /\ AppendRecord([chunk |-> FALSE, ops |-> {Head(job[d].batch)}])
    BY <2>2, AppendOpGrows
  <2> QED BY <2>1, <2>2 DEF FlushFailed, FlushRefused, historyVars
<1> QED BY <1>1, <1>2, RequeueKeeps

\* buildCheckpointLocked: a segment or the summary is appended.
LEMMA UploadKeeps ==
  ASSUME OwnInv, NEW d \in Device, UploadSegment(d) \/ UploadSummary(d)
  PROVE  OwnInv'
<1>1. UNCHANGED <<own, incoming, disk, ui, done>>
  BY DEF UploadSegment, UploadSummary, queueVars, pastVars
<1>2. JobOK(job[d], own[d]) /\ recs \in Seq(Record)
  BY DEF OwnInv, QueuesTyped
<1>3. CASE UploadSegment(d)
  <2>1. PICK u \in job[d].up :
          /\ AppendRecord([chunk |-> TRUE, ops |-> u])
          /\ job' = [job EXCEPT ![d].up = @ \ {u}, ![d].keep = @ \cup {headSeq + 1}]
    BY <1>3 DEF UploadSegment
  <2>2. [chunk |-> TRUE, ops |-> u] \in Record
    BY <1>2 DEF JobOK, Record
  <2>3. recs' \in Seq(Record) /\ Journaled \subseteq Journaled'
    BY <1>2, <2>1, <2>2, JournalGrows DEF AppendRecord
  <2>4. /\ {"own", "due", "batch", "up"} \subseteq DOMAIN job'[d]
        /\ job'[d].own = job[d].own /\ job'[d].due = job[d].due /\ job'[d].batch = job[d].batch
        /\ job'[d].up = job[d].up \ {u}
        /\ job' = [job EXCEPT ![d] = job'[d]]
    BY <1>2, <2>1 DEF OwnInv, QueuesTyped, JobOK
  <2>5. JobOK(job[d], own[d])'
    BY <1>1, <1>2, <2>3, <2>4 DEF JobOK
  <2> QED BY <1>1, <2>3, <2>4, <2>5, QuietKeeps
<1>4. CASE UploadSummary(d)
  <2>1. /\ AppendRecord([chunk |-> TRUE, ops |-> {}])
        /\ job' = [job EXCEPT ![d].summary = headSeq + 1]
    BY <1>4 DEF UploadSummary
  <2>2. [chunk |-> TRUE, ops |-> {}] \in Record
    BY DEF Record
  <2>3. recs' \in Seq(Record) /\ Journaled \subseteq Journaled'
    BY <1>2, <2>1, <2>2, JournalGrows DEF AppendRecord
  <2>4. \E f \in {"head", "cp", "keep", "summary", "from"} : \E v :
          job' = [job EXCEPT ![d] = [job[d] EXCEPT ![f] = v]]
    BY <2>1
  <2> QED BY <1>1, <2>3, <2>4, FieldKeeps
<1> QED BY <1>3, <1>4

\* buildCheckpointLocked: the segments are chosen.
LEMMA BuildKeeps ==
  ASSUME OwnInv, NEW d \in Device, Build(d)
  PROVE  OwnInv'
<1>1. UNCHANGED <<own, incoming, disk, ui, done, recs>>
  BY DEF Build, historyVars, queueVars, pastVars
<1>2. recs' \in Seq(Record) /\ Journaled \subseteq Journaled'
  BY <1>1 DEF Journaled, headSeq, OwnInv, QueuesTyped
<1>3. CASE job' = [job EXCEPT ![d] = NoJob]
  BY <1>1, <1>2, <1>3, SettleKeeps
<1>4. CASE \E kept : job' = [job EXCEPT ![d].keep = kept,
                                       ![d].up = Segments(d) \ {recs[s].ops : s \in kept}]
  <2>1. PICK kept : job' = [job EXCEPT ![d].keep = kept,
                                       ![d].up = Segments(d) \ {recs[s].ops : s \in kept}]
    BY <1>4
  <2>2. Segments(d) \subseteq SUBSET Op
    BY DEF Segments, StateOf, Sharing
  <2>3. JobOK(job[d], own[d])
    BY DEF OwnInv
  <2>4. /\ {"own", "due", "batch", "up"} \subseteq DOMAIN job'[d]
        /\ job'[d].own = job[d].own /\ job'[d].due = job[d].due /\ job'[d].batch = job[d].batch
        /\ job'[d].up \subseteq SUBSET Op
        /\ job' = [job EXCEPT ![d] = job'[d]]
    BY <2>1, <2>2, <2>3 DEF OwnInv, QueuesTyped, JobOK
  <2>5. JobOK(job[d], own[d])'
    BY <1>1, <1>2, <2>3, <2>4 DEF JobOK
  <2> QED BY <1>1, <1>2, <2>4, <2>5, QuietKeeps
<1> QED BY <1>3, <1>4 DEF Build, Settle

\* The other steps of a compaction: one field of the job, or its end.
LEMMA CompactKeeps ==
  ASSUME OwnInv, NEW d \in Device,
         AskHead(d) \/ Due(d) \/ UploadRefused(d) \/ CheckFrom(d) \/ CheckRows(d)
           \/ Commit(d) \/ CommitUnanswered(d) \/ CommitRefused(d) \/ RequestFails(d) \/ Lapse(d)
           \/ OpenWaits(d)
  PROVE  OwnInv'
<1>1. UNCHANGED <<own, incoming, disk, ui, done, recs>>
  BY DEF AskHead, Due, UploadRefused, CheckFrom, CheckRows, Commit, CommitUnanswered, CommitRefused,
         RequestFails, Lapse, OpenWaits, CommitCheckpoint, historyVars, queueVars, pastVars
<1>2. recs' \in Seq(Record) /\ Journaled \subseteq Journaled'
  BY <1>1 DEF Journaled, headSeq, OwnInv, QueuesTyped
<1>3. \/ UNCHANGED job
      \/ job' = [job EXCEPT ![d] = NoJob]
      \/ \E f \in {"head", "cp", "keep", "summary", "from"} : \E v :
           job' = [job EXCEPT ![d] = [job[d] EXCEPT ![f] = v]]
  <2>1. CASE AskHead(d)
    BY <2>1 DEF AskHead
  <2>2. CASE Due(d)
    BY <2>2 DEF Due, Settle
  <2>3. CASE CheckFrom(d)
    BY <2>3 DEF CheckFrom
  <2>4. CASE CheckRows(d)
    BY <2>4 DEF CheckRows, Settle
  <2>5. CASE UploadRefused(d) \/ Commit(d) \/ CommitUnanswered(d) \/ CommitRefused(d)
    BY <2>5 DEF UploadRefused, Commit, CommitUnanswered, CommitRefused, Settle
  <2>6. CASE RequestFails(d) \/ Lapse(d) \/ OpenWaits(d)
    BY <2>6 DEF RequestFails, Lapse, OpenWaits, PullEnds, Settle, workVars
  <2> QED BY <2>1, <2>2, <2>3, <2>4, <2>5, <2>6
<1> QED BY <1>1, <1>2, <1>3, IdleKeeps, SettleKeeps, FieldKeeps

\* The constructor reads the queues: the own one is what it was.
LEMMA CrashKeeps ==
  ASSUME OwnInv, NEW d \in Device, Crash(d)
  PROVE  OwnInv'
<1>1. /\ own' = [own EXCEPT ![d] = disk[d].own]
      /\ incoming' = [incoming EXCEPT ![d] = disk[d].incoming]
      /\ ui' = [ui EXCEPT ![d] = {}]
      /\ job' = [job EXCEPT ![d] = NoJob]
      /\ UNCHANGED <<disk, done, recs>>
  BY DEF Crash, Settle, historyVars, pastVars
<1>2. UNCHANGED own
  BY <1>1 DEF OwnInv, QueuesTyped
<1>3. Journaled' = Journaled
  BY <1>1 DEF Journaled, headSeq
<1>4. job'[d] = NoJob /\ \A e \in Device : e # d => job'[e] = job[e]
  BY <1>1 DEF OwnInv, QueuesTyped
<1>5. QueuesTyped'
  <2>1. job' = [e \in Device |-> job'[e]]
    BY <1>1 DEF OwnInv, QueuesTyped
  <2>2. incoming' \in [Device -> SUBSET Op]
    BY <1>1 DEF OwnInv, QueuesTyped
  <2>3. ui' \in [Device -> SUBSET Calls]
    BY <1>1 DEF OwnInv, QueuesTyped
  <2> QED BY <1>1, <1>2, <2>1, <2>2, <2>3 DEF OwnInv, QueuesTyped
<1>6. \A e \in Device : \A c \in ui'[e] : c.input.dev = e
  BY <1>1 DEF OwnInv, QueuesTyped
<1>7. \A e \in Device : JobOK(job[e], own[e])'
  <2>1. JobOK(job[d], own[d])'
    BY <1>2, <1>4, NoJobNext DEF OwnInv, QueuesTyped
  <2>2. ASSUME NEW e \in Device, e # d PROVE JobOK(job[e], own[e])'
    BY <1>2, <1>3, <1>4, <2>2 DEF OwnInv, JobOK
  <2> QED BY <2>1, <2>2
<1>8. OwnNeverLost'
  BY <1>1, <1>3, NeverLostKept DEF OwnInv, QueuesTyped
<1> QED BY <1>1, <1>2, <1>5, <1>6, <1>7, <1>8 DEF OwnInv

\* pullLocked: no queue is touched.
LEMMA PullKeeps ==
  ASSUME OwnInv, NEW d \in Device, Sync(d) \/ Pull(d), ~OpenWaits(d)
  PROVE  OwnInv'
<1>1. UNCHANGED <<own, incoming, disk, ui, done, job, recs>>
  BY DEF Sync, Pull, ReadHead, ReadCheckpoint, ReadRows, LoadSummary, LoadSegment, AbsorbGet,
         AbsorbPut, CheckpointLoaded, Open, PageDone, historyVars, queueVars, pastVars
<1> QED BY <1>1, IdleKeeps

\* Every device begins with empty queues.
LEMMA OwnInit == Init => OwnInv
<1> SUFFICES ASSUME Init PROVE OwnInv
  OBVIOUS
<1>1. QueuesTyped
  BY EmptySeq DEF Init, HistoryInit, QueuesTyped
<1>2. \A d \in Device : JobOK(job[d], own[d])
  <2> SUFFICES ASSUME NEW d \in Device PROVE JobOK(job[d], own[d])
    OBVIOUS
  <2>1. job[d] = NoJob /\ own[d] = <<>>
    BY DEF Init
  <2>2. /\ {"own", "due", "batch", "up"} \subseteq DOMAIN NoJob
        /\ NoJob.own = 0 /\ NoJob.due = {} /\ NoJob.batch = <<>> /\ NoJob.up = {}
    BY DEF NoJob
  <2>3. <<>> \in Seq(Op) /\ Len(<<>>) = 0
    BY EmptySeq
  <2>4. \A k \in 1..0 : FALSE
    OBVIOUS
  <2> QED BY <2>1, <2>2, <2>3, <2>4 DEF JobOK
<1> QED BY <1>1, <1>2 DEF Init, OwnInv, OwnNeverLost

\* One step per group of operations of a device keeps the invariant.
LEMMA OwnStep == OwnInv /\ [Next]_vars => OwnInv'
<1> SUFFICES ASSUME OwnInv, [Next]_vars PROVE OwnInv'
  OBVIOUS
<1>1. CASE UNCHANGED vars
  BY <1>1, IdleKeeps DEF vars, historyVars, queueVars, workVars, pastVars
<1>2. ASSUME NEW d \in Device, Host(d)
      PROVE  OwnInv'
  BY <1>2, RecordKeeps, RecordQueueKeeps DEF Host
<1>3. ASSUME NEW d \in Device, Sync(d) \/ Pull(d)
      PROVE  OwnInv'
  BY <1>3, PullKeeps, CompactKeeps
<1>4. ASSUME NEW d \in Device, Flush(d) \/ Write(d)
      PROVE  OwnInv'
  BY <1>4, FlushKeeps, TakeKeeps, AppendOpKeeps, FlushDoneKeeps, FlushStopsKeeps DEF Write
<1>5. ASSUME NEW d \in Device, AskHead(d) \/ Compact(d)
      PROVE  OwnInv'
  BY <1>5, CompactKeeps, BuildKeeps, UploadKeeps DEF Compact
<1>6. ASSUME NEW d \in Device, Fault(d)
      PROVE  OwnInv'
  BY <1>6, FlushStopsKeeps, CompactKeeps, CrashKeeps DEF Fault
<1>7. ASSUME NEW o, Ages(o)
      PROVE  OwnInv'
  BY <1>7, IdleKeeps DEF Ages, historyVars, queueVars, workVars
<1> QED BY <1>1, <1>2, <1>3, <1>4, <1>5, <1>6, <1>7 DEF Next

\* record, flushLocked: what the user did on a device, once record() has
\* returned, is in the journal or on the disk of the device, for any number of
\* devices and operations, any quota and any number of failed flushes, lost
\* answers and restarts.
THEOREM OwnOperationsSurvive == Spec => []OwnNeverLost
<1>1. Init => OwnInv BY OwnInit
<1>2. OwnInv /\ [Next]_vars => OwnInv' BY OwnStep
<1>3. OwnInv => OwnNeverLost BY DEF OwnInv
<1> QED BY <1>1, <1>2, <1>3, PTL DEF Spec

-----------------------------------------------------------------------------
(* Types                                                                   *)

PageType == [head : Positions, cp : Checkpoint, rows : SUBSET Seqs, more : BOOLEAN]
TodoType == [segs : SUBSET Seqs, updates : SUBSET SUBSET Op,
             merging : SUBSET [ops : SUBSET Op, prev : SUBSET Op]]
JobType == [own : Nat, due : SUBSET Op, batch : Seq(Op), head : Positions,
            cp : Checkpoint, keep : SUBSET Seqs, up : SUBSET SUBSET Op,
            summary : Positions, from : Positions]

\* The parts of the type invariant.
ServerTyped == /\ recs \in Seq(Record) /\ headSeq <= MaxSeq
               /\ live \subseteq 1..headSeq
               /\ cp \in Checkpoint
RowsTyped == /\ store \in [Device -> SUBSET Op]
             /\ cursor \in [Device -> Positions]
             /\ force \in [Device -> BOOLEAN]
             /\ casFailed \in [Device -> Nat \cup {-1}]
             /\ lapsed \in [Device -> BOOLEAN]
             /\ streak \in [Device -> Nat]
WaitTyped == /\ disk \in [Device -> [own : Seq(Op), incoming : SUBSET Op]]
             /\ own \in [Device -> Seq(Op)]
             /\ incoming \in [Device -> SUBSET Op]
             /\ seen \in [Device -> SUBSET Op]
StepTyped == pc \in [Device -> Steps] /\ ret \in [Device -> {"idle", "take", "build"}]
PageTyped == page \in [Device -> PageType]
TodoTyped == todo \in [Device -> TodoType]
JobTyped == job \in [Device -> JobType]
PastTyped == /\ ui \in [Device -> SUBSET Calls]
             /\ acted \subseteq Op /\ done \subseteq Inputs
             /\ lost \in [Device -> SUBSET Op] /\ aged \subseteq Op
             /\ crashed \subseteq Device /\ faults \in Nat
             /\ scene \in Scenes

\* The parts make the whole.
LEMMA TypeParts ==
  TypeOK <=> /\ ServerTyped /\ RowsTyped /\ WaitTyped /\ StepTyped
             /\ PageTyped /\ TodoTyped /\ JobTyped /\ PastTyped
  BY DEF TypeOK, ServerTyped, RowsTyped, WaitTyped, StepTyped, PageTyped, TodoTyped,
         JobTyped, PastTyped, PageType, TodoType, JobType, Calls

\* A page holds ordinary records the journal has had.
PagesOrdinary == \A d \in Device : \A s \in page[d].rows : s \in 1..headSeq /\ ~recs[s].chunk

TypeInv == TypeOK /\ OwnInv /\ PagesOrdinary

\* What the constants are.
LEMMA Sizes == /\ MaxSeq \in Nat \ {0} /\ MaxRecords \in Nat \ {0} /\ PAGE_ITEMS \in Nat \ {0}
               /\ IsFiniteSet(Op)
  BY MaxSeqAssumption, HistoryServerAssumption, HistorySyncAssumption

\* append_new keeps the types and the records before it.
LEMMA AppendTyped ==
  ASSUME ServerTyped, NEW r \in Record, AppendRecord(r)
  PROVE  /\ ServerTyped'
         /\ headSeq \in Nat /\ headSeq' = headSeq + 1 /\ headSeq + 1 \in Seqs
         /\ recs'[headSeq + 1] = r
         /\ \A s \in 1..headSeq : recs'[s] = recs[s]
         /\ live' = live \cup {headSeq + 1} /\ cp' = cp
  <1>1. recs' = Append(recs, r) /\ live' = live \cup {headSeq + 1} /\ cp' = cp
    BY DEF AppendRecord
  <1>2. /\ recs' \in Seq(Record)
        /\ Len(recs') = Len(recs) + 1
        /\ \A s \in 1..Len(recs) : recs'[s] = recs[s]
        /\ recs'[Len(recs) + 1] = r
    BY <1>1, AppendProperties DEF ServerTyped
  <1>3. Len(recs) \in Nat /\ Len(recs) < MaxSeq
    BY LenProperties DEF ServerTyped, AppendRecord, headSeq
  <1>4. headSeq = Len(recs) /\ headSeq' = Len(recs')
    BY DEF headSeq
  <1>5. headSeq + 1 \in Seqs /\ headSeq' = headSeq + 1 /\ headSeq' <= MaxSeq
    BY <1>2, <1>3, <1>4, Sizes DEF Seqs
  <1>6. live' \subseteq 1..headSeq'
    <2>1. headSeq \in Nat /\ live \subseteq 1..headSeq
      BY <1>3, <1>4 DEF ServerTyped
    <2>2. \A s \in 1..headSeq : s \in 1..(headSeq + 1)
      BY <2>1
    <2>3. headSeq + 1 \in 1..(headSeq + 1)
      BY <2>1
    <2> QED
      BY <1>1, <1>5, <2>1, <2>2, <2>3
  <1> QED
    BY <1>1, <1>2, <1>3, <1>4, <1>5, <1>6 DEF ServerTyped

\* history.checkpoint.commit keeps the types and the records.
LEMMA CommitTyped ==
  ASSUME ServerTyped, NEW upto \in Positions, NEW chunks \in SUBSET Seqs,
         CommitCheckpoint(upto, chunks)
  PROVE  ServerTyped' /\ recs' = recs /\ headSeq' = headSeq
  <1>1. /\ recs' = recs /\ live' \subseteq live
        /\ cp' = [id |-> cp.id + 1, upto |-> upto, summary |-> upto, chunks |-> chunks]
    BY DEF CommitCheckpoint
  <1>2. cp' \in Checkpoint
    BY <1>1 DEF ServerTyped, Checkpoint
  <1> QED
    BY <1>1, <1>2 DEF ServerTyped, headSeq

\* The records the steps of the devices append.
LEMMA RecordsMade ==
  ASSUME TypeOK, NEW d \in Device
  PROVE  /\ job[d].batch # <<>> =>
              [chunk |-> FALSE, ops |-> {Head(job[d].batch)}] \in Record
         /\ \A u \in job[d].up : [chunk |-> TRUE, ops |-> u] \in Record
         /\ [chunk |-> TRUE, ops |-> {}] \in Record
  <1>1. job[d].batch \in Seq(Op) /\ job[d].up \subseteq SUBSET Op
    BY DEF TypeOK
  <1>2. job[d].batch # <<>> => Head(job[d].batch) \in Op
    BY <1>1, TailElements
  <1> QED
    BY <1>1, <1>2 DEF Record

\* How a step of a device changes the journal: not at all, by one record of
\* the device, or by a commit of what the device has built.
Appends(d) == \E r \in Record :
                 /\ AppendRecord(r)
                 /\ \/ /\ At(d, "append") /\ job[d].batch # <<>>
                       /\ r = [chunk |-> FALSE, ops |-> {Head(job[d].batch)}]
                    \/ /\ At(d, "upload") /\ r.chunk
Commits(d) == Commit(d) \/ CommitUnanswered(d)

\* The steps of one device.
DeviceStep(d) == \/ Host(d) \/ Sync(d) \/ Pull(d) \/ Flush(d) \/ Write(d)
                 \/ AskHead(d) \/ Compact(d) \/ Fault(d)

\* One of the three, whatever the device does.
LEMMA ServerStep ==
  ASSUME TypeOK, NEW d \in Device, DeviceStep(d)
  PROVE  UNCHANGED historyVars \/ Appends(d) \/ Commits(d)
  <1>1. CASE Host(d)
    BY <1>1 DEF Host, RecordGet, RecordPut, RecordQueue
  <1>2. CASE Sync(d) \/ Pull(d)
    BY <1>2 DEF Sync, Pull, ReadHead, ReadCheckpoint, ReadRows, LoadSummary, LoadSegment,
                AbsorbGet, AbsorbPut, CheckpointLoaded, OpenWaits, Open, PageDone
  <1>3. CASE Flush(d) \/ Take(d) \/ FlushDone(d) \/ FlushRefused(d)
    BY <1>3 DEF Flush, Take, FlushDone, FlushRefused
  <1>4. CASE AppendOp(d) \/ FlushFailed(d)
    BY <1>4, RecordsMade DEF AppendOp, FlushFailed, Appends
  <1>5. CASE UploadSegment(d)
    BY <1>5, RecordsMade DEF UploadSegment, Appends
  <1>6. CASE UploadSummary(d)
    BY <1>6, RecordsMade DEF UploadSummary, Appends
  <1>7. CASE AskHead(d) \/ Due(d) \/ Build(d) \/ UploadRefused(d) \/ CheckFrom(d)
               \/ CheckRows(d) \/ CommitRefused(d)
    BY <1>7 DEF AskHead, Due, Build, UploadRefused, CheckFrom, CheckRows, CommitRefused
  <1>8. CASE Commit(d) \/ CommitUnanswered(d)
    BY <1>8 DEF Commits
  <1>9. CASE RequestFails(d) \/ Crash(d) \/ Lapse(d)
    BY <1>9 DEF RequestFails, Crash, Lapse
  <1> QED
    BY <1>1, <1>2, <1>3, <1>4, <1>5, <1>6, <1>7, <1>8, <1>9
       DEF DeviceStep, Write, Compact, Fault

\* What any step leaves of the journal: its records, and more of them.
LEMMA ServerKeeps ==
  ASSUME TypeOK, NEW d \in Device, DeviceStep(d)
  PROVE  /\ ServerTyped'
         /\ headSeq \in Nat /\ headSeq' \in Nat /\ headSeq <= headSeq'
         /\ \A s \in 1..headSeq : recs'[s] = recs[s]
  <1>0. ServerTyped /\ JobTyped
    BY TypeParts
  <1>1. headSeq \in Nat
    BY <1>0, LenProperties DEF ServerTyped, headSeq
  <1>2. CASE UNCHANGED historyVars
    BY <1>0, <1>1, <1>2 DEF historyVars, ServerTyped, headSeq
  <1>3. CASE Appends(d)
    BY <1>0, <1>1, <1>3, AppendTyped DEF Appends
  <1>4. CASE Commits(d)
    <2>1. job[d].summary \in Positions /\ job[d].keep \in SUBSET Seqs
      BY <1>0 DEF JobTyped, JobType
    <2> QED
      BY <1>0, <1>1, <1>4, <2>1, CommitTyped DEF Commits, Commit, CommitUnanswered
  <1> QED
    BY <1>2, <1>3, <1>4, ServerStep

\* Of numbers up to a bound one is the largest: the CHOOSE of PageDone has a
\* value.
LEMMA LargestNumber ==
  ASSUME NEW N \in Nat, NEW S, S \subseteq 0..N, S # {}
  PROVE  \E n \in S : \A k \in S : k <= n
  <1> DEFINE T == {N - k : k \in S}
  <1>0. \A k \in S : k \in Nat /\ k <= N /\ N - k \in Nat
    OBVIOUS
  <1>1. T \subseteq Nat /\ T # {}
    BY <1>0
  <1>2. PICK m \in T : \A k \in T : ~(<<k, m>> \in OpToRel(<, Nat))
    BY <1>1, NatLessThanWellFounded, WFMin
  <1>3. \A i, j \in Nat : i < j => <<i, j>> \in OpToRel(<, Nat)
    BY DEF OpToRel
  <1>4. \A k \in T : ~(k < m)
    BY <1>1, <1>2, <1>3
  <1>5. PICK n \in S : m = N - n
    BY <1>2
  <1>6. ASSUME NEW k \in S PROVE k <= n
    <2>1. N - k \in T /\ ~(N - k < N - n)
      BY <1>4, <1>5
    <2> QED
      BY <1>0, <2>1
  <1> QED
    BY <1>6

\* The cursor after a page.
LEMMA PassedFacts ==
  ASSUME TypeOK, NEW d \in Device,
         NEW n, n = CHOOSE m \in Passed(d) : \A k \in Passed(d) : k <= m
  PROVE  n \in Passed(d) /\ n \in Positions /\ \A k \in Passed(d) : k <= n
  <1>1. cursor[d] \in Positions /\ page[d].rows \subseteq Seqs /\ page[d].head \in Positions
    BY DEF TypeOK
  <1>2. Passed(d) \subseteq 0..MaxSeq /\ Passed(d) # {}
    BY <1>1, Sizes DEF Passed, Positions, Seqs
  <1>3. \E m \in Passed(d) : \A k \in Passed(d) : k <= m
    BY <1>2, LargestNumber, Sizes
  <1> QED
    BY <1>2, <1>3 DEF Positions

\* applyToStore keeps the type.
LEMMA PutTyped ==
  ASSUME RowsTyped, NEW d \in Device, NEW prev \in SUBSET Op, NEW ops \in SUBSET Op,
         PutState(d, prev, ops)
  PROVE  store' \in [Device -> SUBSET Op]
  BY DEF RowsTyped, PutState

\* The larger of two positions is one.
LEMMA LargerTyped ==
  ASSUME NEW a \in Positions, NEW b \in Positions
  PROVE  Larger(a, b) \in Positions /\ Larger(a, b) >= a /\ Larger(a, b) >= b
  BY Sizes DEF Larger, Positions

\* The rows of a device keep their types.
LEMMA RowsStep ==
  ASSUME TypeOK, NEW d \in Device, DeviceStep(d)
  PROVE  RowsTyped'
  <1>0. ServerTyped /\ RowsTyped /\ PageTyped /\ TodoTyped /\ JobTyped /\ PastTyped
    BY TypeParts
  <1>1. CASE UNCHANGED rowVars
    BY <1>0, <1>1 DEF rowVars, RowsTyped
  <1>2. CASE RecordPut(d)
    <2>1. PICK r \in ui[d] : PutState(d, r.prev, {r.input.op})
      BY <1>2 DEF RecordPut
    <2>2. r.prev \in SUBSET Op /\ {r.input.op} \in SUBSET Op
      BY <1>0, HistorySyncAssumption DEF PastTyped, Calls
    <2>3. store' \in [Device -> SUBSET Op]
      BY <1>0, <2>1, <2>2, PutTyped
    <2> QED
      BY <1>0, <1>2, <2>3 DEF RecordPut, RowsTyped
  <1>3. CASE AbsorbPut(d)
    <2>1. PICK m \in todo[d].merging : PutState(d, m.prev, m.ops)
      BY <1>3 DEF AbsorbPut
    <2>2. m.prev \in SUBSET Op /\ m.ops \in SUBSET Op
      BY <1>0 DEF TodoTyped, TodoType
    <2>3. store' \in [Device -> SUBSET Op]
      BY <1>0, <2>1, <2>2, PutTyped
    <2> QED
      BY <1>0, <1>3, <2>3 DEF AbsorbPut, RowsTyped
  <1>4. CASE LoadSummary(d)
    <2>1. store' \in [Device -> SUBSET Op]
      BY <1>0, <1>4 DEF LoadSummary, RowsTyped
    <2> QED
      BY <1>0, <1>4, <2>1 DEF LoadSummary, RowsTyped
  <1>5. CASE CheckpointLoaded(d)
    <2>1. page[d].cp.upto \in Positions
      BY <1>0 DEF PageTyped, PageType, Checkpoint
    <2>2. cursor' \in [Device -> Positions]
      BY <1>0, <1>5, <2>1, LargerTyped DEF CheckpointLoaded, RowsTyped
    <2> QED
      BY <1>0, <1>5, <2>2 DEF CheckpointLoaded, RowsTyped
  <1>6. CASE PageDone(d)
    <2>1. (CHOOSE m \in Passed(d) : \A k \in Passed(d) : k <= m) \in Positions
      BY PassedFacts
    <2>2. cursor' \in [Device -> Positions]
      BY <1>0, <1>6, <2>1 DEF PageDone, RowsTyped
    <2>3. lapsed' \in [Device -> BOOLEAN]
      BY <1>0, <1>6 DEF PageDone, RowsTyped, PageTyped, PageType
    <2>4. streak' \in [Device -> Nat]
      BY <1>0, <1>6 DEF PageDone, RowsTyped
    <2> QED
      BY <1>0, <1>6, <2>2, <2>3, <2>4 DEF PageDone, RowsTyped
  <1>7. CASE FlushRefused(d)
    BY <1>0, <1>7 DEF FlushRefused, RowsTyped
  <1>8. CASE Due(d)
    BY <1>0, <1>8 DEF Due, RowsTyped
  <1>9. CASE Commit(d)
    <2>1. job[d].summary \in Positions
      BY <1>0 DEF JobTyped, JobType
    <2>2. cursor' \in [Device -> Positions]
      BY <1>0, <1>9, <2>1, LargerTyped DEF Commit, RowsTyped
    <2> QED
      BY <1>0, <1>9, <2>2 DEF Commit, RowsTyped
  <1>10. CASE CommitRefused(d)
    <2>1. job[d].cp.id \in Nat
      BY <1>0 DEF JobTyped, JobType, Checkpoint
    <2> QED
      BY <1>0, <1>10, <2>1 DEF CommitRefused, RowsTyped
  <1>11. CASE Crash(d)
    BY <1>0, <1>11 DEF Crash, RowsTyped
  <1>12. CASE Lapse(d)
    BY <1>0, <1>12 DEF Lapse, RowsTyped
  <1>16. CASE OpenWaits(d) \/ Open(d)
    <2>1. streak' = streak \/ streak' = [streak EXCEPT ![d] = @ + 1]
      BY <1>16 DEF OpenWaits, Open
    <2>2. UNCHANGED <<store, cursor, force, casFailed, lapsed>>
      BY <1>16 DEF OpenWaits, Open
    <2>3. streak' \in [Device -> Nat]
      BY <1>0, <2>1 DEF RowsTyped
    <2> QED
      BY <1>0, <2>2, <2>3 DEF RowsTyped
  <1>13. RecordGet(d) \/ RecordQueue(d) \/ Sync(d) \/ ReadHead(d) \/ ReadCheckpoint(d)
           \/ ReadRows(d) \/ LoadSegment(d) \/ AbsorbGet(d) => UNCHANGED rowVars
    BY DEF RecordGet, RecordQueue, Sync, ReadHead, ReadCheckpoint, ReadRows, LoadSegment,
           AbsorbGet
  <1>14. Flush(d) \/ Take(d) \/ AppendOp(d) \/ FlushDone(d) \/ FlushFailed(d)
           => UNCHANGED rowVars
    BY DEF Flush, Take, AppendOp, FlushDone, FlushFailed
  <1>15. AskHead(d) \/ Build(d) \/ UploadSegment(d) \/ UploadSummary(d) \/ UploadRefused(d)
           \/ CheckFrom(d) \/ CheckRows(d) \/ CommitUnanswered(d) \/ RequestFails(d)
           => UNCHANGED rowVars
    BY DEF AskHead, Build, UploadSegment, UploadSummary, UploadRefused, CheckFrom, CheckRows,
           CommitUnanswered, RequestFails
  <1> QED
    BY <1>1, <1>2, <1>3, <1>4, <1>5, <1>6, <1>7, <1>8, <1>9, <1>10, <1>11, <1>12, <1>13,
       <1>14, <1>15, <1>16 DEF DeviceStep, Host, Pull, Write, Compact, Fault

\* The operations of a queue.
LEMMA ElementsTyped == ASSUME NEW s \in Seq(Op) PROVE Elements(s) \subseteq Op
  BY LenProperties DEF Elements

\* What a device knows of the journal keeps its type.
LEMMA SeenStep ==
  ASSUME TypeOK, OwnInv, NEW d \in Device, DeviceStep(d)
  PROVE  seen' \in [Device -> SUBSET Op]
  <1>0. seen \in [Device -> SUBSET Op] /\ TodoTyped /\ JobTyped
    BY TypeParts DEF WaitTyped
  <1>1. CASE AbsorbGet(d)
    <2>1. \A u \in todo[d].updates : u \subseteq Op
      BY <1>0 DEF TodoTyped, TodoType
    <2> QED
      BY <1>0, <1>1, <2>1 DEF AbsorbGet
  <1>2. CASE FlushDone(d)
    <2> DEFINE cut == SubSeq(own[d], 1, job[d].own)
    <2>1. own[d] \in Seq(Op) /\ job[d].own \in Nat /\ job[d].own <= Len(own[d])
      BY DEF OwnInv, JobOK, QueuesTyped
    <2>2. Elements(cut) \subseteq Op
      BY <2>1, CutElements, ElementsTyped
    <2>3. job[d].due \subseteq Op
      BY <1>0 DEF JobTyped, JobType
    <2> HIDE DEF cut
    <2>4. seen' = [seen EXCEPT ![d] = @ \cup job[d].due \cup Elements(cut)]
      BY <1>2 DEF FlushDone, cut
    <2> QED
      BY <1>0, <2>2, <2>3, <2>4
  <1>3. CASE Crash(d)
    BY <1>0, <1>3 DEF Crash
  <1>4. CASE UNCHANGED seen
    BY <1>0, <1>4
  <1>5. Host(d) \/ Sync(d) \/ ReadHead(d) \/ ReadCheckpoint(d) \/ ReadRows(d)
          \/ LoadSummary(d) \/ LoadSegment(d) \/ AbsorbPut(d) \/ CheckpointLoaded(d)
          \/ OpenWaits(d) \/ Open(d) \/ PageDone(d) => UNCHANGED seen
    BY DEF Host, RecordGet, RecordPut, RecordQueue, Sync, ReadHead, ReadCheckpoint, ReadRows,
           LoadSummary, LoadSegment, AbsorbPut, CheckpointLoaded, OpenWaits, Open, PageDone,
           queueVars
  <1>6. Flush(d) \/ Take(d) \/ AppendOp(d) \/ FlushFailed(d) \/ FlushRefused(d)
          => UNCHANGED seen
    BY DEF Flush, Take, AppendOp, FlushFailed, FlushRefused, Requeue, queueVars
  <1>7. AskHead(d) \/ Compact(d) \/ CommitUnanswered(d) \/ RequestFails(d) \/ Lapse(d)
          => UNCHANGED seen
    BY DEF AskHead, Compact, Due, Build, UploadSegment, UploadSummary, UploadRefused,
           CheckFrom, CheckRows, Commit, CommitRefused, CommitUnanswered, RequestFails, Lapse,
           queueVars
  <1> QED
    BY <1>1, <1>2, <1>3, <1>4, <1>5, <1>6, <1>7 DEF DeviceStep, Pull, Write, Fault

\* Operations of records are operations.
LEMMA OpsTyped ==
  ASSUME ServerTyped, NEW s \in 1..headSeq
  PROVE  recs[s].ops \in SUBSET Op /\ recs[s].chunk \in BOOLEAN
  <1>1. recs[s] \in Record
    BY LenProperties DEF ServerTyped, headSeq
  <1> QED
    BY <1>1 DEF Record

\* What a device loses is lost to it alone, and is an operation.
LEMMA LostStep ==
  ASSUME TypeOK, PagesOrdinary, NEW d \in Device, DeviceStep(d)
  PROVE  /\ \E ops \in SUBSET Op : lost' = [lost EXCEPT ![d] = @ \cup ops]
         /\ lost' \in [Device -> SUBSET Op]
         /\ lost[d] \subseteq lost'[d]
  <1>0. ServerTyped /\ RowsTyped /\ PageTyped /\ TodoTyped /\ PastTyped
    BY TypeParts
  <1>1. SUFFICES \E ops \in SUBSET Op : lost' = [lost EXCEPT ![d] = @ \cup ops]
    BY <1>0, <1>1 DEF PastTyped
  <1>2. CASE UNCHANGED lost
    <2>1. lost' = [lost EXCEPT ![d] = @ \cup {}]
      BY <1>0, <1>2 DEF PastTyped
    <2> QED BY <2>1
  <1>3. ASSUME NEW prev, NEW ops, PutState(d, prev, ops)
        PROVE  \E new \in SUBSET Op : lost' = [lost EXCEPT ![d] = @ \cup new]
    <2>1. StateOf(d, ops) \ (prev \cup ops) \in SUBSET Op
      BY DEF StateOf, Sharing
    <2> QED BY <1>2, <1>3, <2>1 DEF PutState
  <1>4. CASE RecordPut(d) \/ AbsorbPut(d)
    BY <1>3, <1>4 DEF RecordPut, AbsorbPut
  <1>6. CASE LoadSegment(d)
    <2>1. UNCHANGED lost \/ \E s \in live : lost' = [lost EXCEPT ![d] = @ \cup recs[s].ops]
      BY <1>6 DEF LoadSegment
    <2>2. \A s \in live : recs[s].ops \in SUBSET Op
      BY <1>0, OpsTyped DEF ServerTyped
    <2> QED BY <1>2, <2>1, <2>2
  <1>7. CASE Open(d)
    <2>1. PICK passed \in SUBSET page[d].rows : lost' = [lost EXCEPT ![d] = @ \cup UNION Brought(passed)]
      <3>1. \A bad \in Unopened(d, page[d].rows) : bad \subseteq page[d].rows
        BY DEF Unopened
      <3> QED BY <1>7, <3>1 DEF Open
    <2>2. UNION Brought(passed) \in SUBSET Op
      BY <1>0, OpsTyped DEF Brought, PagesOrdinary
    <2> QED BY <2>1, <2>2
  <1>8. CASE Build(d)
    <2>1. LeftOut(d) \in SUBSET Op
      BY <1>0 DEF LeftOut, RowsTyped
    <2> QED BY <1>2, <1>8, <2>1 DEF Build
  <1>9. RecordGet(d) \/ RecordQueue(d) \/ Sync(d) \/ ReadHead(d) \/ ReadCheckpoint(d)
          \/ ReadRows(d) \/ LoadSummary(d) \/ AbsorbGet(d) \/ CheckpointLoaded(d)
          \/ OpenWaits(d) \/ PageDone(d) => UNCHANGED lost
    BY DEF RecordGet, RecordQueue, Sync, ReadHead, ReadCheckpoint, ReadRows, LoadSummary,
           AbsorbGet, CheckpointLoaded, OpenWaits, PageDone, pastVars
  <1>10. Flush(d) \/ Write(d) \/ Fault(d) => UNCHANGED lost
    BY DEF Flush, Write, Take, AppendOp, FlushDone, FlushRefused, Fault, FlushFailed,
           CommitUnanswered, RequestFails, Crash, Lapse, pastVars
  <1>11. AskHead(d) \/ Due(d) \/ UploadSegment(d) \/ UploadSummary(d) \/ UploadRefused(d)
           \/ CheckFrom(d) \/ CheckRows(d) \/ Commit(d) \/ CommitRefused(d) => UNCHANGED lost
    BY DEF AskHead, Due, UploadSegment, UploadSummary, UploadRefused, CheckFrom, CheckRows,
           Commit, CommitRefused, pastVars
  <1> QED
    BY <1>2, <1>4, <1>6, <1>7, <1>8, <1>9, <1>10, <1>11 DEF DeviceStep, Host, Pull, Compact

\* The past keeps its type.
LEMMA PastStep ==
  ASSUME TypeOK, NEW d \in Device, DeviceStep(d)
  PROVE  /\ acted' \subseteq Op /\ aged' = aged
         /\ crashed' \subseteq Device
         /\ faults' \in Nat
  <1>0. PastTyped
    BY TypeParts
  <1>1. CASE Host(d)
    <2>1. ASSUME NEW r \in ui[d] PROVE r.input.op \in Op
      BY <1>0, HistorySyncAssumption DEF PastTyped, Calls
    <2>2. acted' = acted \/ \E r \in ui[d] : acted' = acted \cup {r.input.op}
      BY <1>1 DEF Host, RecordGet, RecordPut, RecordQueue, pastVars
    <2>3. UNCHANGED <<faultVars, aged>>
      BY <1>1 DEF Host, RecordGet, RecordPut, RecordQueue, pastVars
    <2> QED
      BY <1>0, <2>1, <2>2, <2>3 DEF PastTyped, faultVars
  <1>2. CASE Sync(d) \/ Pull(d)
    BY <1>0, <1>2 DEF Sync, Pull, ReadHead, ReadCheckpoint, ReadRows, LoadSummary, LoadSegment,
           AbsorbGet, AbsorbPut, CheckpointLoaded, OpenWaits, Open, PageDone, pastVars,
           faultVars, PastTyped
  <1>3. CASE Flush(d) \/ Write(d)
    BY <1>0, <1>3 DEF Flush, Write, Take, AppendOp, FlushDone, FlushRefused, pastVars,
           faultVars, PastTyped
  <1>4. CASE AskHead(d) \/ Compact(d)
    BY <1>0, <1>4 DEF AskHead, Compact, Due, Build, UploadSegment, UploadSummary, UploadRefused,
           CheckFrom, CheckRows, Commit, CommitRefused, pastVars, faultVars, PastTyped
  <1>5. CASE Fault(d)
    <2>1. UNCHANGED <<acted, aged>> /\ (crashed' = crashed \/ crashed' = crashed \cup {d})
      BY <1>5 DEF Fault, FlushFailed, CommitUnanswered, RequestFails, Crash, Lapse, pastVars
    <2>2. faults' = faults + 1
      BY <1>5 DEF Fault
    <2> QED
      BY <1>0, <2>1, <2>2 DEF PastTyped
  <1> QED
    BY <1>1, <1>2, <1>3, <1>4, <1>5 DEF DeviceStep

\* A worker with nothing to do.
LEMMA NothingTyped == NoPage \in PageType /\ NoTodo \in TodoType /\ NoJob \in JobType
  <1>1. 0 \in Positions /\ NoCheckpoint \in Checkpoint
    BY Sizes DEF Positions, Checkpoint, NoCheckpoint
  <1>2. <<>> \in Seq(Op)
    BY EmptySeq
  <1> QED
    BY <1>1, <1>2 DEF NoPage, NoTodo, NoJob, PageType, TodoType, JobType

\* What the worker of a device has at hand.
WorkTyped == StepTyped /\ PageTyped /\ TodoTyped /\ JobTyped

\* A network operation ends.
LEMMA SettleTyped ==
  ASSUME WorkTyped, NEW d \in Device, Settle(d)
  PROVE  WorkTyped'
  <1>1. StepTyped'
    BY DEF WorkTyped, StepTyped, Settle, Goto, Steps
  <1>2. PageTyped' /\ TodoTyped' /\ JobTyped'
    BY NothingTyped DEF WorkTyped, PageTyped, TodoTyped, JobTyped, Settle
  <1> QED
    BY <1>1, <1>2 DEF WorkTyped

\* So does a pull, or it ends alone.
LEMMA PullEndsTyped ==
  ASSUME WorkTyped, NEW d \in Device, PullEnds(d)
  PROVE  WorkTyped'
  <1>1. CASE Settle(d)
    BY <1>1, SettleTyped
  <1>2. CASE ~Settle(d)
    BY <1>2, NothingTyped
       DEF PullEnds, Goto, WorkTyped, StepTyped, PageTyped, TodoTyped, JobTyped, Steps
  <1> QED
    BY <1>1, <1>2

\* A job put in the place of another.
LEMMA JobSet ==
  ASSUME JobTyped, NEW d \in Device, NEW j \in JobType, job' = [job EXCEPT ![d] = j]
  PROVE  JobTyped'
  BY DEF JobTyped

\* The same for what is to be merged.
LEMMA TodoSet ==
  ASSUME TodoTyped, NEW d \in Device, NEW t \in TodoType, todo' = [todo EXCEPT ![d] = t]
  PROVE  TodoTyped'
  BY DEF TodoTyped

\* pullLocked keeps the types of what the worker has at hand.
LEMMA PullTyped ==
  ASSUME TypeOK, PagesOrdinary, NEW d \in Device, Sync(d) \/ Pull(d), ~OpenWaits(d)
  PROVE  WorkTyped'
  <1>0. ServerTyped /\ RowsTyped /\ StepTyped /\ PageTyped /\ TodoTyped /\ JobTyped
    BY TypeParts
  <1>1. headSeq \in Positions /\ cp \in Checkpoint
    BY <1>0, LenProperties, Sizes DEF ServerTyped, headSeq, Positions
  <1>2. live \subseteq Seqs /\ live \subseteq 1..headSeq
    BY <1>0, <1>1, Sizes DEF ServerTyped, Seqs, Positions
  <1>3. JobTyped'
    BY <1>0 DEF JobTyped, Sync, Pull, ReadHead, ReadCheckpoint, ReadRows, LoadSummary,
                LoadSegment, AbsorbGet, AbsorbPut, CheckpointLoaded, Open, PageDone
  <1>4. CASE Sync(d)
    BY <1>0, <1>3, <1>4
       DEF Sync, Goto, WorkTyped, StepTyped, PageTyped, TodoTyped, Steps, Asking, Pulling
  <1>5. CASE ReadHead(d)
    <2>1. StepTyped' /\ TodoTyped'
      BY <1>0, <1>5 DEF ReadHead, Goto, StepTyped, TodoTyped, Steps, Asking, Pulling
    <2>2. PageTyped'
      BY <1>0, <1>1, <1>5 DEF ReadHead, PageTyped, PageType
    <2> QED
      BY <1>3, <2>1, <2>2 DEF WorkTyped
  <1>6. CASE ReadCheckpoint(d)
    <2>1. StepTyped' /\ TodoTyped'
      BY <1>0, <1>6 DEF ReadCheckpoint, Goto, StepTyped, TodoTyped, Steps, Asking, Pulling
    <2>2. PageTyped'
      BY <1>0, <1>1, <1>6 DEF ReadCheckpoint, PageTyped, PageType
    <2> QED
      BY <1>3, <2>1, <2>2 DEF WorkTyped
  <1>7. CASE ReadRows(d)
    <2>1. Page(From(d)) \subseteq live
      BY DEF Page, After
    <2>2. Page(From(d)) \in SUBSET Seqs /\ More(From(d)) \in BOOLEAN
      BY <1>2, <2>1 DEF More
    <2>4. PageTyped'
      BY <1>0, <1>7, <2>2 DEF ReadRows, PageTyped, PageType
    <2>5. TodoTyped'
      BY <1>0, <1>7 DEF ReadRows, TodoTyped
    <2>6. StepTyped'
      BY <1>0, <1>7 DEF ReadRows, Goto, StepTyped, Steps, Asking, Pulling
    <2> QED
      BY <1>3, <2>4, <2>5, <2>6 DEF WorkTyped
  <1>8. CASE LoadSummary(d)
    <2>1. page[d].cp.chunks \in SUBSET Seqs
      BY <1>0 DEF PageTyped, PageType, Checkpoint
    <2>2. TodoTyped'
      BY <1>0, <1>8, <2>1 DEF LoadSummary, TodoTyped, TodoType
    <2>3. StepTyped' /\ PageTyped'
      BY <1>0, <1>8 DEF LoadSummary, Goto, StepTyped, PageTyped, Steps, Asking, Pulling
    <2> QED
      BY <1>3, <2>2, <2>3 DEF WorkTyped
  <1>9. CASE LoadSegment(d)
    <2>1. PICK s \in todo[d].segs, opens \in Opens(d) :
            todo' = [todo EXCEPT ![d].segs = @ \ {s},
                                 ![d].updates = IF s \in live /\ opens THEN {recs[s].ops} ELSE {}]
      BY <1>9 DEF LoadSegment
    <2>2. (IF s \in live /\ opens THEN {recs[s].ops} ELSE {}) \in SUBSET SUBSET Op
      BY <1>0, <1>2, OpsTyped
    <2>3. TodoTyped'
      <3> DEFINE t == [todo[d] EXCEPT !.segs = @ \ {s},
                                  !.updates = IF s \in live /\ opens THEN {recs[s].ops} ELSE {}]
      <3>1. t \in TodoType
        BY <1>0, <2>2 DEF TodoTyped, TodoType
      <3>2. todo' = [todo EXCEPT ![d] = t]
        BY <2>1
      <3> QED
        BY <1>0, <3>1, <3>2, TodoSet
    <2>4. StepTyped' /\ PageTyped'
      BY <1>0, <1>9 DEF LoadSegment, StepTyped, PageTyped
    <2> QED
      BY <1>3, <2>3, <2>4 DEF WorkTyped
  <1>10. CASE AbsorbGet(d)
    <2>1. PICK u \in todo[d].updates :
            todo' = [todo EXCEPT ![d].updates = @ \ {u},
                                 ![d].merging = {[ops |-> u, prev |-> StateOf(d, u)]}]
      BY <1>10 DEF AbsorbGet
    <2>2. {[ops |-> u, prev |-> StateOf(d, u)]} \in SUBSET [ops : SUBSET Op, prev : SUBSET Op]
      BY <1>0 DEF TodoTyped, TodoType, StateOf, Sharing
    <2>3. TodoTyped'
      <3> DEFINE t == [todo[d] EXCEPT !.updates = @ \ {u},
                                  !.merging = {[ops |-> u, prev |-> StateOf(d, u)]}]
      <3>1. t \in TodoType
        BY <1>0, <2>2 DEF TodoTyped, TodoType
      <3>2. todo' = [todo EXCEPT ![d] = t]
        BY <2>1
      <3> QED
        BY <1>0, <3>1, <3>2, TodoSet
    <2>4. StepTyped' /\ PageTyped'
      BY <1>0, <1>10 DEF AbsorbGet, StepTyped, PageTyped
    <2> QED
      BY <1>3, <2>3, <2>4 DEF WorkTyped
  <1>11. CASE AbsorbPut(d)
    <2>1. TodoTyped'
      BY <1>0, <1>11 DEF AbsorbPut, TodoTyped, TodoType
    <2>2. StepTyped' /\ PageTyped'
      BY <1>0, <1>11 DEF AbsorbPut, StepTyped, PageTyped
    <2> QED
      BY <1>3, <2>1, <2>2 DEF WorkTyped
  <1>12. CASE CheckpointLoaded(d)
    <2>1. TodoTyped' /\ PageTyped'
      BY <1>0, <1>12 DEF CheckpointLoaded, TodoTyped, PageTyped
    <2>2. StepTyped'
      BY <1>0, <1>12 DEF CheckpointLoaded, Goto, StepTyped, Steps
    <2> QED
      BY <1>3, <2>1, <2>2 DEF WorkTyped
  <1>14. CASE Open(d)
    <2>1. PICK opened \in SUBSET page[d].rows :
            /\ page' = [page EXCEPT ![d].rows = opened]
            /\ todo' = [todo EXCEPT ![d].updates = Brought(opened)]
      BY <1>14 DEF Open
    <2>2. opened \subseteq Seqs
      BY <1>0 DEF PageTyped, PageType
    <2>3. Brought(opened) \in SUBSET SUBSET Op
      BY <1>0, OpsTyped DEF Brought, PagesOrdinary
    <2>4. PageTyped'
      BY <1>0, <2>1, <2>2 DEF PageTyped, PageType
    <2>5. TodoTyped'
      BY <1>0, <2>1, <2>3 DEF TodoTyped, TodoType
    <2>6. StepTyped'
      BY <1>0, <1>14 DEF Open, Goto, StepTyped, Steps
    <2> QED
      BY <1>3, <2>4, <2>5, <2>6 DEF WorkTyped
  <1>13. CASE PageDone(d)
    <2>1. TodoTyped' /\ PageTyped'
      BY <1>0, <1>13, NothingTyped DEF PageDone, TodoTyped, PageTyped
    <2>2. StepTyped'
      BY <1>0, <1>13 DEF PageDone, Goto, StepTyped, Steps, Asking, Pulling
    <2> QED
      BY <1>3, <2>1, <2>2 DEF WorkTyped
  <1> QED
    BY <1>4, <1>5, <1>6, <1>7, <1>8, <1>9, <1>10, <1>11, <1>12, <1>13, <1>14 DEF Pull

\* flushLocked keeps the types of what the worker has at hand.
LEMMA WriteTyped ==
  ASSUME TypeOK, NEW d \in Device, Flush(d) \/ Write(d) \/ FlushFailed(d)
  PROVE  WorkTyped'
  <1>0. WaitTyped /\ StepTyped /\ PageTyped /\ TodoTyped /\ JobTyped /\ WorkTyped
    BY TypeParts DEF WorkTyped
  <1>1. CASE Flush(d)
    <2>1. PICK n \in {0, Len(own[d])}, due \in SUBSET incoming[d] :
            job' = [job EXCEPT ![d].own = n, ![d].due = due, ![d].batch = SubSeq(own[d], 1, n)]
      BY <1>1 DEF Flush
    <2>2. own[d] \in Seq(Op) /\ Len(own[d]) \in Nat
      BY <1>0, LenProperties DEF WaitTyped
    <2>3. n \in Nat /\ SubSeq(own[d], 1, n) \in Seq(Op)
      BY <2>2, CutElements
    <2>4. due \subseteq Op
      BY <1>0 DEF WaitTyped
    <2>5. JobTyped'
      <3> DEFINE j == [job[d] EXCEPT !.own = n, !.due = due, !.batch = SubSeq(own[d], 1, n)]
      <3>1. j \in JobType
        BY <1>0, <2>3, <2>4 DEF JobTyped, JobType
      <3>2. job' = [job EXCEPT ![d] = j]
        BY <2>1
      <3> QED
        BY <1>0, <3>1, <3>2, JobSet
    <2>6. StepTyped' /\ PageTyped' /\ TodoTyped'
      BY <1>0, <1>1 DEF Flush, Goto, StepTyped, PageTyped, TodoTyped, Steps, Asking, Pulling
    <2> QED
      BY <2>5, <2>6 DEF WorkTyped
  <1>2. CASE Take(d)
    <2> DEFINE taken == job[d].due \ seen[d]
    <2>0. taken \subseteq Op /\ job[d].batch \in Seq(Op)
      BY <1>0 DEF JobTyped, JobType
    <2>1. CASE Settle(d)
      BY <1>0, <2>1, SettleTyped
    <2>2. CASE ~Settle(d)
      <3>1. /\ Goto(d, "append") /\ UNCHANGED <<ret, page, todo>>
            /\ \E s \in [1..Cardinality(taken) -> taken] :
                 job' = [job EXCEPT ![d].due = taken, ![d].batch = @ \o s]
        BY <1>2, <2>2 DEF Take
      <3>2. PICK s \in [1..Cardinality(taken) -> taken] :
                 job' = [job EXCEPT ![d].due = taken, ![d].batch = @ \o s]
        BY <3>1
      <3>3. Cardinality(taken) \in Nat
        BY <2>0, Sizes, FS_Subset, FS_CardinalityType
      <3> DEFINE n == Cardinality(taken)
      <3> HIDE DEF n
      <3>4. s \in [1..n -> Op] /\ n \in Nat
        BY <2>0, <3>3 DEF n
      <3>5. s \in Seq(Op)
        BY <3>4
      <3>6. job[d].batch \o s \in Seq(Op)
        BY <2>0, <3>5, ConcatElements
      <3> HIDE DEF taken
      <3>7. JobTyped'
        <4> DEFINE j == [job[d] EXCEPT !.due = taken, !.batch = @ \o s]
        <4>1. j \in JobType
          BY <1>0, <2>0, <3>6 DEF JobTyped, JobType
        <4>2. job' = [job EXCEPT ![d] = j]
          BY <3>2
        <4> QED
          BY <1>0, <4>1, <4>2, JobSet
      <3>8. StepTyped' /\ PageTyped' /\ TodoTyped'
        BY <1>0, <3>1 DEF Goto, StepTyped, PageTyped, TodoTyped, Steps
      <3> QED
        BY <3>7, <3>8 DEF WorkTyped
    <2> QED
      BY <2>1, <2>2
  <1>3. CASE AppendOp(d)
    <2>1. job[d].batch \in Seq(Op) /\ job[d].batch # <<>>
      BY <1>0, <1>3 DEF AppendOp, JobTyped, JobType
    <2>2. Tail(job[d].batch) \in Seq(Op)
      BY <2>1, TailElements
    <2>3. job' = [job EXCEPT ![d].batch = Tail(job[d].batch)]
      BY <1>3 DEF AppendOp
    <2>4. JobTyped'
      <3> DEFINE j == [job[d] EXCEPT !.batch = Tail(job[d].batch)]
      <3>1. j \in JobType
        BY <1>0, <2>2 DEF JobTyped, JobType
      <3>2. job' = [job EXCEPT ![d] = j]
        BY <2>3
      <3> QED
        BY <1>0, <3>1, <3>2, JobSet
    <2>5. StepTyped' /\ PageTyped' /\ TodoTyped'
      BY <1>0, <1>3 DEF AppendOp, StepTyped, PageTyped, TodoTyped
    <2> QED
      BY <2>4, <2>5 DEF WorkTyped
  <1>4. CASE FlushDone(d) \/ FlushRefused(d) \/ FlushFailed(d)
    BY <1>0, <1>4, SettleTyped DEF FlushDone, FlushRefused, FlushFailed, Requeue
  <1> QED
    BY <1>1, <1>2, <1>3, <1>4 DEF Write

\* buildCheckpointLocked keeps the types of what the worker has at hand.
LEMMA CompactTyped ==
  ASSUME TypeOK, NEW d \in Device, AskHead(d) \/ Compact(d) \/ CommitUnanswered(d)
  PROVE  WorkTyped'
  <1>0. /\ ServerTyped /\ RowsTyped
        /\ StepTyped /\ PageTyped /\ TodoTyped /\ JobTyped /\ WorkTyped
    BY TypeParts DEF WorkTyped
  <1>1. headSeq \in Positions /\ cp \in Checkpoint
    BY <1>0, LenProperties, Sizes DEF ServerTyped, headSeq, Positions
  <1>2. CASE Settle(d)
    BY <1>0, <1>2, SettleTyped
  <1>3. CASE AskHead(d)
    <2>1. JobTyped'
      <3> DEFINE j == [job[d] EXCEPT !.head = headSeq]
      <3>1. j \in JobType
        BY <1>0, <1>1 DEF JobTyped, JobType
      <3>2. job' = [job EXCEPT ![d] = j]
        BY <1>3 DEF AskHead
      <3> QED
        BY <1>0, <3>1, <3>2, JobSet
    <2>2. StepTyped' /\ PageTyped' /\ TodoTyped'
      BY <1>0, <1>3 DEF AskHead, Goto, StepTyped, PageTyped, TodoTyped, Steps, Asking
    <2> QED
      BY <2>1, <2>2 DEF WorkTyped
  <1>4. CASE Due(d) /\ ~Settle(d)
    <2>1. JobTyped'
      <3> DEFINE j == [job[d] EXCEPT !.cp = cp]
      <3>1. j \in JobType
        BY <1>0, <1>1 DEF JobTyped, JobType
      <3>2. job' = [job EXCEPT ![d] = j]
        BY <1>4 DEF Due
      <3> QED
        BY <1>0, <3>1, <3>2, JobSet
    <2>2. StepTyped' /\ PageTyped' /\ TodoTyped'
      BY <1>0, <1>4 DEF Due, Goto, StepTyped, PageTyped, TodoTyped, Steps, Asking, Pulling
    <2> QED
      BY <2>1, <2>2 DEF WorkTyped
  <1>5. CASE Build(d) /\ ~Settle(d)
    <2>1. PICK known \in {{}, job[d].cp.chunks} :
            \E kept \in SUBSET known :
               job' = [job EXCEPT ![d].keep = kept,
                                  ![d].up = Segments(d) \ {recs[s].ops : s \in kept}]
      BY <1>5 DEF Build
    <2>2. PICK kept \in SUBSET known :
               job' = [job EXCEPT ![d].keep = kept,
                                  ![d].up = Segments(d) \ {recs[s].ops : s \in kept}]
      BY <2>1
    <2>3. kept \subseteq Seqs
      BY <1>0 DEF JobTyped, JobType, Checkpoint
    <2> DEFINE new == Segments(d) \ {recs[s].ops : s \in kept}
    <2>4. new \in SUBSET SUBSET Op
      BY DEF Segments, StateOf, Sharing
    <2>5. JobTyped'
      <3> DEFINE j == [job[d] EXCEPT !.keep = kept, !.up = new]
      <3>1. job' = [job EXCEPT ![d] = j]
        BY <2>2
      <3> HIDE DEF new
      <3>2. j \in JobType
        <4>1. \A i \in JobType, k \in SUBSET Seqs, u \in SUBSET SUBSET Op :
                [i EXCEPT !.keep = k, !.up = u] \in JobType
          BY DEF JobType
        <4>2. job[d] \in JobType
          BY <1>0 DEF JobTyped
        <4> QED
          BY <2>3, <2>4, <4>1, <4>2
      <3> QED
        BY <1>0, <3>1, <3>2, JobSet
    <2>6. StepTyped' /\ PageTyped' /\ TodoTyped'
      BY <1>0, <1>5 DEF Build, Goto, StepTyped, PageTyped, TodoTyped, Steps, Asking
    <2> QED
      BY <2>5, <2>6 DEF WorkTyped
  <1>6. CASE UploadSegment(d)
    <2>1. PICK u \in job[d].up :
            /\ AppendRecord([chunk |-> TRUE, ops |-> u])
            /\ job' = [job EXCEPT ![d].up = @ \ {u}, ![d].keep = @ \cup {headSeq + 1}]
      BY <1>6 DEF UploadSegment
    <2>2. headSeq + 1 \in Seqs
      BY <1>0, <2>1, AppendTyped, RecordsMade
    <2>3. JobTyped'
      <3> DEFINE j == [job[d] EXCEPT !.up = @ \ {u}, !.keep = @ \cup {headSeq + 1}]
      <3>1. j \in JobType
        BY <1>0, <2>2 DEF JobTyped, JobType
      <3>2. job' = [job EXCEPT ![d] = j]
        BY <2>1
      <3> QED
        BY <1>0, <3>1, <3>2, JobSet
    <2>4. StepTyped' /\ PageTyped' /\ TodoTyped'
      BY <1>0, <1>6 DEF UploadSegment, StepTyped, PageTyped, TodoTyped
    <2> QED
      BY <2>3, <2>4 DEF WorkTyped
  <1>7. CASE UploadSummary(d)
    <2>1. /\ AppendRecord([chunk |-> TRUE, ops |-> {}])
          /\ job' = [job EXCEPT ![d].summary = headSeq + 1]
      BY <1>7 DEF UploadSummary
    <2>2. headSeq + 1 \in Seqs
      BY <1>0, <2>1, AppendTyped, RecordsMade
    <2>3. headSeq + 1 \in Positions
      BY <2>2, Sizes DEF Seqs, Positions
    <2>4. JobTyped'
      <3> DEFINE j == [job[d] EXCEPT !.summary = headSeq + 1]
      <3>1. j \in JobType
        BY <1>0, <2>3 DEF JobTyped, JobType
      <3>2. job' = [job EXCEPT ![d] = j]
        BY <2>1
      <3> QED
        BY <1>0, <3>1, <3>2, JobSet
    <2>5. StepTyped' /\ PageTyped' /\ TodoTyped'
      BY <1>0, <1>7 DEF UploadSummary, Goto, StepTyped, PageTyped, TodoTyped, Steps, Asking
    <2> QED
      BY <2>4, <2>5 DEF WorkTyped
  <1>8. CASE CheckFrom(d)
    <2>1. Larger(cursor[d], cp.upto) \in Positions
      BY <1>0, <1>1, LargerTyped DEF RowsTyped, Checkpoint
    <2>2. JobTyped'
      <3> DEFINE j == [job[d] EXCEPT !.from = Larger(cursor[d], cp.upto)]
      <3>1. j \in JobType
        BY <1>0, <2>1 DEF JobTyped, JobType
      <3>2. job' = [job EXCEPT ![d] = j]
        BY <1>8 DEF CheckFrom
      <3> QED
        BY <1>0, <3>1, <3>2, JobSet
    <2>3. StepTyped' /\ PageTyped' /\ TodoTyped'
      BY <1>0, <1>8 DEF CheckFrom, Goto, StepTyped, PageTyped, TodoTyped, Steps, Asking
    <2> QED
      BY <2>2, <2>3 DEF WorkTyped
  <1>9. CASE CheckRows(d) /\ ~Settle(d)
    <2>1. JobTyped'
      BY <1>0, <1>9, NothingTyped DEF CheckRows, JobTyped
    <2>2. StepTyped' /\ PageTyped' /\ TodoTyped'
      BY <1>0, <1>9 DEF CheckRows, Goto, StepTyped, PageTyped, TodoTyped, Steps, Asking, Pulling
    <2> QED
      BY <2>1, <2>2 DEF WorkTyped
  <1>10. UploadRefused(d) \/ Commit(d) \/ CommitUnanswered(d) \/ CommitRefused(d) => Settle(d)
    BY DEF UploadRefused, Commit, CommitUnanswered, CommitRefused
  <1> QED
    BY <1>2, <1>3, <1>4, <1>5, <1>6, <1>7, <1>8, <1>9, <1>10 DEF Compact

\* So do the other steps of a device.
LEMMA WorkStep ==
  ASSUME TypeOK, PagesOrdinary, NEW d \in Device, DeviceStep(d)
  PROVE  WorkTyped'
  <1>0. StepTyped /\ PageTyped /\ TodoTyped /\ JobTyped /\ WorkTyped
    BY TypeParts DEF WorkTyped
  <1>1. CASE Host(d) \/ Lapse(d)
    BY <1>0, <1>1 DEF Host, RecordGet, RecordPut, RecordQueue, Lapse, workVars, WorkTyped,
                      StepTyped, PageTyped, TodoTyped, JobTyped
  <1>2. CASE Crash(d)
    BY <1>0, <1>2, SettleTyped DEF Crash
  <1>3. CASE RequestFails(d) \/ OpenWaits(d)
    BY <1>0, <1>3, SettleTyped, PullEndsTyped DEF RequestFails, OpenWaits
  <1> QED
    BY <1>1, <1>2, <1>3, PullTyped, WriteTyped, CompactTyped DEF DeviceStep, Fault

\* Pages stay pages of ordinary records.
LEMMA PagesStep ==
  ASSUME TypeOK, PagesOrdinary, NEW d \in Device, DeviceStep(d)
  PROVE  PagesOrdinary'
  <1>0. ServerTyped /\ PageTyped
    BY TypeParts
  <1>1. /\ headSeq \in Nat /\ headSeq' \in Nat /\ headSeq <= headSeq'
        /\ \A s \in 1..headSeq : recs'[s] = recs[s]
    BY ServerKeeps
  <1>2. \A s \in 1..headSeq : s \in 1..headSeq' /\ recs'[s].chunk = recs[s].chunk
    BY <1>1
  <1>3. \A e \in Device : page'[e].rows \subseteq page[e].rows
                            \/ page'[e].rows \subseteq {s \in live : ~recs[s].chunk}
    <2>1. CASE page' = page
      BY <2>1
    <2>2. CASE page' = [page EXCEPT ![d] = NoPage]
      BY <1>0, <2>2 DEF PageTyped, NoPage
    <2>3. CASE ReadHead(d) \/ ReadCheckpoint(d)
      BY <1>0, <2>3 DEF ReadHead, ReadCheckpoint, PageTyped, PageType
    <2>4. CASE ReadRows(d)
      <3>1. Page(From(d)) \subseteq {s \in live : ~recs[s].chunk}
        BY DEF Page, After
      <3>2. page'[d].rows = Page(From(d)) /\ \A e \in Device \ {d} : page'[e] = page[e]
        BY <1>0, <2>4 DEF ReadRows, PageTyped, PageType
      <3> QED
        BY <3>1, <3>2
    <2>8. CASE Open(d)
      <3>1. PICK opened \in SUBSET page[d].rows : page' = [page EXCEPT ![d].rows = opened]
        BY <2>8 DEF Open
      <3> QED
        BY <1>0, <3>1 DEF PageTyped, PageType
    <2>5. Host(d) \/ Sync(d) \/ LoadSummary(d) \/ LoadSegment(d) \/ AbsorbGet(d) \/ AbsorbPut(d)
            \/ CheckpointLoaded(d) \/ Flush(d) \/ AppendOp(d) \/ Lapse(d) => page' = page
      BY DEF Host, RecordGet, RecordPut, RecordQueue, Sync, LoadSummary, LoadSegment, AbsorbGet,
             AbsorbPut, CheckpointLoaded, Flush, AppendOp, Lapse, workVars
    <2>6. PageDone(d) \/ FlushDone(d) \/ FlushRefused(d) \/ FlushFailed(d) \/ Crash(d)
            \/ RequestFails(d) \/ OpenWaits(d) => page' = [page EXCEPT ![d] = NoPage]
      BY DEF PageDone, FlushDone, FlushRefused, FlushFailed, Requeue, Crash, RequestFails,
             OpenWaits, PullEnds, Settle
    <2>7. Take(d) \/ AskHead(d) \/ Compact(d) \/ CommitUnanswered(d)
            => page' = page \/ page' = [page EXCEPT ![d] = NoPage]
      BY DEF Take, AskHead, Compact, Due, Build, UploadSegment, UploadSummary, UploadRefused,
             CheckFrom, CheckRows, Commit, CommitRefused, CommitUnanswered, Settle
    <2> QED
      BY <2>1, <2>2, <2>3, <2>4, <2>5, <2>6, <2>7, <2>8 DEF DeviceStep, Pull, Write, Fault
  <1>4. \A e \in Device : \A s \in page'[e].rows : s \in 1..headSeq /\ ~recs[s].chunk
    BY <1>0, <1>3 DEF PagesOrdinary, ServerTyped
  <1> QED
    BY <1>2, <1>4 DEF PagesOrdinary

\* The types at the start.
LEMMA TypeInit == Init => TypeInv
  <1> SUFFICES ASSUME Init PROVE TypeInv
    OBVIOUS
  <1>1. OwnInv
    BY OwnInit
  <1>2. ServerTyped
    <2>1. recs = <<>> /\ live = {} /\ cp = NoCheckpoint
      BY DEF Init, HistoryInit
    <2>2. NoCheckpoint \in Checkpoint
      BY Sizes DEF NoCheckpoint, Checkpoint, Positions
    <2> QED
      BY <2>1, <2>2, EmptySeq, Sizes DEF ServerTyped, headSeq
  <1>3. RowsTyped
    BY Sizes DEF Init, RowsTyped, Positions
  <1>4. WaitTyped
    BY EmptySeq DEF Init, WaitTyped
  <1>5. StepTyped /\ PageTyped /\ TodoTyped /\ JobTyped
    BY NothingTyped DEF Init, StepTyped, PageTyped, TodoTyped, JobTyped, Steps
  <1>6. PastTyped
    BY DEF Init, PastTyped
  <1>7. PagesOrdinary
    BY DEF Init, PagesOrdinary, NoPage
  <1> QED
    BY <1>1, <1>2, <1>3, <1>4, <1>5, <1>6, <1>7, TypeParts DEF TypeInv

\* A step of a device keeps them.
LEMMA TypeDevice ==
  ASSUME TypeInv, NEW d \in Device, DeviceStep(d), UNCHANGED scene, OwnInv'
  PROVE  TypeInv'
  <1>0. TypeOK /\ OwnInv /\ PagesOrdinary /\ PastTyped
    BY TypeParts DEF TypeInv
  <1>1. ServerTyped' /\ RowsTyped' /\ WorkTyped' /\ PagesOrdinary'
    BY <1>0, ServerKeeps, RowsStep, WorkStep, PagesStep
  <1>2. WaitTyped'
    BY <1>0, SeenStep DEF WaitTyped, OwnInv, QueuesTyped
  <1>3. PastTyped'
    BY <1>0, PastStep, LostStep DEF PastTyped, OwnInv, QueuesTyped
  <1>4. TypeOK'
    BY <1>1, <1>2, <1>3, TypeParts, PTL DEF WorkTyped
  <1> QED
    BY <1>1, <1>4 DEF TypeInv

\* Every step is one of a device, or none.
LEMMA TypeStep == TypeInv /\ [Next]_vars => TypeInv'
  <1> SUFFICES ASSUME TypeInv, [Next]_vars PROVE TypeInv'
    OBVIOUS
  <1>1. OwnInv'
    BY OwnStep DEF TypeInv
  <1>2. CASE UNCHANGED vars
    <2>1. TypeOK'
      BY <1>2 DEF TypeInv, TypeOK, vars, historyVars, rowVars, queueVars, workVars, pastVars,
                  faultVars, headSeq
    <2>2. PagesOrdinary'
      BY <1>2 DEF TypeInv, PagesOrdinary, vars, historyVars, workVars, headSeq
    <2> QED
      BY <1>1, <2>1, <2>2 DEF TypeInv
  <1>3. CASE Next
    <2>1. UNCHANGED scene
      BY <1>3 DEF Next
    <2>2. ASSUME NEW d \in Device, DeviceStep(d)
          PROVE  TypeInv'
      BY <1>1, <2>1, <2>2, TypeDevice
    <2>3. ASSUME NEW o \in scene.ages, Ages(o)
          PROVE  TypeInv'
      <3>1. /\ UNCHANGED <<historyVars, rowVars, queueVars, ui, workVars, acted, done, lost,
                           faultVars>>
            /\ aged' = aged \cup {o}
        BY <2>3 DEF Ages
      <3>2. o \in Op
        BY HistorySyncAssumption DEF TypeInv, TypeOK
      <3>3. TypeOK'
        BY <2>1, <3>1, <3>2 DEF TypeInv, TypeOK, historyVars, rowVars, queueVars, workVars,
                                faultVars, headSeq
      <3>4. PagesOrdinary'
        BY <3>1 DEF TypeInv, PagesOrdinary, historyVars, workVars, headSeq
      <3> QED
        BY <1>1, <3>3, <3>4 DEF TypeInv
    <2> QED
      BY <1>3, <2>2, <2>3 DEF Next, DeviceStep
  <1> QED
    BY <1>2, <1>3

\* HistorySync for every number of devices and operations: every variable keeps
\* its type, the worker's locals included.
THEOREM HistoryTypeCorrect == Spec => []TypeOK
  <1>1. TypeInv => TypeOK
    BY DEF TypeInv
  <1> QED
    BY <1>1, TypeInit, TypeStep, PTL DEF Spec

-----------------------------------------------------------------------------
(* Incoming operations                                                     *)

\* What belongs to one device.
DeviceState(e) == <<store[e], cursor[e], force[e], casFailed[e], lapsed[e], streak[e], lost[e],
            disk[e], own[e], incoming[e], seen[e], ui[e],
            pc[e], ret[e], page[e], todo[e], job[e]>>

\* A device changes nothing that belongs to another.
LEMMA OthersSame ==
  ASSUME TypeOK, PagesOrdinary, NEW d \in Device, DeviceStep(d), NEW e \in Device, e # d
  PROVE  UNCHANGED DeviceState(e)
  <1>0. RowsTyped /\ WaitTyped /\ StepTyped /\ PageTyped /\ TodoTyped /\ JobTyped /\ PastTyped
    BY TypeParts
  <1>1. /\ store'[e] = store[e] /\ cursor'[e] = cursor[e] /\ force'[e] = force[e]
        /\ casFailed'[e] = casFailed[e] /\ lapsed'[e] = lapsed[e] /\ streak'[e] = streak[e]
    <2>1. CASE Host(d) \/ Sync(d) \/ Pull(d)
      BY <1>0, <2>1 DEF RowsTyped, Host, RecordGet, RecordPut, RecordQueue, Sync, Pull, ReadHead,
             ReadCheckpoint, ReadRows, LoadSummary, LoadSegment, AbsorbGet, AbsorbPut,
             CheckpointLoaded, OpenWaits, Open, PageDone, PutState, rowVars
    <2>2. CASE Flush(d) \/ Write(d)
      BY <1>0, <2>2 DEF RowsTyped, Flush, Write, Take, AppendOp, FlushDone, FlushRefused, rowVars
    <2>3. CASE AskHead(d) \/ Compact(d)
      BY <1>0, <2>3 DEF RowsTyped, AskHead, Compact, Due, Build, UploadSegment, UploadSummary,
             UploadRefused, CheckFrom, CheckRows, Commit, CommitRefused, rowVars
    <2>4. CASE Fault(d)
      BY <1>0, <2>4 DEF RowsTyped, Fault, FlushFailed, CommitUnanswered, RequestFails, Crash,
             Lapse, rowVars
    <2> QED
      BY <2>1, <2>2, <2>3, <2>4 DEF DeviceStep
  <1>2. /\ disk'[e] = disk[e] /\ own'[e] = own[e] /\ incoming'[e] = incoming[e]
        /\ seen'[e] = seen[e] /\ ui'[e] = ui[e]
    <2>1. CASE Host(d) \/ Sync(d) \/ Pull(d)
      BY <1>0, <2>1 DEF WaitTyped, PastTyped, Host, RecordGet, RecordPut, RecordQueue, Sync, Pull,
             ReadHead, ReadCheckpoint, ReadRows, LoadSummary, LoadSegment, AbsorbGet, AbsorbPut,
             CheckpointLoaded, OpenWaits, Open, PageDone, SavePending, queueVars
    <2>2. CASE Flush(d) \/ Write(d)
      BY <1>0, <2>2 DEF WaitTyped, PastTyped, Flush, Write, Take, AppendOp, FlushDone,
             FlushRefused, Requeue, SavePending, queueVars
    <2>3. CASE AskHead(d) \/ Compact(d)
      BY <1>0, <2>3 DEF WaitTyped, PastTyped, AskHead, Compact, Due, Build, UploadSegment,
             UploadSummary, UploadRefused, CheckFrom, CheckRows, Commit, CommitRefused, queueVars
    <2>4. CASE Fault(d)
      BY <1>0, <2>4 DEF WaitTyped, PastTyped, Fault, FlushFailed, CommitUnanswered, RequestFails,
             Crash, Lapse, Requeue, SavePending, queueVars
    <2> QED
      BY <2>1, <2>2, <2>3, <2>4 DEF DeviceStep
  <1>3. pc'[e] = pc[e] /\ ret'[e] = ret[e]
    <2>1. CASE Host(d) \/ Sync(d) \/ Pull(d)
      BY <1>0, <2>1 DEF StepTyped, Host, RecordGet, RecordPut, RecordQueue, Sync, Pull, ReadHead,
             ReadCheckpoint, ReadRows, LoadSummary, LoadSegment, AbsorbGet, AbsorbPut,
             CheckpointLoaded, OpenWaits, PullEnds, Settle, Open, PageDone, Goto, workVars
    <2>2. CASE Flush(d) \/ Write(d)
      BY <1>0, <2>2 DEF StepTyped, Flush, Write, Take, AppendOp, FlushDone, FlushRefused, Requeue,
             Settle, Goto
    <2>3. CASE AskHead(d) \/ Compact(d)
      BY <1>0, <2>3 DEF StepTyped, AskHead, Compact, Due, Build, UploadSegment, UploadSummary,
             UploadRefused, CheckFrom, CheckRows, Commit, CommitRefused, Settle, Goto
    <2>4. CASE Fault(d)
      BY <1>0, <2>4 DEF StepTyped, Fault, FlushFailed, CommitUnanswered, RequestFails, Crash,
             Lapse, Requeue, PullEnds, Settle, Goto, workVars
    <2> QED
      BY <2>1, <2>2, <2>3, <2>4 DEF DeviceStep
  <1>4. page'[e] = page[e] /\ todo'[e] = todo[e] /\ job'[e] = job[e]
    <2>1. CASE Host(d) \/ Sync(d) \/ Pull(d)
      BY <1>0, <2>1 DEF PageTyped, TodoTyped, JobTyped, Host, RecordGet, RecordPut, RecordQueue,
             Sync, Pull, ReadHead, ReadCheckpoint, ReadRows, LoadSummary, LoadSegment, AbsorbGet,
             AbsorbPut, CheckpointLoaded, OpenWaits, PullEnds, Settle, Open, PageDone, workVars
    <2>2. CASE Flush(d) \/ Write(d)
      BY <1>0, <2>2 DEF PageTyped, TodoTyped, JobTyped, Flush, Write, Take, AppendOp, FlushDone,
             FlushRefused, Requeue, Settle
    <2>3. CASE AskHead(d) \/ Compact(d)
      BY <1>0, <2>3 DEF PageTyped, TodoTyped, JobTyped, AskHead, Compact, Due, Build,
             UploadSegment, UploadSummary, UploadRefused, CheckFrom, CheckRows, Commit,
             CommitRefused, Settle
    <2>4. CASE Fault(d)
      BY <1>0, <2>4 DEF PageTyped, TodoTyped, JobTyped, Fault, FlushFailed, CommitUnanswered,
             RequestFails, Crash, Lapse, Requeue, PullEnds, Settle, workVars
    <2> QED
      BY <2>1, <2>2, <2>3, <2>4 DEF DeviceStep
  <1>5. lost'[e] = lost[e]
    BY <1>0, LostStep DEF PastTyped
  <1> QED
    BY <1>1, <1>2, <1>3, <1>4, <1>5 DEF DeviceState

\* Nothing leaves what was ever written.
LEMMA JournaledKept ==
  ASSUME TypeOK, NEW d \in Device, DeviceStep(d)
  PROVE  Journaled \subseteq Journaled'
  <1>1. /\ headSeq \in Nat /\ headSeq' \in Nat /\ headSeq <= headSeq'
        /\ \A s \in 1..headSeq : recs'[s] = recs[s]
    BY ServerKeeps
  <1>2. \A s \in 1..headSeq : s \in 1..headSeq'
    BY <1>1
  <1> QED
    BY <1>1, <1>2 DEF Journaled

\* An ordinary record is of what was ever written.
LEMMA OrdinaryJournaled ==
  ASSUME NEW s \in 1..headSeq, ~recs[s].chunk
  PROVE  recs[s].ops \subseteq Journaled
  BY DEF Journaled

\* A flush has operations that arrived in its hands.
InFlush(d) == \/ pc[d] \in {"take", "append"}
              \/ ret[d] = "take" /\ pc[d] \in Pulling \cup {"open", "absorb"}

\* What a device takes for written is written; outside a flush the worker holds
\* no operation that arrived, and in it each is to be written or is written.
KnownOK(d) ==
  /\ seen[d] \subseteq Journaled
  /\ At(d, "absorb") => \A u \in todo[d].updates : u \subseteq Journaled
  /\ job[d].due # {} => InFlush(d)
  /\ At(d, "append") => job[d].due \subseteq Elements(job[d].batch) \cup Journaled

\* Where an operation that arrived may be.
Held(d) == incoming[d] \cup job[d].due \cup Journaled

\* A device that a step leaves alone.
LEMMA KnownOther ==
  ASSUME TypeOK, PagesOrdinary, NEW d \in Device, DeviceStep(d), NEW e \in Device, e # d, KnownOK(e)
  PROVE  KnownOK(e)' /\ Held(e) \subseteq Held(e)'
  <1>1. UNCHANGED DeviceState(e) /\ Journaled \subseteq Journaled'
    BY OthersSame, JournaledKept
  <1>2. /\ seen'[e] = seen[e] /\ pc'[e] = pc[e] /\ ret'[e] = ret[e] /\ todo'[e] = todo[e]
        /\ job'[e] = job[e] /\ incoming'[e] = incoming[e]
    BY <1>1 DEF DeviceState
  <1> QED
    BY <1>1, <1>2 DEF KnownOK, Held, InFlush, At

\* The host's thread, and a device that stays away.
LEMMA KnownHost ==
  ASSUME TypeOK, NEW d \in Device, KnownOK(d), DeviceStep(d), Host(d) \/ Lapse(d)
  PROVE  KnownOK(d)' /\ Held(d) \subseteq Held(d)'
  <1>1. UNCHANGED <<pc, ret, todo, job, seen>>
    BY DEF Host, RecordGet, RecordPut, RecordQueue, Lapse, workVars, queueVars
  <1>2. incoming[d] \subseteq incoming'[d]
    <2>1. CASE RecordQueue(d)
      BY <2>1, TypeParts DEF WaitTyped, RecordQueue
    <2>2. CASE RecordGet(d) \/ RecordPut(d) \/ Lapse(d)
      BY <2>2 DEF RecordGet, RecordPut, Lapse, queueVars
    <2> QED
      BY <2>1, <2>2 DEF Host
  <1>3. Journaled \subseteq Journaled'
    BY JournaledKept
  <1> QED
    BY <1>1, <1>2, <1>3 DEF KnownOK, Held, InFlush, At

\* pullLocked: only operations of ordinary records are taken for written.
LEMMA KnownPull ==
  ASSUME TypeOK, PagesOrdinary, NEW d \in Device, KnownOK(d), DeviceStep(d), Sync(d) \/ Pull(d),
         ~OpenWaits(d)
  PROVE  KnownOK(d)' /\ Held(d) \subseteq Held(d)'
  <1>0. ServerTyped /\ WaitTyped /\ StepTyped /\ PageTyped /\ TodoTyped
    BY TypeParts
  <1>1. UNCHANGED <<recs, job, incoming>>
    BY DEF Sync, Pull, ReadHead, ReadCheckpoint, ReadRows, LoadSummary, LoadSegment, AbsorbGet,
           AbsorbPut, CheckpointLoaded, Open, PageDone, historyVars, queueVars
  <1>2. Journaled' = Journaled /\ Held(d)' = Held(d)
    BY <1>1 DEF Journaled, headSeq, Held
  <1>3. ASSUME UNCHANGED seen,
               job[d].due # {} => InFlush(d)',
               pc'[d] = "absorb" => \A u \in todo'[d].updates : u \subseteq Journaled,
               pc'[d] # "append"
        PROVE  KnownOK(d)'
    BY <1>1, <1>2, <1>3 DEF KnownOK, At
  <1>4. ASSUME UNCHANGED <<seen, ret>>, pc[d] \in Pulling \cup {"idle"}, pc'[d] \in Pulling
        PROVE  KnownOK(d)'
    <2>1. job[d].due # {} => InFlush(d)'
      BY <1>4 DEF KnownOK, InFlush, Pulling
    <2> QED
      BY <1>3, <1>4, <2>1 DEF Pulling
  <1>5. CASE Sync(d) \/ ReadHead(d) \/ ReadCheckpoint(d) \/ LoadSummary(d) \/ LoadSegment(d)
    <2>1. pc[d] \in Pulling \cup {"idle"} /\ pc'[d] \in Pulling /\ UNCHANGED <<seen, ret>>
      BY <1>0, <1>5 DEF Sync, ReadHead, ReadCheckpoint, LoadSummary, LoadSegment, At, Goto,
                        StepTyped, Pulling, queueVars
    <2> QED
      BY <1>2, <1>4, <2>1
  <1>6. CASE ReadRows(d) \/ CheckpointLoaded(d)
    <2>1. /\ UNCHANGED <<seen, ret>> /\ pc[d] \in {"rows", "segments"}
          /\ pc'[d] \in {"summary", "open"}
      BY <1>0, <1>6 DEF ReadRows, CheckpointLoaded, At, Goto, StepTyped, queueVars
    <2>2. job[d].due # {} => InFlush(d)'
      BY <2>1 DEF KnownOK, InFlush, Pulling
    <2> QED
      BY <1>2, <1>3, <2>1, <2>2
  <1>7. CASE AbsorbGet(d)
    <2>1. PICK u \in todo[d].updates :
            /\ todo' = [todo EXCEPT ![d].updates = @ \ {u},
                                    ![d].merging = {[ops |-> u, prev |-> StateOf(d, u)]}]
            /\ seen' = IF At(d, "absorb") THEN [seen EXCEPT ![d] = @ \cup u] ELSE seen
      BY <1>7 DEF AbsorbGet
    <2>2. UNCHANGED <<pc, ret>>
      BY <1>7 DEF AbsorbGet
    <2>3. todo'[d].updates = todo[d].updates \ {u}
      BY <1>0, <2>1 DEF TodoTyped, TodoType
    <2>4. seen'[d] \subseteq Journaled
      BY <1>0, <2>1 DEF WaitTyped, KnownOK
    <2> QED
      BY <1>1, <1>2, <2>2, <2>3, <2>4 DEF KnownOK, InFlush, At
  <1>8. CASE AbsorbPut(d)
    <2>1. UNCHANGED <<pc, ret, seen>> /\ todo'[d].updates = todo[d].updates
      BY <1>0, <1>8 DEF AbsorbPut, TodoTyped, TodoType, queueVars
    <2> QED
      BY <1>1, <1>2, <2>1 DEF KnownOK, InFlush, At
  <1>9. CASE Open(d)
    <2>1. PICK opened \in SUBSET page[d].rows : todo' = [todo EXCEPT ![d].updates = Brought(opened)]
      BY <1>9 DEF Open
    <2>2. UNCHANGED <<seen, ret>> /\ pc[d] = "open" /\ pc'[d] = "absorb"
      BY <1>0, <1>9 DEF Open, At, Goto, StepTyped, queueVars
    <2>3. todo'[d].updates = Brought(opened)
      BY <1>0, <2>1 DEF TodoTyped, TodoType
    <2>4. \A u \in Brought(opened) : u \subseteq Journaled
      BY OrdinaryJournaled DEF Brought, PagesOrdinary
    <2>5. job[d].due # {} => InFlush(d)'
      BY <2>2 DEF KnownOK, InFlush, Pulling
    <2> QED
      BY <1>2, <1>3, <2>2, <2>3, <2>4, <2>5
  <1>10. CASE PageDone(d)
    <2>1. /\ UNCHANGED seen /\ pc[d] = "absorb"
          /\ \/ pc'[d] = "head" /\ ret'[d] = ret[d]
             \/ pc'[d] = ret[d]
          /\ ret[d] \in {"idle", "take", "build"}
      BY <1>0, <1>10 DEF PageDone, At, Goto, StepTyped, queueVars
    <2>2. job[d].due # {} => InFlush(d)'
      BY <2>1 DEF KnownOK, InFlush, Pulling
    <2> QED
      BY <1>2, <1>3, <2>1, <2>2
  <1> QED
    BY <1>2, <1>5, <1>6, <1>7, <1>8, <1>9, <1>10 DEF Pull

\* A network operation that holds no operation that arrived ends.
LEMMA KnownSettled ==
  ASSUME TypeOK, NEW d \in Device, Settle(d), seen'[d] \subseteq Journaled'
  PROVE  KnownOK(d)'
  <1>1. pc'[d] = "idle" /\ job'[d].due = {}
    BY DEF TypeOK, Settle, Goto, NoJob
  <1> QED
    BY <1>1 DEF KnownOK, At

\* flushLocked: an operation leaves the queue for the batch and the batch for
\* the journal, or returns.
LEMMA KnownFlush ==
  ASSUME TypeOK, OwnInv, NEW d \in Device, KnownOK(d), DeviceStep(d),
         Flush(d) \/ Write(d) \/ FlushFailed(d)
  PROVE  KnownOK(d)' /\ Held(d) \subseteq Held(d)'
  <1>0. WaitTyped /\ StepTyped /\ JobTyped /\ Journaled \subseteq Journaled'
    BY TypeParts, JournaledKept
  <1>1. CASE Flush(d)
    <2>1. PICK n \in {0, Len(own[d])}, due \in SUBSET incoming[d] :
            /\ job' = [job EXCEPT ![d].own = n, ![d].due = due,
                                  ![d].batch = SubSeq(own[d], 1, n)]
            /\ IF due = {} THEN Goto(d, "append") /\ UNCHANGED ret
               ELSE Goto(d, "head") /\ ret' = [ret EXCEPT ![d] = "take"]
      BY <1>1 DEF Flush
    <2>2. UNCHANGED <<seen, incoming>> /\ pc[d] = "idle"
      BY <1>1 DEF Flush, At, queueVars
    <2>3. job'[d].due = due
      BY <1>0, <2>1 DEF JobTyped, JobType
    <2>4. \/ due = {} /\ pc'[d] = "append"
          \/ pc'[d] = "head" /\ ret'[d] = "take"
      BY <1>0, <2>1 DEF Goto, StepTyped
    <2>5. job[d].due = {}
      BY <2>2 DEF KnownOK, InFlush, Pulling
    <2>6. KnownOK(d)'
      BY <1>0, <2>2, <2>3, <2>4 DEF KnownOK, InFlush, Pulling, At
    <2> QED
      BY <1>0, <2>2, <2>5, <2>6 DEF Held
  <1>2. CASE Take(d)
    <2> DEFINE taken == job[d].due \ seen[d]
    <2>1. incoming'[d] = incoming[d] \ job[d].due /\ UNCHANGED seen
      BY <1>0, <1>2 DEF Take, WaitTyped
    <2>2. job[d].due \subseteq taken \cup Journaled
      BY DEF KnownOK
    <2>3. CASE taken = {} /\ Settle(d)
      BY <1>0, <2>1, <2>2, <2>3, KnownSettled DEF Held, KnownOK
    <2>4. CASE ~(taken = {} /\ Settle(d))
      <3>1. PICK s \in [1..Cardinality(taken) -> taken] :
              /\ Elements(s) = taken
              /\ job' = [job EXCEPT ![d].due = taken, ![d].batch = @ \o s]
        BY <1>2, <2>4 DEF Take
      <3>2. pc'[d] = "append"
        BY <1>0, <1>2, <2>4 DEF Take, Goto, StepTyped
      <3>3. Cardinality(taken) \in Nat
        <4>1. taken \subseteq Op
          BY <1>0 DEF JobTyped, JobType
        <4> QED
          BY <4>1, Sizes, FS_Subset, FS_CardinalityType
      <3>4. job'[d].due = taken /\ job'[d].batch = job[d].batch \o s
        BY <1>0, <3>1 DEF JobTyped, JobType
      <3>5. taken \subseteq Elements(job[d].batch \o s)
        <4> DEFINE k == Cardinality(taken)
        <4>1. k \in Nat /\ s \in [1..k -> taken]
          BY <3>1, <3>3
        <4> HIDE DEF k
        <4>2. taken \subseteq Op
          BY <1>0 DEF JobTyped, JobType
        <4>3. s \in Seq(Op) /\ job[d].batch \in Seq(Op)
          BY <1>0, <4>1, <4>2 DEF JobTyped, JobType
        <4> QED
          BY <3>1, <4>3, ConcatSecond
      <3> HIDE DEF taken
      <3>6. KnownOK(d)'
        <4>1. job'[d].due \subseteq Elements(job'[d].batch)
          BY <3>4, <3>5
        <4>2. Elements(job'[d].batch) = Elements(job[d].batch)'
          BY DEF Elements
        <4> QED
          BY <1>0, <2>1, <3>2, <4>1, <4>2 DEF KnownOK, InFlush, At
      <3> QED
        BY <1>0, <2>1, <2>2, <3>4, <3>6 DEF Held
    <2> QED
      BY <2>3, <2>4
  <1>3. CASE AppendOp(d)
    <2>1. /\ job[d].batch # <<>>
          /\ AppendRecord([chunk |-> FALSE, ops |-> {Head(job[d].batch)}])
          /\ job' = [job EXCEPT ![d].batch = Tail(@)]
          /\ UNCHANGED <<incoming, seen, pc, ret>> /\ pc[d] = "append"
      BY <1>3 DEF AppendOp, At, queueVars
    <2>2. Elements(job[d].batch) \subseteq Elements(Tail(job[d].batch)) \cup Journaled'
      BY <2>1, AppendOpGrows
    <2>3. job'[d].due = job[d].due /\ job'[d].batch = Tail(job[d].batch)
      BY <1>0, <2>1 DEF JobTyped, JobType
    <2>4. Elements(job[d].batch)' = Elements(Tail(job[d].batch))
      BY <2>3 DEF Elements
    <2>5. KnownOK(d)'
      BY <1>0, <2>1, <2>2, <2>3, <2>4 DEF KnownOK, InFlush, At
    <2> QED
      BY <1>0, <2>1, <2>3, <2>5 DEF Held
  <1>4. CASE FlushDone(d)
    <2>1. /\ job[d].batch = <<>> /\ pc[d] = "append" /\ UNCHANGED incoming /\ Settle(d)
          /\ seen' = [seen EXCEPT ![d] =
               @ \cup job[d].due \cup Elements(SubSeq(own[d], 1, job[d].own))]
      BY <1>4 DEF FlushDone, At
    <2>2. Elements(job[d].batch) = {}
      BY <2>1, EmptySeq DEF Elements
    <2>3. job[d].due \subseteq Journaled
      BY <2>1, <2>2 DEF KnownOK, At
    <2>4. Elements(SubSeq(own[d], 1, job[d].own)) \subseteq Journaled
      <3>1. /\ own[d] \in Seq(Op) /\ Len(own[d]) \in Nat
            /\ job[d].own \in Nat /\ job[d].own <= Len(own[d])
            /\ \A k \in 1..job[d].own : own[d][k] \in Journaled
        BY <2>2, LenProperties DEF OwnInv, JobOK, QueuesTyped
      <3> DEFINE q == own[d]
                 n == job[d].own
      <3>2. q \in Seq(Op) /\ Len(q) \in Nat /\ n \in Nat /\ n <= Len(q)
            /\ \A k \in 1..n : q[k] \in Journaled
        BY <3>1
      <3> HIDE DEF q, n
      <3>3. Len(SubSeq(q, 1, n)) = n /\ \A k \in 1..n : SubSeq(q, 1, n)[k] = q[k]
        BY <3>2
      <3>4. Elements(SubSeq(q, 1, n)) \subseteq Journaled
        BY <3>2, <3>3 DEF Elements
      <3> QED
        BY <3>4 DEF q, n
    <2>5. seen'[d] = seen[d] \cup job[d].due \cup Elements(SubSeq(own[d], 1, job[d].own))
      BY <1>0, <2>1 DEF WaitTyped
    <2>6. seen'[d] \subseteq Journaled'
      BY <1>0, <2>3, <2>4, <2>5 DEF KnownOK
    <2> QED
      BY <1>0, <2>1, <2>3, <2>6, KnownSettled DEF Held
  <1>5. CASE FlushRefused(d) \/ FlushFailed(d)
    <2>1. Settle(d) /\ UNCHANGED seen /\ incoming'[d] = incoming[d] \cup job[d].due
      BY <1>0, <1>5 DEF FlushRefused, FlushFailed, Requeue, WaitTyped
    <2> QED
      BY <1>0, <2>1, KnownSettled DEF Held, KnownOK
  <1> QED
    BY <1>1, <1>2, <1>3, <1>4, <1>5 DEF Write

\* buildCheckpointLocked and failed requests: no operation that arrived is in
\* hand, or a flush goes on.
LEMMA KnownCompact ==
  ASSUME TypeOK, NEW d \in Device, KnownOK(d), DeviceStep(d),
         AskHead(d) \/ Compact(d) \/ CommitUnanswered(d) \/ RequestFails(d) \/ OpenWaits(d)
  PROVE  KnownOK(d)' /\ Held(d) \subseteq Held(d)'
  <1>0. StepTyped /\ JobTyped /\ Journaled \subseteq Journaled'
    BY TypeParts, JournaledKept
  <1>1. UNCHANGED <<seen, incoming>>
    BY DEF AskHead, Compact, Due, Build, UploadSegment, UploadSummary, UploadRefused, CheckFrom,
           CheckRows, Commit, CommitRefused, CommitUnanswered, RequestFails, OpenWaits, queueVars
  <1>2. CASE job[d].due = {}
    <2>1. job'[d].due = {} /\ pc'[d] \notin {"absorb", "append"}
      <3>1. CASE Settle(d)
        BY <1>0, <3>1 DEF Settle, Goto, NoJob, JobTyped, StepTyped
      <3>2. CASE ~Settle(d)
        <4>1. CASE AskHead(d)
          BY <1>0, <1>2, <4>1 DEF AskHead, Goto, JobTyped, JobType, StepTyped
        <4>2. CASE Due(d)
          <5>1. job' = [job EXCEPT ![d].cp = cp] /\ Goto(d, "head")
            BY <3>2, <4>2 DEF Due
          <5> QED
            BY <1>0, <1>2, <5>1 DEF Goto, JobTyped, JobType, StepTyped
        <4>3. CASE CheckFrom(d)
          BY <1>0, <1>2, <4>3 DEF CheckFrom, Goto, JobTyped, JobType, StepTyped
        <4>4. CASE CheckRows(d)
          BY <1>0, <1>2, <3>2, <4>4 DEF CheckRows, Goto, NoJob, JobTyped, StepTyped
        <4>5. CASE Build(d)
          <5>1. PICK k, u : job' = [job EXCEPT ![d].keep = k, ![d].up = u]
            BY <3>2, <4>5 DEF Build
          <5>2. Goto(d, "upload")
            BY <3>2, <4>5 DEF Build
          <5> QED
            BY <1>0, <1>2, <5>1, <5>2 DEF Goto, JobTyped, JobType, StepTyped
        <4>6. CASE UploadSegment(d) \/ UploadSummary(d)
          BY <1>0, <1>2, <4>6
             DEF UploadSegment, UploadSummary, At, Goto, JobTyped, JobType, StepTyped
        <4>7. CASE RequestFails(d) \/ OpenWaits(d)
          BY <1>0, <1>2, <3>2, <4>7 DEF RequestFails, OpenWaits, PullEnds, Goto, StepTyped
        <4>8. UploadRefused(d) \/ Commit(d) \/ CommitUnanswered(d) \/ CommitRefused(d) => Settle(d)
          BY DEF UploadRefused, Commit, CommitUnanswered, CommitRefused
        <4> QED
          BY <3>2, <4>1, <4>2, <4>3, <4>4, <4>5, <4>6, <4>7, <4>8 DEF Compact
      <3> QED
        BY <3>1, <3>2
    <2>2. KnownOK(d)'
      BY <1>0, <1>1, <2>1 DEF KnownOK, At
    <2> QED
      BY <1>0, <1>1, <1>2, <2>2 DEF Held
  <1>3. CASE job[d].due # {}
    <2>1. InFlush(d)
      BY <1>3 DEF KnownOK
    <2>2. pc[d] \notin {"idle", "due", "build", "upload", "check", "recheck", "commit"}
      BY <2>1 DEF InFlush, Pulling
    <2>3. RequestFails(d) \/ OpenWaits(d)
      BY <2>2 DEF AskHead, Compact, Due, Build, UploadSegment, UploadSummary, UploadRefused,
                  CheckFrom, CheckRows, Commit, CommitRefused, CommitUnanswered, At
    <2>4. PullEnds(d) /\ ret[d] = "take"
      BY <2>1, <2>2, <2>3 DEF RequestFails, OpenWaits, InFlush, Asking, Pulling, At
    <2>5. pc'[d] = "take" /\ UNCHANGED job
      BY <1>0, <2>4 DEF PullEnds, Goto, StepTyped
    <2>6. KnownOK(d)'
      BY <1>0, <1>1, <2>5 DEF KnownOK, InFlush, At
    <2> QED
      BY <1>0, <1>1, <2>5, <2>6 DEF Held
  <1> QED
    BY <1>2, <1>3

\* Every operation of a device, a crash excepted.
LEMMA KnownStep ==
  ASSUME TypeInv, NEW d \in Device, DeviceStep(d), NEW e \in Device, KnownOK(e)
  PROVE  KnownOK(e)' /\ (e \notin crashed' => Held(e) \subseteq Held(e)')
  <1>0. TypeOK /\ OwnInv /\ PagesOrdinary
    BY DEF TypeInv
  <1>1. CASE e # d
    BY <1>0, <1>1, KnownOther
  <1>2. CASE e = d /\ Crash(d)
    <2>1. Settle(d) /\ d \in crashed' /\ seen'[d] = {}
      BY <1>0, <1>2 DEF Crash, TypeOK
    <2> QED
      BY <1>0, <1>2, <2>1, KnownSettled
  <1>3. CASE e = d /\ ~Crash(d)
    BY <1>0, <1>3, KnownHost, KnownPull, KnownFlush, KnownCompact DEF DeviceStep, Fault
  <1> QED
    BY <1>1, <1>2, <1>3

\* The inductive invariant.
IncomingInv == (\A d \in Device : KnownOK(d)) /\ IncomingQueued

\* record: the operation of the call that returns is in the queue, or the
\* device knows it to be written.
LEMMA DoneHeld ==
  ASSUME TypeInv, \A d \in Device : KnownOK(d), NEW d \in Device, DeviceStep(d),
         NEW i \in done' \ done, ~i.own
  PROVE  i.op \in Held(i.dev)'
  <1>0. TypeOK /\ OwnInv /\ WaitTyped
    BY TypeParts DEF TypeInv
  <1>1. RecordQueue(d)
    <2>1. Sync(d) \/ Pull(d) => UNCHANGED done
      BY DEF Sync, Pull, ReadHead, ReadCheckpoint, ReadRows, LoadSummary, LoadSegment, AbsorbGet,
             AbsorbPut, CheckpointLoaded, OpenWaits, Open, PageDone, pastVars
    <2>2. Flush(d) \/ Write(d) => UNCHANGED done
      BY DEF Flush, Write, Take, AppendOp, FlushDone, FlushRefused, pastVars
    <2>3. AskHead(d) \/ Compact(d) => UNCHANGED done
      BY DEF AskHead, Compact, Due, Build, UploadSegment, UploadSummary, UploadRefused, CheckFrom,
             CheckRows, Commit, CommitRefused, pastVars
    <2>4. Fault(d) => UNCHANGED done
      BY DEF Fault, FlushFailed, CommitUnanswered, RequestFails, Crash, Lapse, pastVars
    <2>5. RecordGet(d) \/ RecordPut(d) => UNCHANGED done
      BY DEF RecordGet, RecordPut, pastVars
    <2> QED
      BY <2>1, <2>2, <2>3, <2>4, <2>5 DEF DeviceStep, Host
  <1>2. PICK r \in ui[d] :
          /\ incoming' = IF r.input.own \/ r.input.op \in seen[d] THEN incoming
                         ELSE [incoming EXCEPT ![d] = @ \cup {r.input.op}]
          /\ done' = done \cup {r.input}
    BY <1>1 DEF RecordQueue
  <1>3. i = r.input /\ i.dev = d
    BY <1>0, <1>2 DEF OwnInv
  <1>4. CASE i.op \in seen[d]
    BY <1>0, <1>3, <1>4, JournaledKept DEF KnownOK, Held
  <1>5. CASE i.op \notin seen[d]
    BY <1>0, <1>2, <1>3, <1>5 DEF WaitTyped, Held
  <1> QED
    BY <1>4, <1>5

\* One step.
LEMMA IncomingStep == TypeInv /\ IncomingInv /\ [Next]_vars => IncomingInv'
  <1> SUFFICES ASSUME TypeInv, IncomingInv, [Next]_vars PROVE IncomingInv'
    OBVIOUS
  <1>1. CASE UNCHANGED vars
    <2>1. UNCHANGED <<recs, seen, pc, ret, todo, job, incoming, done, crashed>>
      BY <1>1 DEF vars, historyVars, queueVars, workVars, pastVars, faultVars
    <2>2. Journaled' = Journaled
      BY <2>1 DEF Journaled, headSeq
    <2> QED
      BY <2>1, <2>2 DEF IncomingInv, IncomingQueued, KnownOK, InFlush, At
  <1>3. CASE \E o : Ages(o)
    <2>1. UNCHANGED <<recs, seen, pc, ret, todo, job, incoming, done, crashed>>
      BY <1>3 DEF Ages, historyVars, queueVars, workVars, faultVars
    <2>2. Journaled' = Journaled
      BY <2>1 DEF Journaled, headSeq
    <2> QED
      BY <2>1, <2>2 DEF IncomingInv, IncomingQueued, KnownOK, InFlush, At
  <1>2. CASE \E d \in Device : DeviceStep(d)
    <2>1. PICK d \in Device : DeviceStep(d)
      BY <1>2
    <2>2. \A e \in Device : KnownOK(e)' /\ (e \notin crashed' => Held(e) \subseteq Held(e)')
      BY <2>1, KnownStep DEF IncomingInv
    <2>3. ASSUME NEW i \in done', ~i.own, i.dev \notin crashed'
          PROVE  i.op \in Held(i.dev)'
      <3>1. CASE i \in done
        <4>1. i.dev \in Device
          BY <3>1, HistorySyncAssumption DEF TypeInv, TypeOK
        <4>2. i.dev \notin crashed
          <5>1. crashed \subseteq crashed'
            <6>1. CASE Fault(d)
              BY <6>1 DEF Fault, FlushFailed, CommitUnanswered, RequestFails, Crash, Lapse
            <6>2. CASE ~Fault(d)
              <7>1. UNCHANGED faultVars
                BY <2>1, <6>2 DEF DeviceStep, Host, RecordGet, RecordPut, RecordQueue, Sync, Pull,
                   ReadHead, ReadCheckpoint, ReadRows, LoadSummary, LoadSegment, AbsorbGet,
                   AbsorbPut, CheckpointLoaded, OpenWaits, Open, PageDone, Flush, Write, Take,
                   AppendOp, FlushDone, FlushRefused, AskHead, Compact, Due, Build, UploadSegment, UploadSummary,
                   UploadRefused, CheckFrom, CheckRows, Commit, CommitRefused
              <7> QED
                BY <7>1 DEF faultVars
            <6> QED
              BY <6>1, <6>2
          <5> QED
            BY <2>3, <5>1
        <4>3. i.op \in Held(i.dev)
          BY <2>3, <3>1, <4>2 DEF IncomingInv, IncomingQueued, Held
        <4> QED
          BY <2>2, <2>3, <4>1, <4>3
      <3>2. CASE i \notin done
        BY <2>1, <2>3, <3>2, DoneHeld DEF IncomingInv
      <3> QED
        BY <3>1, <3>2
    <2>4. IncomingQueued'
      BY <2>3 DEF IncomingQueued, Held
    <2> QED
      BY <2>2, <2>4 DEF IncomingInv
  <1> QED
    BY <1>1, <1>2, <1>3 DEF Next, DeviceStep

\* flushLocked for any queues, quota and faults: an operation that arrived is in
\* the queue or in the batch until the journal has it, as long as the process
\* lives.
THEOREM ArrivedOperationsQueued == Spec => []IncomingQueued
  <1>1. Init => IncomingInv
    BY DEF Init, IncomingInv, IncomingQueued, KnownOK, NoJob, At
  <1>2. IncomingInv => IncomingQueued
    BY DEF IncomingInv
  <1> QED
    BY <1>1, <1>2, IncomingStep, TypeInit, TypeStep, PTL DEF Spec

-----------------------------------------------------------------------------
(* Checkpoints                                                             *)

\* The operations of records, and the ordinary records after a number, of a
\* journal with records r and rows l.
OpsIn(r, S) == UNION {r[s].ops : s \in S}
OrdinaryAfter(r, l, n) == {s \in l : s > n /\ ~r[s].chunk}
Rest(r, l, n) == OpsIn(r, OrdinaryAfter(r, l, n))

\* What a new device is given of the journal when its checkpoint is k.
Given(r, l, k) == OpsIn(r, k.chunks) \cup Rest(r, l, k.upto)

\* What a worker has fetched and not merged yet.
InHand(t) == (UNION t.updates) \cup (UNION {m.ops : m \in t.merging})

Uploading == {"upload", "check", "recheck", "commit"}
Compacting == Uploading \cup {"due", "build"}

\* What a device has, or had and lost.
Has(d) == store[d] \cup lost[d]

\* A device with cursor n and S in its hands has what a new device would be
\* given, or its records are still to come.
Covered(r, l, k, n, S) == n >= k.upto => Given(r, l, k) \subseteq S \cup Rest(r, l, n)

\* The worker merges one state at a time, and what it has read of it is not
\* forgotten.
TodoOK(p, S, t) ==
  /\ p \notin {"segments", "absorb"} => t.updates = {} /\ t.merging = {}
  /\ \A m, o \in t.merging : m = o
  /\ \A m \in t.merging : m.prev \subseteq S

\* No ordinary record is between those of a page, but for lost ones (L).
PageWhole(r, l, n, L, pg) ==
  \A s \in OrdinaryAfter(r, l, Larger(n, pg.cp.upto)) \ pg.rows :
    \/ r[s].ops \subseteq L
    \/ (\A t \in pg.rows : t < s) /\ (~pg.more => pg.head < s)

\* pullLocked at step p: the page is whole, and what was fetched the device has
\* or it is in hand.
PullOK(r, l, k, p, n, S, L, pg, t) ==
  /\ p \in {"rows", "summary", "segments", "open", "absorb"} => pg.cp = k
  /\ p \in {"summary", "segments"} => n < k.upto
  /\ p \in {"open", "absorb"} => n >= k.upto
  /\ p = "segments" => OpsIn(r, k.chunks \ t.segs) \subseteq S \cup InHand(t)
  /\ p = "absorb" => OpsIn(r, pg.rows) \subseteq S \cup InHand(t)
  /\ p \in {"summary", "segments", "open", "absorb"} => PageWhole(r, l, n, L, pg)

\* buildCheckpointLocked at step p: what is written and what is still to be
\* uploaded the device has, and it replaces all that a new device would be
\* given up to the cursor, but for what is lost; before the commit no record
\* is between.
BuildOK(r, l, k, p, rt, n, S, L, j) ==
  /\ rt = "build" \/ p = "build" => j.cp = k /\ j.head >= k.upto
  /\ rt # "idle" => p \in Pulling \cup {"open", "absorb"}
  /\ p \in Uploading => /\ n >= k.upto
                        /\ Given(r, l, k) \subseteq OpsIn(r, j.keep) \cup (UNION j.up) \cup Rest(r, l, n) \cup L
                        /\ OpsIn(r, j.keep) \cup (UNION j.up) \subseteq S
                        /\ p # "upload" => j.up = {}
  /\ p = "recheck" => j.from = n
  /\ p = "commit" => \A s \in OrdinaryAfter(r, l, n) : s >= j.summary

\* Every number a device has noted is one of the journal.
PlacesOK(h, n, pg, j) ==
  /\ n <= h /\ pg.head <= h /\ pg.cp.upto <= h /\ pg.rows \subseteq 1..h
  /\ j.keep \subseteq 1..h /\ j.summary <= h

\* All of it, of the journal r, l, k and a device at step p.
CoverOK(r, l, k, p, rt, n, S, L, pg, t, j) ==
  /\ L \subseteq S
  /\ PlacesOK(Len(r), n, pg, j)
  /\ Covered(r, l, k, n, S)
  /\ TodoOK(p, S, t)
  /\ PullOK(r, l, k, p, n, S, L, pg, t)
  /\ BuildOK(r, l, k, p, rt, n, S, L, j)

CoverInv(c) == CoverOK(recs, live, cp, pc[c], ret[c], cursor[c], Has(c), lost[c],
                       page[c], todo[c], job[c])

\* The checkpoint is one of the journal.
CheckpointOK == /\ CheckpointAlive
                /\ cp.upto <= headSeq
                /\ cp.id = 0 => cp.upto = 0 /\ cp.chunks = {}

\* Only the devices that do so build checkpoints.
RoleOK(d) == d \notin scene.compactors => pc[d] \notin Compacting /\ ret[d] # "build"

CompactInv == /\ CheckpointOK
              /\ \A d \in Device : RoleOK(d)
              /\ Sole => \A c \in scene.compactors :
                           /\ Journaled \subseteq Given(recs, live, cp) \cup lost[c]
                           /\ CoverInv(c)

\* What a new device is given is in segments that are there, and after them.
LEMMA RecoverableIs ==
  ASSUME CheckpointOK, cp \in Checkpoint
  PROVE  /\ cp.chunks \subseteq live
         /\ Recoverable = Given(recs, live, cp)
         /\ \A n : After(n) = OrdinaryAfter(recs, live, n)
  <1>1. cp.chunks \subseteq live
    BY DEF CheckpointOK, CheckpointAlive, Checkpoint
  <1>2. UNION {Get(s) : s \in cp.chunks} = OpsIn(recs, cp.chunks)
    BY <1>1 DEF Get, OpsIn
  <1>3. \A n : After(n) = OrdinaryAfter(recs, live, n)
    BY DEF After, OrdinaryAfter
  <1>4. UNION {recs[s].ops : s \in After(cp.upto)} = OpsIn(recs, OrdinaryAfter(recs, live, cp.upto))
    BY <1>3 DEF OpsIn
  <1>5. Recoverable = Given(recs, live, cp)
    <2>1. Recoverable = OpsIn(recs, cp.chunks) \cup OpsIn(recs, OrdinaryAfter(recs, live, cp.upto))
      BY <1>2, <1>4, Zenon DEF Recoverable
    <2> QED
      BY <2>1, Zenon DEF Given, Rest
  <1> QED
    BY <1>1, <1>3, <1>5

\* A journal that has grown by record number h + 1.
Longer(r, l, h, r2, l2) == /\ h \in Nat /\ l \subseteq 1..h /\ l2 = l \cup {h + 1}
                           /\ \A s \in 1..h : r2[s] = r[s]

\* The records before it are as they were.
LEMMA OpsStay ==
  ASSUME NEW r, NEW l, NEW h, NEW r2, NEW l2, Longer(r, l, h, r2, l2),
         NEW S, S \subseteq 1..h
  PROVE  OpsIn(r2, S) = OpsIn(r, S)
  BY DEF Longer, OpsIn

\* It comes after every number before it.
LEMMA AfterGrows ==
  ASSUME NEW r, NEW l, NEW h, NEW r2, NEW l2, Longer(r, l, h, r2, l2),
         NEW n \in Nat, n <= h
  PROVE  /\ OrdinaryAfter(r, l, n) \subseteq 1..h
         /\ r2[h + 1].chunk => OrdinaryAfter(r2, l2, n) = OrdinaryAfter(r, l, n)
         /\ ~r2[h + 1].chunk => OrdinaryAfter(r2, l2, n) = OrdinaryAfter(r, l, n) \cup {h + 1}
  <1>1. h \in Nat /\ l \subseteq 1..h /\ l2 = l \cup {h + 1} /\ \A s \in 1..h : r2[s] = r[s]
    BY DEF Longer
  <1>2. h + 1 > n /\ h + 1 \notin l
    BY <1>1
  <1>3. \A s \in l : r2[s] = r[s]
    BY <1>1
  <1> QED
    BY <1>1, <1>2, <1>3 DEF OrdinaryAfter

\* So it is given to every device.
LEMMA RestGrows ==
  ASSUME NEW r, NEW l, NEW h, NEW r2, NEW l2, Longer(r, l, h, r2, l2),
         NEW n \in Nat, n <= h
  PROVE  Rest(r2, l2, n) = Rest(r, l, n) \cup (IF r2[h + 1].chunk THEN {} ELSE r2[h + 1].ops)
  <1>1. /\ OrdinaryAfter(r, l, n) \subseteq 1..h
        /\ r2[h + 1].chunk => OrdinaryAfter(r2, l2, n) = OrdinaryAfter(r, l, n)
        /\ ~r2[h + 1].chunk => OrdinaryAfter(r2, l2, n) = OrdinaryAfter(r, l, n) \cup {h + 1}
    BY AfterGrows
  <1>2. OpsIn(r2, OrdinaryAfter(r, l, n)) = OpsIn(r, OrdinaryAfter(r, l, n))
    BY <1>1, OpsStay
  <1>3. OpsIn(r2, OrdinaryAfter(r, l, n) \cup {h + 1})
          = OpsIn(r2, OrdinaryAfter(r, l, n)) \cup r2[h + 1].ops
    BY DEF OpsIn
  <1> QED
    BY <1>1, <1>2, <1>3 DEF Rest

\* And to a new one.
LEMMA GivenGrows ==
  ASSUME NEW r, NEW l, NEW h, NEW r2, NEW l2, Longer(r, l, h, r2, l2),
         NEW k, k.upto \in Nat, k.upto <= h, k.chunks \subseteq 1..h
  PROVE  Given(r2, l2, k) = Given(r, l, k) \cup (IF r2[h + 1].chunk THEN {} ELSE r2[h + 1].ops)
  <1>1. OpsIn(r2, k.chunks) = OpsIn(r, k.chunks)
    BY OpsStay
  <1>2. Rest(r2, l2, k.upto) = Rest(r, l, k.upto) \cup (IF r2[h + 1].chunk THEN {} ELSE r2[h + 1].ops)
    BY RestGrows
  <1> QED
    BY <1>1, <1>2 DEF Given

\* What the argument uses of the types of a journal and of a device.
JournalTyped(r, l, k) == /\ r \in Seq(Record) /\ l \subseteq 1..Len(r) /\ k \in Checkpoint
                         /\ k.upto <= Len(r) /\ k.chunks \subseteq l
DeviceTyped(n, pg, t, j) == /\ n \in Positions /\ pg \in PageType
                            /\ t \in TodoType /\ j \in JobType

\* A new record makes nothing incomplete: it comes after all that a device has
\* noted.
LEMMA CoverGrows ==
  ASSUME NEW r, NEW l, NEW k, NEW r2, NEW l2, JournalTyped(r, l, k),
         Longer(r, l, Len(r), r2, l2), Len(r2) = Len(r) + 1,
         NEW p, NEW rt, NEW n, NEW S, NEW L, NEW pg, NEW t, NEW j, DeviceTyped(n, pg, t, j),
         CoverOK(r, l, k, p, rt, n, S, L, pg, t, j)
  PROVE  CoverOK(r2, l2, k, p, rt, n, S, L, pg, t, j)
  <1> DEFINE h == Len(r)
             new == IF r2[h + 1].chunk THEN {} ELSE r2[h + 1].ops
  <1>1. /\ h \in Nat /\ n \in Nat /\ n <= h /\ k.upto \in Nat /\ k.upto <= h
        /\ k.chunks \subseteq 1..h /\ pg.head \in Nat /\ pg.head <= h
        /\ pg.cp.upto \in Nat /\ pg.cp.upto <= h /\ pg.rows \subseteq 1..h
        /\ j.keep \subseteq 1..h /\ j.summary \in Nat /\ j.summary <= h
    <2>1. h \in Nat /\ k.upto \in Nat /\ k.upto <= h /\ k.chunks \subseteq 1..h
      <3>1. h \in Nat
        BY LenProperties DEF JournalTyped
      <3> HIDE DEF h
      <3>2. k \in Checkpoint /\ k.upto <= h /\ k.chunks \subseteq 1..h
        BY DEF JournalTyped, h
      <3> QED
        BY Sizes, <3>1, <3>2 DEF Checkpoint, Positions
    <2>2. n \in Nat /\ pg.head \in Nat /\ pg.cp.upto \in Nat /\ j.summary \in Nat
      BY Sizes DEF DeviceTyped, Positions, PageType, JobType, Checkpoint
    <2>3. PlacesOK(h, n, pg, j)
      BY DEF CoverOK
    <2> HIDE DEF h
    <2> QED
      BY <2>1, <2>2, <2>3 DEF PlacesOK
  <1>2. Longer(r, l, h, r2, l2) /\ Len(r2) = h + 1
    OBVIOUS
  <1>3. PlacesOK(Len(r2), n, pg, j)
    <2> HIDE DEF h
    <2> QED
      BY <1>1, <1>2 DEF PlacesOK
  <1> HIDE DEF h, new
  <1>4. /\ Rest(r2, l2, n) = Rest(r, l, n) \cup new
        /\ Given(r2, l2, k) = Given(r, l, k) \cup new
    BY <1>1, <1>2, RestGrows, GivenGrows DEF new
  <1>5. \A s \in OrdinaryAfter(r2, l2, n) : s \in OrdinaryAfter(r, l, n) \/ s = h + 1
    BY <1>1, <1>2, AfterGrows
  <1>6. Covered(r2, l2, k, n, S)
    BY <1>4 DEF CoverOK, Covered
  <1>7. TodoOK(p, S, t)
    BY DEF CoverOK
  <1>8. PageWhole(r, l, n, L, pg) => PageWhole(r2, l2, n, L, pg)
    <2> DEFINE m == Larger(n, pg.cp.upto)
    <2>1. m \in Nat /\ m <= h
      BY <1>1 DEF Larger
    <2> HIDE DEF m
    <2>2. \A s \in OrdinaryAfter(r2, l2, m) : s \in OrdinaryAfter(r, l, m) \/ s = h + 1
      BY <1>2, <2>1, AfterGrows
    <2>4. \A s \in OrdinaryAfter(r, l, m) : r2[s] = r[s]
      BY <1>2, <2>1, AfterGrows DEF Longer
    <2>3. (\A s \in pg.rows : s < h + 1) /\ pg.head < h + 1
      BY <1>1
    <2> QED
      BY <2>2, <2>3, <2>4 DEF PageWhole, m
  <1>9. PullOK(r2, l2, k, p, n, S, L, pg, t)
    <2>1. OpsIn(r2, k.chunks \ t.segs) = OpsIn(r, k.chunks \ t.segs)
      BY <1>1, <1>2, OpsStay
    <2>2. OpsIn(r2, pg.rows) = OpsIn(r, pg.rows)
      BY <1>1, <1>2, OpsStay
    <2> QED
      BY <1>8, <2>1, <2>2 DEF CoverOK, PullOK
  <1>10. BuildOK(r2, l2, k, p, rt, n, S, L, j)
    <2>1. OpsIn(r2, j.keep) = OpsIn(r, j.keep)
      BY <1>1, <1>2, OpsStay
    <2>2. h + 1 >= j.summary
      BY <1>1
    <2>3. BuildOK(r, l, k, p, rt, n, S, L, j)
      BY DEF CoverOK
    <2>4. p = "commit" => \A s \in OrdinaryAfter(r2, l2, n) : s >= j.summary
      BY <1>5, <2>2, <2>3 DEF BuildOK
    <2>5. p \in Uploading =>
            Given(r2, l2, k) \subseteq OpsIn(r2, j.keep) \cup (UNION j.up) \cup Rest(r2, l2, n) \cup L
      <3>1. p \in Uploading =>
              Given(r, l, k) \subseteq OpsIn(r, j.keep) \cup (UNION j.up) \cup Rest(r, l, n) \cup L
        BY <2>3 DEF BuildOK
      <3> QED
        BY <1>4, <2>1, <3>1
    <2> QED
      BY <2>1, <2>3, <2>4, <2>5 DEF BuildOK
  <1> QED
    BY <1>3, <1>6, <1>7, <1>9, <1>10 DEF CoverOK

\* Nor does a device that has more.
LEMMA CoverStore ==
  ASSUME NEW r, NEW l, NEW k, NEW p, NEW rt, NEW n, NEW S, NEW L, NEW pg, NEW t, NEW j,
         CoverOK(r, l, k, p, rt, n, S, L, pg, t, j), NEW S2, S \subseteq S2,
         NEW L2, L \subseteq L2, L2 \subseteq S2
  PROVE  CoverOK(r, l, k, p, rt, n, S2, L2, pg, t, j)
  <1>1. Covered(r, l, k, n, S2)
    BY DEF CoverOK, Covered
  <1>2. TodoOK(p, S2, t)
    BY DEF CoverOK, TodoOK
  <1>3. PageWhole(r, l, n, L, pg) => PageWhole(r, l, n, L2, pg)
    BY DEF PageWhole
  <1>4. PullOK(r, l, k, p, n, S2, L2, pg, t)
    BY <1>3 DEF CoverOK, PullOK
  <1>5. BuildOK(r, l, k, p, rt, n, S2, L2, j)
    BY DEF CoverOK, BuildOK
  <1> QED
    BY <1>1, <1>2, <1>4, <1>5 DEF CoverOK

\* Between two network operations only what the device has matters.
LEMMA CoverIdle ==
  ASSUME NEW r, NEW l, NEW k, NEW n, NEW S, Covered(r, l, k, n, S),
         NEW L, L \subseteq S, Len(r) \in Nat, n <= Len(r)
  PROVE  CoverOK(r, l, k, "idle", "idle", n, S, L, NoPage, NoTodo, NoJob)
  <1>1. PlacesOK(Len(r), n, NoPage, NoJob)
    BY DEF PlacesOK, NoPage, NoJob, NoCheckpoint
  <1>2. TodoOK("idle", S, NoTodo)
    BY DEF TodoOK, NoTodo
  <1>3. PullOK(r, l, k, "idle", n, S, L, NoPage, NoTodo)
    BY DEF PullOK
  <1>4. BuildOK(r, l, k, "idle", "idle", n, S, L, NoJob)
    BY DEF BuildOK, Uploading
  <1> QED
    BY <1>1, <1>2, <1>3, <1>4 DEF CoverOK

\* applyToStore: what is undone is lost, so that nothing is forgotten.
LEMMA PutGrows ==
  ASSUME TypeOK, NEW d \in Device, NEW prev, NEW ops \in SUBSET Op,
         PutState(d, prev, ops)
  PROVE  /\ Has(d) \subseteq Has(d)' /\ lost[d] \subseteq lost'[d]
         /\ prev \subseteq Has(d) => ops \subseteq Has(d)'
  <1>1. store \in [Device -> SUBSET Op] /\ lost \in [Device -> SUBSET Op]
    BY DEF TypeOK
  <1>2. CASE ops \subseteq prev
    BY <1>2 DEF PutState, Has
  <1>3. CASE ~(ops \subseteq prev)
    <2>1. /\ store'[d] = (store[d] \ Sharing(ops)) \cup prev \cup ops
          /\ lost'[d] = lost[d] \cup (StateOf(d, ops) \ (prev \cup ops))
      BY <1>1, <1>3 DEF PutState
    <2> QED
      BY <2>1 DEF Has, StateOf
  <1> QED
    BY <1>2, <1>3

\* The journal and a device are as typed.
LEMMA CoverTyped ==
  ASSUME TypeInv, CheckpointOK, NEW c \in Device
  PROVE  /\ JournalTyped(recs, live, cp)
         /\ DeviceTyped(cursor[c], page[c], todo[c], job[c])
  <1>1. ServerTyped /\ RowsTyped /\ PageTyped /\ TodoTyped /\ JobTyped
    BY TypeParts DEF TypeInv
  <1>2. cp.chunks \subseteq live
    BY <1>1, RecoverableIs DEF ServerTyped
  <1>3. JournalTyped(recs, live, cp)
    BY <1>1, <1>2 DEF ServerTyped, JournalTyped, CheckpointOK, headSeq
  <1>4. DeviceTyped(cursor[c], page[c], todo[c], job[c])
    BY <1>1 DEF RowsTyped, PageTyped, TodoTyped, JobTyped, DeviceTyped
  <1> QED
    BY <1>3, <1>4

\* record(): what the host's thread takes out of the store is lost.
LEMMA CoverHost ==
  ASSUME TypeInv, NEW c \in Device, CoverInv(c), Host(c) \/ Lapse(c)
  PROVE  CoverInv(c)'
  <1>0. TypeOK /\ PastTyped
    BY TypeParts DEF TypeInv
  <1>1. UNCHANGED <<recs, live, cp, pc, ret, cursor, page, todo, job>>
    BY DEF Host, RecordGet, RecordPut, RecordQueue, Lapse, historyVars, rowVars, workVars
  <1>2. Has(c) \subseteq Has(c)' /\ lost[c] \subseteq lost'[c]
    <2>1. CASE RecordPut(c)
      <3>1. PICK r \in ui[c] : PutState(c, r.prev, {r.input.op})
        BY <2>1 DEF RecordPut
      <3>2. r.input.op \in Op
        BY <1>0, HistorySyncAssumption DEF PastTyped, Calls
      <3> QED
        BY <1>0, <3>1, <3>2, PutGrows
    <2>2. CASE RecordGet(c) \/ RecordQueue(c) \/ Lapse(c)
      BY <2>2 DEF RecordGet, RecordQueue, Lapse, rowVars, pastVars, Has
    <2> QED
      BY <2>1, <2>2 DEF Host
  <1>3. lost'[c] \subseteq Has(c)'
    BY DEF Has
  <1> QED
    BY <1>1, <1>2, <1>3, CoverStore DEF CoverInv

\* No row is left out between those of a page, and none after them when there
\* is no other page.
LEMMA PagePrefix ==
  ASSUME ServerTyped, NEW n
  PROVE  /\ Page(n) \subseteq After(n) /\ After(n) \subseteq live
         /\ \A s \in After(n) \ Page(n) : \A t \in Page(n) : t < s
         /\ ~More(n) => Page(n) = After(n)
  <1>1. Page(n) \subseteq After(n) /\ After(n) \subseteq live /\ (~More(n) => Page(n) = After(n))
    BY DEF Page, After, More
  <1>2. ASSUME NEW s \in After(n) \ Page(n), NEW t \in Page(n), ~(t < s)
        PROVE  FALSE
    <2> DEFINE before(x) == {y \in After(n) : y < x}
    <2>1. headSeq \in Nat /\ live \subseteq 1..headSeq
      BY LenProperties DEF ServerTyped, headSeq
    <2>2. IsFiniteSet(before(t)) /\ before(s) \subseteq before(t)
      <3>1. IsFiniteSet(1..headSeq)
        BY <2>1, FS_Interval
      <3>2. After(n) \subseteq Int /\ After(n) \subseteq 1..headSeq
        <4>1. After(n) \subseteq 1..headSeq
          BY <1>1, <2>1, Zenon
        <4> QED
          BY <2>1, <4>1
      <3>3. s \in Int /\ t \in Int
        BY <1>1, <1>2, <3>2
      <3>4. \A y \in After(n) : y < s => y < t
        BY <1>2, <3>2, <3>3
      <3>5. before(t) \subseteq 1..headSeq
        BY <3>2
      <3>6. IsFiniteSet(before(t))
        BY <3>1, <3>5, FS_Subset
      <3> QED
        BY <3>4, <3>6
    <2>3. /\ Cardinality(before(s)) \in Nat /\ Cardinality(before(t)) \in Nat
          /\ Cardinality(before(s)) <= Cardinality(before(t))
      BY <2>2, FS_Subset, FS_CardinalityType
    <2>4. Cardinality(before(t)) < PAGE_ITEMS /\ ~(Cardinality(before(s)) < PAGE_ITEMS)
      BY <1>1, <1>2 DEF Page
    <2> QED
      BY <2>3, <2>4, Sizes
  <1> QED
    BY <1>1, <1>2

\* The first row after a number is on the page.
LEMMA PageFirst ==
  ASSUME ServerTyped, NEW n, NEW s \in After(n)
  PROVE  \E t \in Page(n) : t <= s
  <1>1. headSeq \in Nat /\ After(n) \subseteq 1..headSeq
    BY LenProperties DEF ServerTyped, headSeq, After
  <1>2. PICK t \in After(n) : \A y \in After(n) : ~(y < t)
    <2>1. After(n) \subseteq Nat /\ After(n) # {}
      BY <1>1
    <2> DEFINE R == OpToRel(<, Nat)
    <2>2. PICK t \in After(n) : \A y \in After(n) : ~(<<y, t>> \in R)
      BY <2>1, NatLessThanWellFounded, WFMin
    <2> QED
      BY <2>1, <2>2 DEF OpToRel
  <1>3. {y \in After(n) : y < t} = {}
    BY <1>2
  <1>4. t \in Page(n)
    BY <1>2, <1>3, Sizes, FS_EmptySet DEF Page
  <1>5. t <= s
    BY <1>1, <1>2
  <1> QED
    BY <1>4, <1>5

\* history.sync: the page is whole.
LEMMA CoverRead ==
  ASSUME TypeInv, CheckpointOK, NEW c \in Device, CoverInv(c),
         Sync(c) \/ ReadHead(c) \/ ReadCheckpoint(c) \/ ReadRows(c)
  PROVE  CoverInv(c)'
  <1> DEFINE n == cursor[c]
             pg == page[c]
             t == todo[c]
             pg2 == page'[c]
             t2 == todo'[c]
  <1>0. ServerTyped /\ RowsTyped /\ StepTyped /\ PageTyped /\ TodoTyped
    BY TypeParts DEF TypeInv
  <1>1. UNCHANGED <<recs, live, cp, cursor, store, lost, ret, job>>
    BY DEF Sync, ReadHead, ReadCheckpoint, ReadRows, historyVars, rowVars, pastVars
  <1>2. CoverOK(recs, live, cp, pc[c], ret[c], n, Has(c), lost[c], pg, t, job[c])
    BY DEF CoverInv
  <1>3. SUFFICES CoverOK(recs, live, cp, pc'[c], ret[c], n, Has(c), lost[c], pg2, t2, job[c])
    BY <1>1 DEF CoverInv, Has
  <1>4. headSeq \in Nat /\ cp.upto \in Nat /\ cp.upto <= headSeq /\ n \in Nat /\ n <= headSeq
    BY <1>0, <1>2, Sizes, LenProperties
       DEF ServerTyped, RowsTyped, headSeq, Checkpoint, Positions, CheckpointOK, CoverOK, PlacesOK
  <1>5. CASE Sync(c) \/ ReadHead(c)
    <2>1. /\ pc'[c] \in {"head", "cp"} /\ t2 = t /\ pc[c] \in {"idle", "head"}
          /\ \/ pg2 = pg /\ pc[c] = "idle" 
             \/ pg2 = [pg EXCEPT !.head = headSeq] /\ pc[c] = "head"
      BY <1>0, <1>5 DEF Sync, ReadHead, At, Goto, StepTyped, PageTyped
    <2>2. pg2.head <= headSeq /\ pg2.cp = pg.cp /\ pg2.rows = pg.rows
      BY <1>0, <1>2, <1>4, <2>1 DEF PageTyped, PageType, CoverOK, PlacesOK, headSeq
    <2> HIDE DEF n, pg, t, pg2, t2
    <2>3. PlacesOK(Len(recs), n, pg2, job[c])
      BY <1>2, <2>2 DEF CoverOK, PlacesOK, headSeq
    <2>4. TodoOK(pc'[c], Has(c), t2)
      BY <1>2, <2>1 DEF CoverOK, TodoOK
    <2>5. PullOK(recs, live, cp, pc'[c], n, Has(c), lost[c], pg2, t2)
      BY <2>1 DEF PullOK
    <2>6. BuildOK(recs, live, cp, pc'[c], ret[c], n, Has(c), lost[c], job[c])
      BY <1>2, <2>1 DEF CoverOK, BuildOK, Pulling, Uploading
    <2> QED
      BY <1>2, <2>3, <2>4, <2>5, <2>6 DEF CoverOK
  <1>6. CASE ReadCheckpoint(c)
    <2>1. pc'[c] = "rows" /\ pc[c] = "cp" /\ t2 = t /\ pg2 = [pg EXCEPT !.cp = cp]
      BY <1>0, <1>6 DEF ReadCheckpoint, At, Goto, StepTyped, PageTyped
    <2>2. pg2.cp = cp /\ pg2.head = pg.head /\ pg2.rows = pg.rows
      BY <1>0, <2>1 DEF PageTyped, PageType
    <2> HIDE DEF n, pg, t, pg2, t2
    <2>3. PlacesOK(Len(recs), n, pg2, job[c])
      BY <1>2, <1>4, <2>2 DEF CoverOK, PlacesOK, headSeq
    <2>4. TodoOK(pc'[c], Has(c), t2)
      BY <1>2, <2>1 DEF CoverOK, TodoOK
    <2>5. PullOK(recs, live, cp, pc'[c], n, Has(c), lost[c], pg2, t2)
      BY <2>1, <2>2 DEF PullOK
    <2>6. BuildOK(recs, live, cp, pc'[c], ret[c], n, Has(c), lost[c], job[c])
      BY <1>2, <2>1 DEF CoverOK, BuildOK, Pulling, Uploading
    <2> QED
      BY <1>2, <2>3, <2>4, <2>5, <2>6 DEF CoverOK
  <1>7. CASE ReadRows(c)
    <2> DEFINE from == Larger(n, cp.upto)
    <2>1. pc[c] = "rows" /\ pg.cp = cp
      BY <1>2, <1>7 DEF ReadRows, At, CoverOK, PullOK
    <2>2. From(c) = from /\ (Compacted(c) <=> n < cp.upto)
      BY <2>1 DEF From, Compacted
    <2>3. /\ pg2 = [pg EXCEPT !.rows = Page(from), !.more = More(from)]
          /\ \/ n < cp.upto /\ pc'[c] = "summary"
             \/ ~(n < cp.upto) /\ pc'[c] = "open"
          /\ t2 = t
      BY <1>0, <1>7, <2>2 DEF ReadRows, Goto, StepTyped, PageTyped
    <2>4. pg2.cp = cp /\ pg2.head = pg.head /\ pg2.rows = Page(from) /\ pg2.more = More(from)
      BY <1>0, <2>1, <2>3 DEF PageTyped, PageType
    <2>5. /\ Page(from) \subseteq After(from) /\ After(from) \subseteq 1..headSeq
          /\ \A s \in After(from) \ Page(from) : \A x \in Page(from) : x < s
          /\ ~More(from) => Page(from) = After(from)
          /\ After(from) = OrdinaryAfter(recs, live, from)
      BY <1>0, PagePrefix DEF ServerTyped, After, OrdinaryAfter
    <2>6. t.updates = {} /\ t.merging = {}
      BY <1>2, <2>1 DEF CoverOK, TodoOK
    <2> HIDE DEF n, pg, t, pg2, t2
    <2>8. PageWhole(recs, live, n, lost[c], pg2)
      BY <2>4, <2>5 DEF PageWhole
    <2> HIDE DEF from
    <2>9. PlacesOK(Len(recs), n, pg2, job[c])
      BY <1>2, <1>4, <2>4, <2>5 DEF CoverOK, PlacesOK, headSeq
    <2>10. TodoOK(pc'[c], Has(c), t2)
      BY <2>3, <2>6 DEF TodoOK
    <2>11. PullOK(recs, live, cp, pc'[c], n, Has(c), lost[c], pg2, t2)
      BY <1>4, <2>3, <2>4, <2>8 DEF PullOK
    <2>12. BuildOK(recs, live, cp, pc'[c], ret[c], n, Has(c), lost[c], job[c])
      BY <1>2, <2>1, <2>3 DEF CoverOK, BuildOK, Pulling, Uploading
    <2> QED
      BY <1>2, <2>9, <2>10, <2>11, <2>12 DEF CoverOK
  <1> QED
    BY <1>5, <1>6, <1>7

\* loadCheckpointLocked: what of the segments is not still to be fetched the
\* device has, or it is in hand, also when the history was replaced first.
LEMMA CoverLoad ==
  ASSUME TypeInv, CheckpointOK, NEW c \in Device, CoverInv(c),
         LoadSummary(c) \/ LoadSegment(c) \/ CheckpointLoaded(c)
  PROVE  CoverInv(c)'
  <1> DEFINE n == cursor[c]
             S == Has(c)
             S2 == Has(c)'
             L == lost[c]
             L2 == lost'[c]
             pg == page[c]
             t == todo[c]
             t2 == todo'[c]
  <1>0. ServerTyped /\ RowsTyped /\ StepTyped /\ PageTyped /\ TodoTyped /\ PastTyped
    BY TypeParts DEF TypeInv
  <1>1. UNCHANGED <<recs, live, cp, ret, page, job>>
    BY DEF LoadSummary, LoadSegment, CheckpointLoaded, historyVars
  <1>2. L \subseteq S /\ CoverOK(recs, live, cp, pc[c], ret[c], n, S, L, pg, t, job[c])
    BY DEF CoverInv, Has
  <1>3. SUFFICES CoverOK(recs, live, cp, pc'[c], ret[c], cursor'[c], S2, L2, pg, t2, job[c])
    BY <1>1 DEF CoverInv
  <1>4. pc[c] \in {"summary", "segments"}
    BY DEF LoadSummary, LoadSegment, CheckpointLoaded, At
  <1>5. pg.cp = cp /\ n < cp.upto /\ PageWhole(recs, live, n, L, pg)
    BY <1>2, <1>4 DEF CoverOK, PullOK
  <1>6. n \in Nat /\ cp.upto \in Nat /\ cp.upto <= Len(recs) /\ cp.chunks \subseteq live
    BY <1>0, Sizes, RecoverableIs
       DEF ServerTyped, RowsTyped, Checkpoint, Positions, CheckpointOK, headSeq
  <1>7. CASE LoadSummary(c)
    <2>1. /\ pc[c] = "summary" /\ pc'[c] = "segments" /\ cursor'[c] = n
          /\ t2 = [t EXCEPT !.segs = cp.chunks] /\ L2 = L /\ L2 \subseteq S2
      BY <1>0, <1>5, <1>7 DEF LoadSummary, At, Goto, StepTyped, TodoTyped, pastVars, Has
    <2>2. t2.updates = {} /\ t2.merging = {} /\ t2.segs = cp.chunks
      BY <1>0, <1>2, <2>1 DEF TodoTyped, TodoType, CoverOK, TodoOK
    <2>3. OpsIn(recs, cp.chunks \ t2.segs) = {}
      BY <2>2 DEF OpsIn
    <2> HIDE DEF n, S, S2, L, L2, pg, t, t2
    <2>4. Covered(recs, live, cp, n, S2)
      BY <1>5, <1>6 DEF Covered
    <2>5. TodoOK(pc'[c], S2, t2)
      BY <2>2 DEF TodoOK
    <2>6. PullOK(recs, live, cp, pc'[c], n, S2, L2, pg, t2)
      BY <1>5, <2>1, <2>3 DEF PullOK
    <2>7. BuildOK(recs, live, cp, pc'[c], ret[c], n, S2, L2, job[c])
      BY <1>2, <2>1 DEF CoverOK, BuildOK, Pulling, Uploading
    <2> QED
      BY <1>2, <2>1, <2>4, <2>5, <2>6, <2>7 DEF CoverOK
  <1>8. CASE LoadSegment(c)
    <2>1. PICK s \in t.segs, opens \in Opens(c) :
            /\ todo' = [todo EXCEPT ![c].segs = @ \ {s},
                         ![c].updates = IF s \in live /\ opens THEN {recs[s].ops} ELSE {}]
            /\ lost' = IF s \in live /\ ~opens THEN [lost EXCEPT ![c] = @ \cup recs[s].ops]
                       ELSE lost
      BY <1>8 DEF LoadSegment
    <2>2. /\ pc[c] = "segments" /\ pc'[c] = pc[c] /\ cursor'[c] = n /\ store'[c] = store[c]
          /\ t.updates = {} /\ t.merging = {}
      BY <1>8 DEF LoadSegment, Merged, At, rowVars
    <2>3. /\ t2.segs = t.segs \ {s} /\ t2.merging = {}
          /\ t2.updates = IF s \in live /\ opens THEN {recs[s].ops} ELSE {}
      BY <1>0, <2>1, <2>2 DEF TodoTyped, TodoType
    <2>4. OpsIn(recs, cp.chunks \ t.segs) \subseteq S
      BY <1>2, <2>2 DEF CoverOK, PullOK, InHand
    <2>8. L \subseteq L2 /\ (s \in live /\ ~opens => recs[s].ops \subseteq L2)
      BY <1>0, <2>1 DEF PastTyped
    <2>9. S \subseteq S2 /\ L2 \subseteq S2
      BY <2>2, <2>8 DEF Has
    <2> HIDE DEF n, S, S2, L, L2, pg, t, t2
    <2>5. OpsIn(recs, cp.chunks \ t2.segs) \subseteq S2 \cup InHand(t2)
      <3>1. s \in cp.chunks => recs[s].ops \subseteq S2 \cup InHand(t2)
        BY <1>6, <2>3, <2>8, <2>9 DEF InHand
      <3>2. cp.chunks \ t2.segs \subseteq (cp.chunks \ t.segs) \cup ({s} \cap cp.chunks)
        BY <2>3
      <3> QED
        BY <2>4, <2>9, <3>1, <3>2 DEF OpsIn
    <2>10. CoverOK(recs, live, cp, pc[c], ret[c], n, S2, L2, pg, t, job[c])
      BY <1>2, <2>8, <2>9, CoverStore
    <2>6. TodoOK(pc'[c], S2, t2)
      BY <2>2, <2>3 DEF TodoOK
    <2>7. PullOK(recs, live, cp, pc'[c], n, S2, L2, pg, t2)
      BY <2>2, <2>5, <2>10 DEF CoverOK, PullOK
    <2> QED
      BY <2>2, <2>6, <2>7, <2>10 DEF CoverOK
  <1>9. CASE CheckpointLoaded(c)
    <2>1. /\ pc[c] = "segments" /\ pc'[c] = "open" /\ S2 = S /\ L2 = L
          /\ cursor'[c] = Larger(n, pg.cp.upto)
          /\ t.updates = {} /\ t.merging = {} /\ t.segs = {} /\ t2 = t
      BY <1>0, <1>9 DEF CheckpointLoaded, Merged, At, Goto, StepTyped, RowsTyped, pastVars, Has
    <2>2. cursor'[c] = cp.upto
      BY <1>5, <1>6, <2>1 DEF Larger
    <2>4. OpsIn(recs, cp.chunks) \subseteq S
      <3>1. OpsIn(recs, cp.chunks \ t.segs) \subseteq S \cup InHand(t)
        BY <1>2, <2>1 DEF CoverOK, PullOK
      <3>2. InHand(t) = {} /\ cp.chunks \ t.segs = cp.chunks
        BY <2>1 DEF InHand
      <3> QED
        BY <3>1, <3>2
    <2> HIDE DEF n, S, S2, L, L2, pg, t, t2
    <2>5. Covered(recs, live, cp, cp.upto, S)
      BY <2>4 DEF Covered, Given
    <2>6. TodoOK("open", S, t2)
      BY <2>1 DEF TodoOK
    <2>7. PageWhole(recs, live, cp.upto, L, pg)
      BY <1>5, <1>6 DEF PageWhole, Larger
    <2>9. PullOK(recs, live, cp, "open", cp.upto, S, L, pg, t2)
      BY <1>5, <1>6, <2>7 DEF PullOK
    <2>10. BuildOK(recs, live, cp, "open", ret[c], cp.upto, S, L, job[c])
      BY <1>2, <2>1 DEF CoverOK, BuildOK, Pulling, Uploading
    <2>11. PlacesOK(Len(recs), cp.upto, pg, job[c])
      BY <1>2, <1>6 DEF CoverOK, PlacesOK
    <2> QED
      BY <1>2, <2>1, <2>2, <2>5, <2>6, <2>9, <2>10, <2>11 DEF CoverOK
  <1> QED
    BY <1>7, <1>8, <1>9

\* pullLocked: of the records that do not open those that will be passed are
\* lost, the others come again.
LEMMA CoverOpen ==
  ASSUME TypeInv, NEW c \in Device, CoverInv(c), Open(c)
  PROVE  CoverInv(c)'
  <1> DEFINE n == cursor[c]
             S == Has(c)
             S2 == Has(c)'
             L == lost[c]
             L2 == lost'[c]
             pg == page[c]
             pg2 == page'[c]
             t == todo[c]
             t2 == todo'[c]
  <1>0. ServerTyped /\ StepTyped /\ PageTyped /\ TodoTyped /\ PastTyped /\ PagesOrdinary
    BY TypeParts DEF TypeInv
  <1>1. UNCHANGED <<recs, live, cp, cursor, store, ret, job>>
    BY DEF Open, historyVars
  <1>2. CoverOK(recs, live, cp, pc[c], ret[c], n, S, L, pg, t, job[c])
    BY DEF CoverInv
  <1>3. pc[c] = "open" /\ pc'[c] = "absorb"
    BY <1>0 DEF Open, At, Goto, StepTyped
  <1>4. PICK bad \in SUBSET pg.rows :
          /\ page' = [page EXCEPT ![c].rows = pg.rows \ bad]
          /\ todo' = [todo EXCEPT ![c].updates = Brought(pg.rows \ bad)]
          /\ lost' = [lost EXCEPT ![c] = @ \cup
               UNION Brought({s \in bad : ~pg.more \/ \E x \in pg.rows \ bad : s < x})]
    <2>1. \A b \in Unopened(c, pg.rows) : b \in SUBSET pg.rows
      BY DEF Unopened
    <2> QED
      BY <2>1 DEF Open
  <1> DEFINE opened == pg.rows \ bad
             passed == {s \in bad : ~pg.more \/ \E x \in opened : s < x}
  <1>5. t.updates = {} /\ t.merging = {}
    BY <1>2, <1>3 DEF CoverOK, TodoOK
  <1>6. /\ pg2.rows = opened /\ pg2.more = pg.more /\ pg2.head = pg.head /\ pg2.cp = pg.cp
        /\ t2.updates = Brought(opened) /\ t2.merging = {}
        /\ L2 = L \cup UNION Brought(passed)
    BY <1>0, <1>4, <1>5 DEF PageTyped, PageType, TodoTyped, TodoType, PastTyped
  <1>7. S \subseteq S2 /\ L \subseteq L2 /\ L2 \subseteq S2
    BY <1>1, <1>6 DEF Has
  <1>8. pg.rows \subseteq Int
    BY <1>0, LenProperties DEF PagesOrdinary, ServerTyped, headSeq
  <1>9. SUFFICES CoverOK(recs, live, cp, "absorb", ret[c], n, S2, L2, pg2, t2, job[c])
    BY <1>1, <1>3 DEF CoverInv
  <1> HIDE DEF n, S, S2, L, L2, pg, pg2, t, t2
  <1>10. CoverOK(recs, live, cp, "open", ret[c], n, S2, L2, pg, t, job[c])
    BY <1>2, <1>3, <1>7, CoverStore
  <1>11. PlacesOK(Len(recs), n, pg2, job[c])
    BY <1>6, <1>10 DEF CoverOK, PlacesOK
  <1>12. TodoOK("absorb", S2, t2)
    BY <1>6 DEF TodoOK
  <1>13. \A s \in passed : recs[s].ops \subseteq L2
    BY <1>6 DEF Brought
  <1>14. PageWhole(recs, live, n, L2, pg2)
    <2> SUFFICES ASSUME NEW s \in OrdinaryAfter(recs, live, Larger(n, pg2.cp.upto)) \ pg2.rows
                 PROVE  \/ recs[s].ops \subseteq L2
                        \/ (\A x \in pg2.rows : x < s) /\ (~pg2.more => pg2.head < s)
      BY DEF PageWhole
    <2>1. CASE s \notin pg.rows
      BY <1>6, <1>10, <2>1 DEF CoverOK, PullOK, PageWhole
    <2>2. CASE s \in passed
      BY <1>13, <2>2
    <2>3. CASE s \in bad \ passed
      <3>1. pg.more /\ \A x \in opened : ~(s < x) /\ x # s
        BY <2>3
      <3>2. \A x \in opened : x < s
        BY <1>8, <2>3, <3>1
      <3> QED
        BY <1>6, <3>1, <3>2
    <2> QED
      BY <1>6, <2>1, <2>2, <2>3
  <1>15. OpsIn(recs, pg2.rows) \subseteq InHand(t2)
    BY <1>6 DEF OpsIn, InHand, Brought
  <1>16. PullOK(recs, live, cp, "absorb", n, S2, L2, pg2, t2)
    BY <1>6, <1>10, <1>14, <1>15 DEF CoverOK, PullOK
  <1>17. BuildOK(recs, live, cp, "absorb", ret[c], n, S2, L2, job[c])
    BY <1>10 DEF CoverOK, BuildOK, Pulling, Uploading
  <1> QED
    BY <1>7, <1>10, <1>11, <1>12, <1>16, <1>17 DEF CoverOK

\* absorbOps: what is fetched goes to hand and from hand to the store.
LEMMA CoverAbsorb ==
  ASSUME TypeInv, NEW c \in Device, CoverInv(c), AbsorbGet(c) \/ AbsorbPut(c)
  PROVE  CoverInv(c)'
  <1> DEFINE n == cursor[c]
             S == Has(c)
             S2 == Has(c)'
             L == lost[c]
             L2 == lost'[c]
             pg == page[c]
             t == todo[c]
             t2 == todo'[c]
  <1>0. TypeOK /\ RowsTyped /\ TodoTyped
    BY TypeParts DEF TypeInv
  <1>1. UNCHANGED <<recs, live, cp, cursor, pc, ret, page, job>>
    BY DEF AbsorbGet, AbsorbPut, historyVars, rowVars
  <1>2. CoverOK(recs, live, cp, pc[c], ret[c], n, S, L, pg, t, job[c])
    BY DEF CoverInv
  <1>3. SUFFICES CoverOK(recs, live, cp, pc[c], ret[c], n, S2, L2, pg, t2, job[c])
    BY <1>1 DEF CoverInv
  <1>4. TodoOK(pc[c], S, t) /\ PullOK(recs, live, cp, pc[c], n, S, L, pg, t)
    BY <1>2 DEF CoverOK
  <1>8. L2 \subseteq S2
    BY DEF Has
  <1>5. ASSUME S \subseteq S2, L \subseteq L2, t2.segs = t.segs, TodoOK(pc[c], S2, t2),
               S \cup InHand(t) \subseteq S2 \cup InHand(t2)
        PROVE  CoverOK(recs, live, cp, pc[c], ret[c], n, S2, L2, pg, t2, job[c])
    <2> HIDE DEF n, S, S2, L, L2, pg, t, t2
    <2>2. CoverOK(recs, live, cp, pc[c], ret[c], n, S2, L2, pg, t, job[c])
      BY <1>2, <1>5, <1>8, CoverStore
    <2>1. PullOK(recs, live, cp, pc[c], n, S2, L2, pg, t2)
      BY <1>4, <1>5, <2>2 DEF CoverOK, PullOK
    <2> QED
      BY <1>5, <2>1, <2>2 DEF CoverOK
  <1>6. CASE AbsorbGet(c)
    <2>1. PICK u \in t.updates :
            todo' = [todo EXCEPT ![c].updates = @ \ {u},
                                 ![c].merging = {[ops |-> u, prev |-> StateOf(c, u)]}]
      BY <1>6 DEF AbsorbGet
    <2>2. t.merging = {} /\ S2 = S /\ L2 = L
      BY <1>6 DEF AbsorbGet, rowVars, pastVars, Has
    <2>3. /\ t2.segs = t.segs /\ t2.updates = t.updates \ {u}
          /\ t2.merging = {[ops |-> u, prev |-> StateOf(c, u)]}
      BY <1>0, <2>1 DEF TodoTyped, TodoType
    <2>4. StateOf(c, u) \subseteq S
      BY DEF StateOf, Has
    <2> HIDE DEF n, S, S2, L, L2, pg, t, t2
    <2>5. InHand(t) \subseteq InHand(t2)
      BY <2>2, <2>3 DEF InHand
    <2>6. pc[c] \in {"segments", "absorb"}
      BY <1>4, <2>1 DEF TodoOK
    <2>7. TodoOK(pc[c], S2, t2)
      BY <2>2, <2>3, <2>4, <2>6 DEF TodoOK
    <2> QED
      BY <1>5, <2>2, <2>3, <2>5, <2>7
  <1>7. CASE AbsorbPut(c)
    <2>1. PICK m \in t.merging : PutState(c, m.prev, m.ops)
      BY <1>7 DEF AbsorbPut
    <2>2. t2.segs = t.segs /\ t2.updates = t.updates /\ t2.merging = {}
      BY <1>0, <1>7 DEF AbsorbPut, TodoTyped, TodoType
    <2>3. t.merging = {m} /\ m.prev \subseteq S
      BY <1>4, <2>1 DEF TodoOK
    <2>4. m.ops \in SUBSET Op
      BY <1>0, <2>1 DEF TodoTyped, TodoType
    <2>5. S \subseteq S2 /\ L \subseteq L2 /\ m.ops \subseteq S2
      BY <1>0, <2>1, <2>3, <2>4, PutGrows
    <2> HIDE DEF n, S, S2, L, L2, pg, t, t2
    <2>6. S \cup InHand(t) \subseteq S2 \cup InHand(t2)
      BY <2>2, <2>3, <2>5 DEF InHand
    <2>7. TodoOK(pc[c], S2, t2)
      BY <1>4, <2>2 DEF TodoOK
    <2> QED
      BY <1>5, <2>2, <2>5, <2>6, <2>7
  <1> QED
    BY <1>6, <1>7

\* pullLocked at the end of a page: the cursor passes no record that is not
\* merged.
LEMMA CoverPageDone ==
  ASSUME TypeInv, CheckpointOK, NEW c \in Device, CoverInv(c), PageDone(c)
  PROVE  CoverInv(c)'
  <1> DEFINE n == cursor[c]
             n2 == cursor'[c]
             S == Has(c)
             L == lost[c]
             pg == page[c]
             t == todo[c]
             j == job[c]
  <1>0. ServerTyped /\ RowsTyped /\ StepTyped /\ PageTyped /\ TodoTyped
    BY TypeParts DEF TypeInv
  <1>1. UNCHANGED <<recs, live, cp, todo, job>> /\ Has(c)' = S /\ lost'[c] = L
    BY DEF PageDone, historyVars, pastVars, Has
  <1>2. CoverOK(recs, live, cp, pc[c], ret[c], n, S, L, pg, t, j)
    BY DEF CoverInv
  <1>3. /\ pc[c] = "absorb" /\ t.updates = {} /\ t.merging = {} /\ page'[c] = NoPage
        /\ n2 = CHOOSE m \in Passed(c) : \A i \in Passed(c) : i <= m
        /\ \/ pc'[c] = "head" /\ ret'[c] = ret[c]
           \/ pc'[c] = ret[c] /\ ret'[c] = "idle"
    BY <1>0 DEF PageDone, At, Merged, Goto, StepTyped, PageTyped, RowsTyped
  <1>4. SUFFICES CoverOK(recs, live, cp, pc'[c], ret'[c], n2, S, L, NoPage, t, j)
    BY <1>1, <1>3 DEF CoverInv
  <1>5. n2 \in Passed(c) /\ n2 \in Positions /\ n <= n2
    BY <1>3, PassedFacts DEF TypeInv, Passed
  <1>6. pg.cp = cp /\ n >= cp.upto /\ OpsIn(recs, pg.rows) \subseteq S
        /\ PageWhole(recs, live, n, L, pg) /\ L \subseteq S
    BY <1>2, <1>3 DEF CoverOK, PullOK, InHand
  <1>7. n \in Nat /\ cp.upto \in Nat /\ Len(recs) \in Nat /\ n2 \in Nat
    BY <1>0, <1>5, Sizes, LenProperties DEF ServerTyped, RowsTyped, Checkpoint, Positions
  <1>8. /\ n2 = n \/ n2 \in pg.rows \/ (n2 = pg.head /\ ~pg.more)
        /\ ret[c] \in {"idle", "take", "build"}
    BY <1>0, <1>5 DEF Passed, StepTyped
  <1> HIDE DEF n, n2, S, L, pg, t, j
  <1>9. PlacesOK(Len(recs), n2, NoPage, j)
    BY <1>2, <1>7, <1>8 DEF CoverOK, PlacesOK, NoPage, NoCheckpoint
  <1>10. Larger(n, pg.cp.upto) = n
    BY <1>6, <1>7 DEF Larger
  <1>11. \A s \in OrdinaryAfter(recs, live, n) :
           s \in pg.rows \/ recs[s].ops \subseteq L \/ s \in OrdinaryAfter(recs, live, n2)
    <2> SUFFICES ASSUME NEW s \in OrdinaryAfter(recs, live, n), s \notin pg.rows,
                        ~(recs[s].ops \subseteq L)
                 PROVE  s \in OrdinaryAfter(recs, live, n2)
      OBVIOUS
    <2>1. (\A i \in pg.rows : i < s) /\ (~pg.more => pg.head < s)
      BY <1>6, <1>10 DEF PageWhole
    <2>2. s \in live /\ s > n /\ ~recs[s].chunk
      BY DEF OrdinaryAfter
    <2>3. s \in Nat
      BY <1>0, <1>7, <2>2 DEF ServerTyped, headSeq
    <2>4. s > n2
      BY <1>7, <1>8, <2>1, <2>2, <2>3
    <2> QED
      BY <2>2, <2>4 DEF OrdinaryAfter
  <1>12. Rest(recs, live, n) \subseteq S \cup Rest(recs, live, n2)
    BY <1>6, <1>11 DEF Rest, OpsIn
  <1>13. Covered(recs, live, cp, n2, S)
    BY <1>2, <1>6, <1>12 DEF CoverOK, Covered
  <1>14. TodoOK(pc'[c], S, t)
    BY <1>2, <1>3 DEF CoverOK, TodoOK
  <1>15. PullOK(recs, live, cp, pc'[c], n2, S, L, NoPage, t)
    BY <1>3, <1>8 DEF PullOK
  <1>16. BuildOK(recs, live, cp, pc'[c], ret'[c], n2, S, L, j)
    <2>1. BuildOK(recs, live, cp, pc[c], ret[c], n, S, L, j)
      BY <1>2 DEF CoverOK
    <2> QED
      BY <1>3, <1>8, <2>1 DEF BuildOK, Pulling, Uploading
  <1> QED
    BY <1>6, <1>9, <1>13, <1>14, <1>15, <1>16 DEF CoverOK

\* A step outside the pull and the upload needs nothing more.
LEMMA CoverQuiet ==
  ASSUME NEW r, NEW l, NEW k, NEW p, NEW rt, NEW n, NEW S, NEW L, NEW pg, NEW t, NEW j,
         CoverOK(r, l, k, p, rt, n, S, L, pg, t, j), p \notin {"segments", "absorb"},
         NEW p2, p2 \notin {"rows", "summary", "segments", "open", "absorb", "build"} \cup Uploading,
         NEW rt2, rt2 = "idle" \/ (rt2 = "take" /\ p2 = "head"),
         NEW j2, PlacesOK(Len(r), n, pg, j2)
  PROVE  CoverOK(r, l, k, p2, rt2, n, S, L, pg, t, j2)
  <1>1. TodoOK(p2, S, t)
    BY DEF CoverOK, TodoOK
  <1>2. PullOK(r, l, k, p2, n, S, L, pg, t)
    BY DEF PullOK
  <1>3. BuildOK(r, l, k, p2, rt2, n, S, L, j2)
    BY DEF BuildOK, Uploading, Pulling
  <1> QED
    BY <1>1, <1>2, <1>3 DEF CoverOK

\* What is noted of a device that the journal's next record is appended to.
LEMMA CoverAppended ==
  ASSUME TypeInv, CheckpointOK, NEW c \in Device, CoverInv(c), NEW r \in Record, AppendRecord(r)
  PROVE  /\ CoverOK(recs', live', cp, pc[c], ret[c], cursor[c], Has(c), lost[c], page[c], todo[c], job[c])
         /\ cp' = cp /\ Len(recs) \in Nat /\ Len(recs') = Len(recs) + 1
         /\ live' = live \cup {Len(recs) + 1}
         /\ recs'[Len(recs) + 1] = r
         /\ Longer(recs, live, Len(recs), recs', live')
  <1>1. ServerTyped
    BY TypeParts DEF TypeInv
  <1>2. /\ headSeq \in Nat /\ headSeq' = headSeq + 1 /\ recs'[headSeq + 1] = r
        /\ \A s \in 1..headSeq : recs'[s] = recs[s]
        /\ live' = live \cup {headSeq + 1} /\ cp' = cp
    BY <1>1, AppendTyped
  <1>3. Longer(recs, live, Len(recs), recs', live') /\ Len(recs') = Len(recs) + 1
    BY <1>1, <1>2 DEF Longer, ServerTyped, headSeq
  <1>4. CoverOK(recs, live, cp, pc[c], ret[c], cursor[c], Has(c), lost[c], page[c], todo[c], job[c])
    BY DEF CoverInv
  <1>5. CoverOK(recs', live', cp, pc[c], ret[c], cursor[c], Has(c), lost[c], page[c], todo[c], job[c])
    BY <1>3, <1>4, CoverTyped, CoverGrows
  <1> QED
    BY <1>2, <1>3, <1>5 DEF headSeq

\* The network operation ends, well or not.
LEMMA CoverSettled ==
  ASSUME TypeInv, NEW c \in Device, Settle(c), cursor'[c] = cursor[c],
         Has(c)' = Has(c), lost'[c] = lost[c],
         CoverOK(recs', live', cp', pc[c], ret[c], cursor[c], Has(c), lost[c], page[c], todo[c], job[c]),
         Len(recs') \in Nat
  PROVE  CoverInv(c)'
  <1>0. WorkTyped
    BY TypeParts DEF TypeInv, WorkTyped
  <1>1. /\ pc'[c] = "idle" /\ ret'[c] = "idle" /\ page'[c] = NoPage
        /\ todo'[c] = NoTodo /\ job'[c] = NoJob
    BY <1>0 DEF Settle, Goto, WorkTyped, StepTyped, PageTyped, TodoTyped, JobTyped
  <1>2. /\ Covered(recs', live', cp', cursor[c], Has(c)) /\ cursor[c] <= Len(recs')
        /\ lost[c] \subseteq Has(c)
    BY DEF CoverOK, PlacesOK
  <1> QED
    BY <1>1, <1>2, CoverIdle DEF CoverInv

\* flushLocked.
LEMMA CoverFlush ==
  ASSUME TypeInv, CheckpointOK, NEW c \in Device, CoverInv(c),
         Flush(c) \/ Write(c) \/ FlushFailed(c)
  PROVE  CoverInv(c)'
  <1> DEFINE n == cursor[c]
             S == Has(c)
             L == lost[c]
             pg == page[c]
             t == todo[c]
             j == job[c]
             j2 == job'[c]
  <1>0. TypeOK /\ ServerTyped /\ StepTyped /\ JobTyped /\ Len(recs) \in Nat
    BY TypeParts, LenProperties DEF TypeInv, ServerTyped
  <1>1. UNCHANGED cursor /\ Has(c)' = S /\ lost'[c] = L
    BY DEF Flush, Write, Take, AppendOp, FlushDone, FlushRefused, FlushFailed, rowVars, pastVars, Has
  <1>2. CoverOK(recs, live, cp, pc[c], ret[c], n, S, L, pg, t, j)
    BY DEF CoverInv
  <1>3. ret[c] # "idle" => pc[c] \in Pulling \cup {"open", "absorb"}
    BY <1>2 DEF CoverOK, BuildOK
  <1>4. ASSUME j2.keep = j.keep, j2.summary = j.summary, NEW r, PlacesOK(Len(r), n, pg, j)
        PROVE  PlacesOK(Len(r), n, pg, j2)
    BY <1>4 DEF PlacesOK
  <1>5. CASE Flush(c)
    <2>1. PICK m \in {0, Len(own[c])}, due \in SUBSET incoming[c] :
            /\ job' = [job EXCEPT ![c].own = m, ![c].due = due,
                                  ![c].batch = SubSeq(own[c], 1, m)]
            /\ IF due = {} THEN Goto(c, "append") /\ UNCHANGED ret
               ELSE Goto(c, "head") /\ ret' = [ret EXCEPT ![c] = "take"]
      BY <1>5 DEF Flush
    <2>2. pc[c] = "idle" /\ UNCHANGED <<recs, live, cp, page, todo>>
      BY <1>5 DEF Flush, At, historyVars
    <2>3. ret[c] = "idle"
      BY <1>3, <2>2 DEF Pulling
    <2>4. \/ pc'[c] = "append" /\ ret'[c] = "idle"
          \/ pc'[c] = "head" /\ ret'[c] = "take"
      BY <1>0, <2>1, <2>3 DEF Goto, StepTyped
    <2>5. j2.keep = j.keep /\ j2.summary = j.summary
      BY <1>0, <2>1 DEF JobTyped, JobType
    <2>6. PlacesOK(Len(recs), n, pg, j2)
      BY <1>2, <1>4, <2>5 DEF CoverOK
    <2> HIDE DEF n, S, L, pg, t, j, j2
    <2>7. CoverOK(recs, live, cp, pc'[c], ret'[c], n, S, L, pg, t, j2)
      BY <1>2, <2>2, <2>4, <2>6, CoverQuiet DEF Uploading
    <2> QED
      BY <1>1, <2>2, <2>7 DEF CoverInv, n, S, L, pg, t, j2
  <1>6. CASE Take(c) /\ ~Settle(c)
    <2>1. /\ pc[c] = "take" /\ pc'[c] = "append" /\ UNCHANGED <<recs, live, cp, ret, page, todo>>
      BY <1>0, <1>6 DEF Take, At, Goto, StepTyped, historyVars
    <2>2. PICK due, s : job' = [job EXCEPT ![c].due = due, ![c].batch = @ \o s]
      BY <1>6 DEF Take
    <2>3. ret[c] = "idle"
      BY <1>3, <2>1 DEF Pulling
    <2>4. j2.keep = j.keep /\ j2.summary = j.summary
      BY <1>0, <2>2 DEF JobTyped, JobType
    <2>5. PlacesOK(Len(recs), n, pg, j2)
      BY <1>2, <1>4, <2>4 DEF CoverOK
    <2> HIDE DEF n, S, L, pg, t, j, j2
    <2>6. CoverOK(recs, live, cp, pc'[c], ret[c], n, S, L, pg, t, j2)
      BY <1>2, <2>1, <2>3, <2>5, CoverQuiet DEF Uploading
    <2> QED
      BY <1>1, <2>1, <2>6 DEF CoverInv, n, S, L, pg, t, j2
  <1>7. CASE AppendOp(c)
    <2>1. /\ AppendRecord([chunk |-> FALSE, ops |-> {Head(j.batch)}]) /\ j.batch # <<>>
          /\ pc[c] = "append" /\ UNCHANGED <<pc, ret, page, todo>>
          /\ job' = [job EXCEPT ![c].batch = Tail(@)]
      BY <1>7 DEF AppendOp, At
    <2>2. [chunk |-> FALSE, ops |-> {Head(j.batch)}] \in Record
      BY <1>0, <2>1, RecordsMade
    <2>3. CoverOK(recs', live', cp, pc[c], ret[c], n, S, L, pg, t, j) /\ cp' = cp
      BY <2>1, <2>2, CoverAppended
    <2>4. ret[c] = "idle"
      BY <1>3, <2>1 DEF Pulling
    <2>5. j2.keep = j.keep /\ j2.summary = j.summary
      BY <1>0, <2>1 DEF JobTyped, JobType
    <2>6. PlacesOK(Len(recs'), n, pg, j2)
      BY <1>4, <2>3, <2>5 DEF CoverOK
    <2> HIDE DEF n, S, L, pg, t, j, j2
    <2>7. CoverOK(recs', live', cp, pc[c], ret[c], n, S, L, pg, t, j2)
      BY <2>1, <2>3, <2>4, <2>6, CoverQuiet DEF Uploading
    <2> QED
      BY <1>1, <2>1, <2>3, <2>7 DEF CoverInv, n, S, L, pg, t, j2
  <1>8. CASE Settle(c) /\ UNCHANGED <<recs, live, cp>>
    BY <1>0, <1>1, <1>2, <1>8, CoverSettled
  <1>9. CASE FlushFailed(c)
    <2>1. j.batch # <<>> /\ Settle(c)
      BY <1>9 DEF FlushFailed, Requeue
    <2>2. CASE AppendRecord([chunk |-> FALSE, ops |-> {Head(j.batch)}])
      <3>1. [chunk |-> FALSE, ops |-> {Head(j.batch)}] \in Record
        BY <1>0, <2>1, RecordsMade
      <3>2. /\ CoverOK(recs', live', cp, pc[c], ret[c], n, S, L, pg, t, j) /\ cp' = cp
            /\ Len(recs') = Len(recs) + 1
        BY <2>2, <3>1, CoverAppended
      <3> QED
        BY <1>0, <1>1, <2>1, <3>2, CoverSettled
    <2>3. CASE UNCHANGED historyVars
      BY <1>8, <2>1, <2>3 DEF historyVars
    <2> QED
      BY <1>9, <2>2, <2>3 DEF FlushFailed
  <1>10. (Take(c) /\ Settle(c)) \/ FlushDone(c) \/ FlushRefused(c)
           => Settle(c) /\ UNCHANGED <<recs, live, cp>>
    BY DEF Take, FlushDone, FlushRefused, Requeue, historyVars
  <1> QED
    BY <1>5, <1>6, <1>7, <1>8, <1>9, <1>10 DEF Write

\* A request that throws, records that do not open yet, and a process that is
\* killed.
LEMMA CoverFails ==
  ASSUME TypeInv, CheckpointOK, NEW c \in Device, CoverInv(c),
         RequestFails(c) \/ OpenWaits(c) \/ Crash(c)
  PROVE  CoverInv(c)'
  <1>0. ServerTyped /\ WorkTyped /\ Len(recs) \in Nat
    BY TypeParts, LenProperties DEF TypeInv, ServerTyped, WorkTyped
  <1>1. UNCHANGED <<recs, live, cp, cursor>> /\ Has(c)' = Has(c) /\ lost'[c] = lost[c]
    BY DEF RequestFails, OpenWaits, Crash, historyVars, rowVars, pastVars, Has
  <1>2. CoverOK(recs, live, cp, pc[c], ret[c], cursor[c], Has(c), lost[c], page[c], todo[c], job[c])
    BY DEF CoverInv
  <1>3. CASE Settle(c)
    BY <1>0, <1>1, <1>2, <1>3, CoverSettled
  <1>4. CASE ~Settle(c)
    <2>1. /\ pc'[c] = "take" /\ ret'[c] = "idle" /\ page'[c] = NoPage /\ todo'[c] = NoTodo
          /\ job'[c] = job[c]
      BY <1>0, <1>4 DEF RequestFails, OpenWaits, PullEnds, Crash, Goto, WorkTyped, StepTyped,
                        PageTyped, TodoTyped
    <2>2. PlacesOK(Len(recs), cursor[c], NoPage, job[c])
      BY <1>0, <1>2 DEF CoverOK, PlacesOK, NoPage, NoCheckpoint
    <2>3. /\ Covered(recs, live, cp, cursor[c], Has(c)) /\ cursor[c] <= Len(recs)
          /\ lost[c] \subseteq Has(c)
      BY <1>2 DEF CoverOK, PlacesOK
    <2>4. CoverOK(recs, live, cp, "idle", "idle", cursor[c], Has(c), lost[c], NoPage, NoTodo, NoJob)
      BY <1>0, <2>3, CoverIdle
    <2>5. CoverOK(recs, live, cp, "take", "idle", cursor[c], Has(c), lost[c], NoPage, NoTodo, job[c])
      BY <2>2, <2>4, CoverQuiet DEF Uploading
    <2> QED
      BY <1>1, <2>1, <2>5 DEF CoverInv
  <1> QED
    BY <1>3, <1>4

\* The rows of the store by message are the store, but for what is left out.
LEMMA SegmentsAll ==
  ASSUME TypeOK, NEW d \in Device
  PROVE  /\ store[d] \subseteq (UNION Segments(d)) \cup LeftOut(d)
         /\ LeftOut(d) \subseteq store[d]
         /\ \A u \in Segments(d) : u \subseteq store[d]
  <1>1. store[d] \subseteq Op
    BY DEF TypeOK
  <1>2. \A o \in store[d] : o \in StateOf(d, {o})
    BY <1>1 DEF StateOf, Sharing
  <1>3. \A o \in store[d] : StateOf(d, {o}) \subseteq store[d]
    BY DEF StateOf
  <1> QED
    BY <1>2, <1>3 DEF Segments, LeftOut

\* maybeCheckpointLocked, and buildCheckpointLocked up to the uploads: what
\* the segments hold is all that a new device would be given up to the cursor.
LEMMA CoverBuild ==
  ASSUME TypeInv, CheckpointOK, NEW c \in Device, CoverInv(c), AskHead(c) \/ Due(c) \/ Build(c)
  PROVE  CoverInv(c)'
  <1> DEFINE n == cursor[c]
             S == Has(c)
             L == lost[c]
             L2 == lost'[c]
             pg == page[c]
             t == todo[c]
             j == job[c]
             j2 == job'[c]
  <1>0. TypeOK /\ ServerTyped /\ RowsTyped /\ StepTyped /\ JobTyped /\ PastTyped /\ Len(recs) \in Nat
    BY TypeParts, LenProperties DEF TypeInv, ServerTyped
  <1>1. UNCHANGED <<recs, live, cp, store, cursor>>
    BY DEF AskHead, Due, Build, historyVars, rowVars
  <1>2. CoverOK(recs, live, cp, pc[c], ret[c], n, S, L, pg, t, j)
    BY DEF CoverInv
  <1>3. ret[c] # "idle" => pc[c] \in Pulling \cup {"open", "absorb"}
    BY <1>2 DEF CoverOK, BuildOK
  <1>4. CASE Settle(c) /\ UNCHANGED lost
    BY <1>0, <1>1, <1>2, <1>4, CoverSettled DEF Has
  <1>8. AskHead(c) \/ Due(c) => UNCHANGED lost
    BY DEF AskHead, Due, pastVars
  <1>9. UNCHANGED lost => Has(c)' = S /\ L2 = L
    BY <1>1 DEF Has
  <1>5. CASE AskHead(c)
    <2>1. /\ pc[c] = "idle" /\ pc'[c] = "due" /\ UNCHANGED <<ret, page, todo>>
          /\ job' = [job EXCEPT ![c].head = headSeq]
      BY <1>0, <1>5 DEF AskHead, At, Goto, StepTyped
    <2>2. j2.keep = j.keep /\ j2.summary = j.summary /\ ret[c] = "idle"
      BY <1>0, <1>3, <2>1 DEF JobTyped, JobType, Pulling
    <2> HIDE DEF n, S, L, pg, t, j, j2
    <2>3. PlacesOK(Len(recs), n, pg, j2)
      BY <1>2, <2>2 DEF CoverOK, PlacesOK
    <2>4. CoverOK(recs, live, cp, pc'[c], ret[c], n, S, L, pg, t, j2)
      BY <1>2, <2>1, <2>2, <2>3, CoverQuiet DEF Uploading
    <2> QED
      BY <1>1, <1>5, <1>8, <1>9, <2>1, <2>4 DEF CoverInv, n, S, L, pg, t, j2
  <1>6. CASE Due(c) /\ ~Settle(c)
    <2>1. /\ pc[c] = "due" /\ pc'[c] = "head" /\ ret'[c] = "build" /\ UNCHANGED <<page, todo>>
          /\ job' = [job EXCEPT ![c].cp = cp] /\ IsDue(c)
      BY <1>0, <1>6 DEF Due, At, Goto, StepTyped
    <2>2. j2.keep = j.keep /\ j2.summary = j.summary /\ j2.cp = cp /\ j2.head = j.head
      BY <1>0, <2>1 DEF JobTyped, JobType
    <2>3. j.head \in Nat /\ cp.upto \in Nat
      BY <1>0, Sizes DEF JobTyped, JobType, ServerTyped, Checkpoint, Positions
    <2>4. j.head >= cp.upto
      BY <2>1, <2>3 DEF IsDue, CheckpointOK
    <2> HIDE DEF n, S, L, pg, t, j, j2
    <2>5. PlacesOK(Len(recs), n, pg, j2)
      BY <1>2, <2>2 DEF CoverOK, PlacesOK
    <2>6. TodoOK("head", S, t)
      BY <1>2, <2>1 DEF CoverOK, TodoOK
    <2>7. PullOK(recs, live, cp, "head", n, S, L, pg, t)
      BY DEF PullOK
    <2>8. BuildOK(recs, live, cp, "head", "build", n, S, L, j2)
      BY <2>2, <2>4 DEF BuildOK, Pulling, Uploading
    <2>9. CoverOK(recs, live, cp, "head", "build", n, S, L, pg, t, j2)
      BY <1>2, <2>5, <2>6, <2>7, <2>8 DEF CoverOK
    <2> QED
      BY <1>1, <1>6, <1>8, <1>9, <2>1, <2>9 DEF CoverInv, n, S, L, pg, t, j2
  <1>7. CASE Build(c) /\ ~(n < j.head)
    <2>1. /\ pc[c] = "build" /\ pc'[c] = "upload" /\ UNCHANGED <<ret, page, todo>>
          /\ ~(n < j.head)
      BY <1>0, <1>7 DEF Build, At, Goto, StepTyped
    <2>2. PICK known \in {{}, j.cp.chunks} :
            LET kept == {s \in known : recs[s].ops \in Segments(c)}
            IN  job' = [job EXCEPT ![c].keep = kept,
                                   ![c].up = Segments(c) \ {recs[s].ops : s \in kept}]
      BY <1>7 DEF Build
    <2> DEFINE kept == {s \in known : recs[s].ops \in Segments(c)}
    <2>3. /\ j2.keep = kept /\ j2.up = Segments(c) \ {recs[s].ops : s \in kept}
          /\ j2.summary = j.summary
      BY <1>0, <2>2 DEF JobTyped, JobType
    <2>4. j.cp = cp /\ j.head >= cp.upto /\ ret[c] = "idle"
      BY <1>2, <1>3, <2>1 DEF CoverOK, BuildOK, Pulling
    <2>5. n \in Nat /\ j.head \in Nat /\ cp.upto \in Nat
      BY <1>0, Sizes DEF RowsTyped, JobTyped, JobType, ServerTyped, Checkpoint, Positions
    <2>6. n >= cp.upto
      BY <2>1, <2>4, <2>5
    <2>7. kept \subseteq 1..Len(recs)
      BY <1>0, <2>4, RecoverableIs DEF ServerTyped, headSeq
    <2>16. L2 = L \cup LeftOut(c)
      BY <1>0, <1>7 DEF Build, PastTyped
    <2>17. /\ S \subseteq (UNION Segments(c)) \cup L2 /\ \A u \in Segments(c) : u \subseteq S
           /\ Has(c)' = S /\ L \subseteq L2 /\ L2 \subseteq S
      BY <1>0, <1>1, <2>16, SegmentsAll DEF Has
    <2>9. /\ OpsIn(recs, j2.keep) \cup (UNION j2.up) \subseteq S
          /\ S \subseteq OpsIn(recs, j2.keep) \cup (UNION j2.up) \cup L2
      <3>1. OpsIn(recs, kept) \subseteq S
        BY <2>17 DEF OpsIn
      <3>2. UNION (Segments(c) \ {recs[s].ops : s \in kept}) \subseteq S
        BY <2>17
      <3>3. S \subseteq OpsIn(recs, kept) \cup (UNION (Segments(c) \ {recs[s].ops : s \in kept}))
                         \cup L2
        <4> HIDE DEF kept
        <4> SUFFICES ASSUME NEW u \in Segments(c), NEW o \in u
                     PROVE  o \in OpsIn(recs, kept)
                              \cup (UNION (Segments(c) \ {recs[s].ops : s \in kept}))
          BY <2>17
        <4> QED
          BY DEF OpsIn
      <3> QED
        BY <2>3, <3>1, <3>2, <3>3
    <2>10. j2.keep \subseteq 1..Len(recs)
      BY <2>3, <2>7
    <2> HIDE DEF n, S, L, L2, pg, t, j, j2, kept
    <2>18. CoverOK(recs, live, cp, "build", ret[c], n, S, L2, pg, t, j)
      BY <1>2, <2>1, <2>17, CoverStore
    <2>11. PlacesOK(Len(recs), n, pg, j2)
      BY <1>2, <2>3, <2>10 DEF CoverOK, PlacesOK
    <2>12. TodoOK("upload", S, t)
      BY <1>2, <2>1 DEF CoverOK, TodoOK
    <2>13. PullOK(recs, live, cp, "upload", n, S, L2, pg, t)
      BY DEF PullOK
    <2>14. BuildOK(recs, live, cp, "upload", "idle", n, S, L2, j2)
      <3>1. Given(recs, live, cp) \subseteq S \cup Rest(recs, live, n)
        BY <1>2, <2>6 DEF CoverOK, Covered
      <3> QED
        BY <2>6, <2>9, <3>1 DEF BuildOK, Uploading
    <2>15. CoverOK(recs, live, cp, "upload", "idle", n, S, L2, pg, t, j2)
      BY <2>11, <2>12, <2>13, <2>14, <2>18 DEF CoverOK
    <2> QED
      BY <1>1, <2>1, <2>4, <2>15, <2>17 DEF CoverInv, n, S, L2, pg, t, j2
  <1> QED
    <2>1. Due(c) => Settle(c) \/ (Due(c) /\ ~Settle(c))
      OBVIOUS
    <2>2. Build(c) /\ n < j.head => Settle(c) /\ UNCHANGED lost
      BY DEF Build
    <2> QED
      BY <1>4, <1>5, <1>6, <1>7, <1>8, <2>1, <2>2

\* The uploads: a segment leaves the list for the journal.
LEMMA CoverUpload ==
  ASSUME TypeInv, CheckpointOK, NEW c \in Device, CoverInv(c),
         UploadSegment(c) \/ UploadSummary(c) \/ UploadRefused(c)
  PROVE  CoverInv(c)'
  <1> DEFINE n == cursor[c]
             S == Has(c)
             L == lost[c]
             pg == page[c]
             t == todo[c]
             j == job[c]
             j2 == job'[c]
             h == Len(recs)
  <1>0. TypeOK /\ ServerTyped /\ RowsTyped /\ StepTyped /\ JobTyped /\ h \in Nat
    BY TypeParts, LenProperties DEF TypeInv, ServerTyped
  <1>1. UNCHANGED cursor /\ Has(c)' = S /\ lost'[c] = L /\ pc[c] = "upload"
    BY DEF UploadSegment, UploadSummary, UploadRefused, At, rowVars, pastVars, Has
  <1>2. CoverOK(recs, live, cp, pc[c], ret[c], n, S, L, pg, t, j)
    BY DEF CoverInv
  <1>3. CASE UploadRefused(c)
    BY <1>0, <1>1, <1>2, <1>3, CoverSettled DEF UploadRefused, historyVars
  <1>4. ASSUME NEW r \in Record, AppendRecord(r),
               j2.keep \subseteq 1..(h + 1), j2.summary \in {j.summary, h + 1},
               OpsIn(recs', j2.keep) \cup (UNION j2.up) = OpsIn(recs', j.keep) \cup (UNION j.up)
        PROVE  CoverOK(recs', live', cp, "upload", "idle", n, S, L, pg, t, j2)
    <2>1. /\ CoverOK(recs', live', cp, pc[c], ret[c], n, S, L, pg, t, j)
          /\ Len(recs') = h + 1
      BY <1>4, CoverAppended
    <2> HIDE DEF n, S, L, pg, t, j, j2, h
    <2>2. PlacesOK(Len(recs'), n, pg, j2)
      BY <1>0, <1>4, <2>1 DEF CoverOK, PlacesOK
    <2>3. BuildOK(recs', live', cp, "upload", ret[c], n, S, L, j)
      BY <1>1, <2>1 DEF CoverOK
    <2>4. BuildOK(recs', live', cp, "upload", "idle", n, S, L, j2)
      BY <1>4, <2>3 DEF BuildOK, Uploading, Pulling
    <2> QED
      BY <1>1, <2>1, <2>2, <2>4 DEF CoverOK
  <1>5. ret[c] = "idle"
    BY <1>1, <1>2 DEF CoverOK, BuildOK, Pulling
  <1>6. CASE UploadSegment(c)
    <2>1. PICK u \in j.up :
            /\ AppendRecord([chunk |-> TRUE, ops |-> u])
            /\ job' = [job EXCEPT ![c].up = @ \ {u}, ![c].keep = @ \cup {headSeq + 1}]
      BY <1>6 DEF UploadSegment
    <2>2. UNCHANGED <<pc, ret, page, todo>>
      BY <1>6 DEF UploadSegment
    <2>3. j2.up = j.up \ {u} /\ j2.keep = j.keep \cup {h + 1} /\ j2.summary = j.summary
      BY <1>0, <2>1 DEF JobTyped, JobType, headSeq
    <2> DEFINE r == [chunk |-> TRUE, ops |-> u]
    <2>4. r \in Record /\ AppendRecord(r) /\ r.ops = u
      BY <1>0, <2>1, RecordsMade
    <2> HIDE DEF r
    <2>5. recs'[h + 1] = r /\ cp' = cp
      BY <2>4, CoverAppended
    <2>6. j.keep \subseteq 1..h
      BY <1>2 DEF CoverOK, PlacesOK
    <2>7. CoverOK(recs', live', cp, "upload", "idle", n, S, L, pg, t, j2)
      <3> HIDE DEF n, S, L, pg, t, j, j2, h
      <3>1. j2.keep \subseteq 1..(h + 1)
        BY <1>0, <2>3, <2>6
      <3>2. OpsIn(recs', j2.keep) \cup (UNION j2.up) = OpsIn(recs', j.keep) \cup (UNION j.up)
        <4>1. OpsIn(recs', j2.keep) = OpsIn(recs', j.keep) \cup u
          BY <2>3, <2>4, <2>5 DEF OpsIn
        <4>2. UNION j.up = u \cup (UNION j2.up)
          BY <2>1, <2>3
        <4> QED
          BY <4>1, <4>2
      <3> QED
        BY <1>4, <2>3, <2>4, <3>1, <3>2
    <2> QED
      BY <1>1, <1>5, <2>2, <2>5, <2>7 DEF CoverInv
  <1>7. CASE UploadSummary(c)
    <2>1. /\ AppendRecord([chunk |-> TRUE, ops |-> {}]) /\ j.up = {}
          /\ job' = [job EXCEPT ![c].summary = headSeq + 1]
          /\ pc'[c] = "check" /\ UNCHANGED <<ret, page, todo>>
      BY <1>0, <1>7 DEF UploadSummary, Goto, StepTyped
    <2>2. j2.up = {} /\ j2.keep = j.keep /\ j2.summary = h + 1
      BY <1>0, <2>1 DEF JobTyped, JobType, headSeq
    <2>3. [chunk |-> TRUE, ops |-> {}] \in Record
      BY <1>0, RecordsMade
    <2>4. cp' = cp
      BY <2>1, <2>3, CoverAppended
    <2>5. j.keep \subseteq 1..h
      BY <1>2 DEF CoverOK, PlacesOK
    <2>6. CoverOK(recs', live', cp, "upload", "idle", n, S, L, pg, t, j2)
      <3> HIDE DEF n, S, L, pg, t, j, j2, h
      <3>1. j2.keep \subseteq 1..(h + 1)
        BY <1>0, <2>2, <2>5
      <3> QED
        BY <1>4, <2>1, <2>2, <2>3, <3>1
    <2>7. CoverOK(recs', live', cp, "check", "idle", n, S, L, pg, t, j2)
      <3> HIDE DEF n, S, L, pg, t, j, j2, h
      <3>1. BuildOK(recs', live', cp, "check", "idle", n, S, L, j2)
        BY <2>2, <2>6 DEF CoverOK, BuildOK, Uploading
      <3>2. TodoOK("check", S, t) /\ PullOK(recs', live', cp, "check", n, S, L, pg, t)
        BY <2>6 DEF CoverOK, TodoOK, PullOK
      <3> QED
        BY <2>6, <3>1, <3>2 DEF CoverOK
    <2> QED
      BY <1>1, <1>5, <2>1, <2>4, <2>7 DEF CoverInv
  <1> QED
    BY <1>3, <1>6, <1>7

\* The last look before the commit: no record is left between the cursor and
\* the summary.
LEMMA CoverCheck ==
  ASSUME TypeInv, CheckpointOK, NEW c \in Device, CoverInv(c),
         CheckFrom(c) \/ CheckRows(c) \/ CommitRefused(c)
  PROVE  CoverInv(c)'
  <1> DEFINE n == cursor[c]
             S == Has(c)
             L == lost[c]
             pg == page[c]
             t == todo[c]
             j == job[c]
             j2 == job'[c]
  <1>0. TypeOK /\ ServerTyped /\ RowsTyped /\ StepTyped /\ JobTyped /\ Len(recs) \in Nat
    BY TypeParts, LenProperties DEF TypeInv, ServerTyped
  <1>1. UNCHANGED <<recs, live, cp, cursor>> /\ Has(c)' = S /\ lost'[c] = L
    BY DEF CheckFrom, CheckRows, CommitRefused, historyVars, rowVars, pastVars, Has
  <1>2. CoverOK(recs, live, cp, pc[c], ret[c], n, S, L, pg, t, j)
    BY DEF CoverInv
  <1>3. CASE CommitRefused(c)
    BY <1>0, <1>1, <1>2, <1>3, CoverSettled DEF CommitRefused
  <1>4. n \in Nat /\ cp.upto \in Nat
    BY <1>0, Sizes DEF RowsTyped, ServerTyped, Checkpoint, Positions
  <1>5. CASE CheckFrom(c)
    <2>1. /\ pc[c] = "check" /\ pc'[c] = "recheck" /\ UNCHANGED <<ret, page, todo>>
          /\ job' = [job EXCEPT ![c].from = Larger(n, cp.upto)]
      BY <1>0, <1>5 DEF CheckFrom, At, Goto, StepTyped
    <2>2. /\ j2.from = Larger(n, cp.upto) /\ j2.keep = j.keep /\ j2.up = j.up
          /\ j2.summary = j.summary
      BY <1>0, <2>1 DEF JobTyped, JobType
    <2> HIDE DEF n, S, L, pg, t, j, j2
    <2>3. BuildOK(recs, live, cp, "check", ret[c], n, S, L, j)
      BY <1>2, <2>1 DEF CoverOK
    <2>4. j2.from = n
      BY <1>4, <2>2, <2>3 DEF BuildOK, Uploading, Larger
    <2>5. BuildOK(recs, live, cp, "recheck", ret[c], n, S, L, j2)
      BY <2>2, <2>3, <2>4 DEF BuildOK, Uploading, Pulling
    <2>6. PlacesOK(Len(recs), n, pg, j2)
      BY <1>2, <2>2 DEF CoverOK, PlacesOK
    <2>7. TodoOK("recheck", S, t) /\ PullOK(recs, live, cp, "recheck", n, S, L, pg, t)
      BY <1>2, <2>1 DEF CoverOK, TodoOK, PullOK
    <2>8. CoverOK(recs, live, cp, "recheck", ret[c], n, S, L, pg, t, j2)
      BY <1>2, <2>5, <2>6, <2>7 DEF CoverOK
    <2> QED
      BY <1>1, <2>1, <2>8 DEF CoverInv, n, S, L, pg, t, j2
  <1>9. CASE CheckRows(c) /\ Settle(c)
    BY <1>0, <1>1, <1>2, <1>9, CoverSettled
  <1>6. CASE CheckRows(c) /\ Goto(c, "head") /\ job' = [job EXCEPT ![c] = NoJob]
             /\ UNCHANGED <<ret, page, todo>>
    <2>1. /\ pc[c] = "recheck" /\ pc'[c] = "head" /\ UNCHANGED <<ret, page, todo>>
          /\ j2 = NoJob
      BY <1>0, <1>6 DEF CheckRows, At, Goto, StepTyped, JobTyped
    <2>2. ret[c] = "idle"
      BY <1>2, <2>1 DEF CoverOK, BuildOK, Pulling
    <2>3. PlacesOK(Len(recs), n, pg, NoJob)
      BY <1>0, <1>2 DEF CoverOK, PlacesOK, NoJob
    <2> HIDE DEF n, S, L, pg, t, j, j2
    <2>4. CoverOK(recs, live, cp, "head", "idle", n, S, L, pg, t, NoJob)
      BY <1>2, <2>1, <2>3, CoverQuiet DEF Uploading
    <2> QED
      BY <1>1, <2>1, <2>2, <2>4 DEF CoverInv, n, S, L, pg, t, j2
  <1>7. CASE /\ CheckRows(c) /\ Goto(c, "commit") /\ UNCHANGED <<ret, page, todo, job>>
             /\ ~\E s \in Page(j.from) : s < j.summary
    <2>1. pc[c] = "recheck" /\ pc'[c] = "commit" /\ UNCHANGED <<ret, page, todo, job>>
      BY <1>0, <1>7 DEF CheckRows, At, Goto, StepTyped
    <2>2. BuildOK(recs, live, cp, "recheck", ret[c], n, S, L, j)
      BY <1>2, <2>1 DEF CoverOK
    <2>3. j.from = n
      BY <2>2 DEF BuildOK
    <2>4. ASSUME NEW s \in OrdinaryAfter(recs, live, n)
          PROVE  s >= j.summary
      <3>1. s \in After(n) /\ s \in 1..headSeq
        BY <1>0 DEF OrdinaryAfter, After, ServerTyped
      <3>2. PICK x \in Page(n) : x <= s
        BY <1>0, <3>1, PageFirst
      <3>3. ~(x < j.summary)
        BY <1>7, <2>3, <3>2
      <3>4. x \in 1..headSeq /\ headSeq \in Nat /\ j.summary \in Nat
        <4>1. x \in live
          BY <3>2 DEF Page, After
        <4> QED
          BY <1>0, <4>1, Sizes DEF ServerTyped, headSeq, JobTyped, JobType, Positions
      <3> HIDE DEF j, n
      <3> QED
        BY <3>1, <3>2, <3>3, <3>4
    <2> HIDE DEF n, S, L, pg, t, j, j2
    <2>5. BuildOK(recs, live, cp, "commit", ret[c], n, S, L, j)
      BY <2>2, <2>4 DEF BuildOK, Uploading, Pulling
    <2>6. TodoOK("commit", S, t) /\ PullOK(recs, live, cp, "commit", n, S, L, pg, t)
      BY <1>2, <2>1 DEF CoverOK, TodoOK, PullOK
    <2>7. CoverOK(recs, live, cp, "commit", ret[c], n, S, L, pg, t, j)
      BY <1>2, <2>5, <2>6 DEF CoverOK
    <2> QED
      BY <1>1, <2>1, <2>7 DEF CoverInv, n, S, L, pg, t, j
  <1> QED
    <2>1. CASE CheckRows(c)
      <3>1. \E bad \in Unopened(c, Page(j.from)) :
              \/ Goto(c, "head") /\ job' = [job EXCEPT ![c] = NoJob] /\ UNCHANGED <<ret, page, todo>>
              \/ Settle(c)
              \/ /\ Goto(c, "commit") /\ UNCHANGED <<ret, page, todo, job>> /\ bad = {}
                 /\ ~\E s \in Page(j.from) \ bad : s < j.summary
        BY <2>1 DEF CheckRows
      <3> QED
        BY <1>6, <1>7, <1>9, <2>1, <3>1
    <2> QED
      BY <1>3, <1>5, <2>1

\* history.checkpoint.commit: what a new device would be given before the
\* commit it is given after it, unless the device that commits has lost it.
LEMMA CommitGives ==
  ASSUME TypeInv, CheckpointOK, NEW c \in Device, CoverInv(c), Commits(c)
  PROVE  /\ Given(recs, live, cp) \subseteq Given(recs', live', cp') \cup lost[c]
         /\ Given(recs', live', cp') \subseteq Has(c) \cup Rest(recs', live', cp'.upto)
         /\ Rest(recs', live', cp'.upto) \subseteq Rest(recs, live, cp.upto)
         /\ \A s \in live : s > cp'.upto => s \in live'
         /\ recs' = recs /\ cp'.upto = job[c].summary /\ cp'.upto >= cp.upto
  <1> DEFINE n == cursor[c]
             j == job[c]
  <1>0. ServerTyped /\ JobTyped
    BY TypeParts DEF TypeInv
  <1>1. /\ pc[c] = "commit" /\ ValidCommit(j.summary, j.keep)
        /\ CommitCheckpoint(j.summary, j.keep)
    BY DEF Commits, Commit, CommitUnanswered, At
  <1>2. /\ recs' = recs /\ cp'.upto = j.summary /\ cp'.chunks = j.keep
        /\ live' = {s \in live : s > j.summary \/ s \in j.keep \cup {j.summary}}
        /\ j.summary >= cp.upto /\ recs[j.summary].chunk
    BY <1>1 DEF ValidCommit, CommitCheckpoint
  <1>3. BuildOK(recs, live, cp, "commit", ret[c], n, Has(c), lost[c], j)
    BY <1>1 DEF CoverInv, CoverOK
  <1>4. j.summary \in Nat /\ cp.upto \in Nat /\ live \subseteq Nat
    BY <1>0, Sizes DEF ServerTyped, Checkpoint, JobTyped, JobType, Positions
  <1> HIDE DEF n, j
  <1>5. /\ Given(recs, live, cp) \subseteq OpsIn(recs, j.keep) \cup Rest(recs, live, n) \cup lost[c]
        /\ OpsIn(recs, j.keep) \subseteq Has(c)
        /\ \A s \in OrdinaryAfter(recs, live, n) : s >= j.summary
    BY <1>3 DEF BuildOK, Uploading
  <1>6. OrdinaryAfter(recs, live, n) \subseteq OrdinaryAfter(recs, live', j.summary)
    <2> SUFFICES ASSUME NEW s \in OrdinaryAfter(recs, live, n)
                 PROVE  s \in OrdinaryAfter(recs, live', j.summary)
      OBVIOUS
    <2>1. s \in live /\ ~recs[s].chunk /\ s >= j.summary /\ s # j.summary
      BY <1>2, <1>5 DEF OrdinaryAfter
    <2>2. s > j.summary
      BY <1>4, <2>1
    <2> QED
      BY <1>2, <2>1, <2>2 DEF OrdinaryAfter
  <1>7. Given(recs', live', cp') = OpsIn(recs, j.keep) \cup Rest(recs, live', j.summary)
    BY <1>2 DEF Given
  <1>8. Rest(recs, live, n) \subseteq Rest(recs, live', j.summary)
    BY <1>6 DEF Rest, OpsIn
  <1>9. OrdinaryAfter(recs, live', j.summary) \subseteq OrdinaryAfter(recs, live, cp.upto)
    <2> SUFFICES ASSUME NEW s \in OrdinaryAfter(recs, live', j.summary)
                 PROVE  s \in OrdinaryAfter(recs, live, cp.upto)
      OBVIOUS
    <2>1. s \in live /\ ~recs[s].chunk /\ s > j.summary
      BY <1>2 DEF OrdinaryAfter
    <2>2. s > cp.upto
      BY <1>2, <1>4, <2>1
    <2> QED
      BY <2>1, <2>2 DEF OrdinaryAfter
  <1>10. Rest(recs, live', j.summary) \subseteq Rest(recs, live, cp.upto)
    BY <1>9 DEF Rest, OpsIn
  <1>11. \A s \in live : s > cp'.upto => s \in live'
    BY <1>2
  <1> QED
    BY <1>2, <1>5, <1>7, <1>8, <1>10, <1>11 DEF j

\* The device that commits has what its checkpoint gives, or it is to come,
\* whether the answer reaches it or not.
LEMMA CoverCommit ==
  ASSUME TypeInv, CheckpointOK, NEW c \in Device, CoverInv(c), Commits(c)
  PROVE  CoverInv(c)'
  <1> DEFINE n == cursor[c]
             n2 == cursor'[c]
             S == Has(c)
             L == lost[c]
             u == job[c].summary
  <1>0. ServerTyped /\ RowsTyped /\ WorkTyped /\ JobTyped /\ Len(recs) \in Nat
    BY TypeParts, LenProperties DEF TypeInv, ServerTyped, WorkTyped
  <1>1. /\ Given(recs', live', cp') \subseteq S \cup Rest(recs, live', u)
        /\ Rest(recs, live', u) \subseteq Rest(recs, live, cp.upto)
        /\ \A s \in live : s > u => s \in live'
        /\ recs' = recs /\ cp'.upto = u /\ u >= cp.upto
    BY CommitGives
  <1>2. /\ Settle(c) /\ Has(c)' = S /\ lost'[c] = L /\ L \subseteq S /\ n2 \in {n, Larger(n, u)}
    BY <1>0 DEF Commits, Commit, CommitUnanswered, rowVars, RowsTyped, pastVars, Has
  <1>3. n \in Nat /\ u \in Nat /\ cp.upto \in Nat /\ live \subseteq Nat
    BY <1>0, Sizes
       DEF RowsTyped, ServerTyped, Checkpoint, JobTyped, JobType, Positions
  <1>4. n <= Len(recs) /\ u <= Len(recs) /\ Covered(recs, live, cp, n, S)
    BY DEF CoverInv, CoverOK, PlacesOK
  <1>5. /\ pc'[c] = "idle" /\ ret'[c] = "idle" /\ page'[c] = NoPage
        /\ todo'[c] = NoTodo /\ job'[c] = NoJob
    BY <1>0, <1>2 DEF Settle, Goto, WorkTyped, StepTyped, PageTyped, TodoTyped, JobTyped
  <1> HIDE DEF n, n2, S, L, u
  <1>6. n2 = u \/ n2 = n
    BY <1>2 DEF Larger
  <1>7. n2 <= Len(recs)
    BY <1>4, <1>6
  <1>8. Covered(recs, live', cp', n2, S)
    <2>1. CASE n2 = u
      BY <1>1, <2>1 DEF Covered
    <2>2. CASE n2 = n /\ n >= u
      <3>1. Rest(recs, live, cp.upto) \subseteq Given(recs, live, cp)
        BY DEF Given
      <3>2. Given(recs, live, cp) \subseteq S \cup Rest(recs, live, n)
        BY <1>1, <1>3, <1>4, <2>2 DEF Covered
      <3>3. OrdinaryAfter(recs, live, n) \subseteq OrdinaryAfter(recs, live', n)
        <4> SUFFICES ASSUME NEW s \in OrdinaryAfter(recs, live, n)
                     PROVE  s \in OrdinaryAfter(recs, live', n)
          OBVIOUS
        <4>1. s \in live /\ s > n /\ ~recs[s].chunk
          BY DEF OrdinaryAfter
        <4>2. s > u
          BY <1>3, <2>2, <4>1
        <4> QED
          BY <1>1, <4>1, <4>2 DEF OrdinaryAfter
      <3>4. Rest(recs, live, n) \subseteq Rest(recs, live', n)
        BY <3>3 DEF Rest, OpsIn
      <3> QED
        BY <1>1, <2>2, <3>1, <3>2, <3>4 DEF Covered
    <2>3. CASE n2 = n /\ ~(n >= u)
      BY <1>1, <2>3 DEF Covered
    <2> QED
      BY <1>6, <2>1, <2>2, <2>3
  <1>9. CoverOK(recs, live', cp', "idle", "idle", n2, S, L, NoPage, NoTodo, NoJob)
    BY <1>0, <1>2, <1>7, <1>8, CoverIdle
  <1> QED
    BY <1>1, <1>2, <1>5, <1>9 DEF CoverInv, n2

\* Every operation of the device that builds the checkpoints.
LEMMA CoverOwn ==
  ASSUME TypeInv, CheckpointOK, NEW c \in Device, CoverInv(c), DeviceStep(c)
  PROVE  CoverInv(c)'
  BY CoverHost, CoverRead, CoverLoad, CoverOpen, CoverAbsorb, CoverPageDone, CoverFlush, CoverFails,
     CoverBuild, CoverUpload, CoverCheck, CoverCommit
     DEF DeviceStep, Pull, Compact, Fault, Commits

\* Every operation of a device that does not.
LEMMA CoverOther ==
  ASSUME TypeInv, CheckpointOK, NEW c \in Device, CoverInv(c), NEW d \in Device, d # c,
         pc[d] \notin Compacting, DeviceStep(d)
  PROVE  CoverInv(c)'
  <1>0. TypeOK /\ PagesOrdinary
    BY DEF TypeInv
  <1>1. UNCHANGED DeviceState(c)
    BY <1>0, OthersSame
  <1>2. /\ Has(c)' = Has(c) /\ lost'[c] = lost[c] /\ cursor'[c] = cursor[c] /\ pc'[c] = pc[c] /\ ret'[c] = ret[c]
        /\ page'[c] = page[c] /\ todo'[c] = todo[c] /\ job'[c] = job[c]
    BY <1>1 DEF DeviceState, Has
  <1>3. UNCHANGED historyVars \/ Appends(d)
    <2>1. ~Commits(d)
      BY DEF Commits, Commit, CommitUnanswered, At, Compacting, Uploading
    <2> QED
      BY <1>0, <2>1, ServerStep
  <1>4. CASE UNCHANGED historyVars
    BY <1>2, <1>4 DEF historyVars, CoverInv
  <1>5. CASE Appends(d)
    <2>1. PICK r \in Record : AppendRecord(r)
      BY <1>5 DEF Appends
    <2>2. /\ CoverOK(recs', live', cp, pc[c], ret[c], cursor[c], Has(c), lost[c],
                     page[c], todo[c], job[c])
          /\ cp' = cp
      BY <2>1, CoverAppended
    <2> QED
      BY <1>2, <2>2 DEF CoverInv
  <1> QED
    BY <1>3, <1>4, <1>5

\* A device that does not build checkpoints never begins one.
LEMMA RoleStep ==
  ASSUME TypeInv, NEW d \in Device, DeviceStep(d), UNCHANGED scene, NEW e \in Device, RoleOK(e)
  PROVE  RoleOK(e)'
  <1>0. TypeOK /\ StepTyped /\ PagesOrdinary
    BY TypeParts DEF TypeInv
  <1>1. CASE e # d
    <2>1. pc'[e] = pc[e] /\ ret'[e] = ret[e]
      BY <1>0, <1>1, OthersSame DEF DeviceState
    <2> QED
      BY <2>1 DEF RoleOK
  <1>2. CASE e = d /\ d \notin scene.compactors
    <2>1. pc[d] \notin Compacting /\ ret[d] # "build" /\ pc[d] \in Steps
          /\ ret[d] \in {"idle", "take", "build"}
      BY <1>0, <1>2 DEF RoleOK, StepTyped
    <2>2. ~AskHead(d) /\ ~Compact(d) /\ ~CommitUnanswered(d)
      BY <1>2, <2>1 DEF AskHead, Compact, Due, Build, UploadSegment, UploadSummary, UploadRefused,
           CheckFrom, CheckRows, Commit, CommitRefused, CommitUnanswered, At, Compacting, Uploading
    <2>3. CASE Settle(d)
      BY <1>0, <1>2, <2>3 DEF RoleOK, Settle, Goto, StepTyped, Compacting, Uploading
    <2>4. CASE ~Settle(d)
      <3>1. CASE Host(d) \/ Sync(d) \/ Lapse(d)
        BY <1>0, <1>2, <2>1, <3>1 DEF RoleOK, Host, RecordGet, RecordPut, RecordQueue, Sync, Lapse,
             Goto, StepTyped, Compacting, Uploading, workVars
      <3>2. CASE Pull(d)
        BY <1>0, <1>2, <2>1, <2>4, <3>2 DEF RoleOK, Pull, ReadHead, ReadCheckpoint, ReadRows, LoadSummary,
             LoadSegment, AbsorbGet, AbsorbPut, CheckpointLoaded, OpenWaits, PullEnds, Open, PageDone,
             Goto, StepTyped, Compacting, Uploading
      <3>3. CASE Flush(d) \/ Write(d) \/ FlushFailed(d)
        BY <1>0, <1>2, <2>1, <2>4, <3>3 DEF RoleOK, Flush, Write, Take, AppendOp, FlushDone,
             FlushRefused, FlushFailed, Requeue, Goto, StepTyped, Compacting, Uploading
      <3>4. CASE RequestFails(d) \/ Crash(d)
        BY <1>0, <1>2, <2>1, <2>4, <3>4 DEF RoleOK, RequestFails, PullEnds, Crash, Goto, StepTyped,
             Compacting, Uploading
      <3> QED
        BY <2>2, <3>1, <3>2, <3>3, <3>4 DEF DeviceStep, Fault
    <2> QED
      BY <2>3, <2>4
  <1>3. CASE e = d /\ d \in scene.compactors
    BY <1>3 DEF RoleOK
  <1> QED
    BY <1>1, <1>2, <1>3

\* Whatever happens to the journal, a new device is given no less than before
\* and every record that is written, but for what is lost by the device that
\* commits.
LEMMA GivenStep ==
  ASSUME TypeInv, CheckpointOK, NEW d \in Device, DeviceStep(d), Commits(d) => CoverInv(d)
  PROVE  /\ \/ Given(recs, live, cp) \subseteq Given(recs', live', cp')
            \/ Commits(d) /\ Given(recs, live, cp) \subseteq Given(recs', live', cp') \cup lost[d]
         /\ Journaled' \subseteq Journaled \cup Given(recs', live', cp')
  <1>0. TypeOK /\ ServerTyped /\ JournalTyped(recs, live, cp)
    BY TypeParts, CoverTyped DEF TypeInv
  <1>1. CASE UNCHANGED historyVars
    BY <1>1 DEF historyVars, Journaled, headSeq
  <1>2. CASE Appends(d)
    <2>1. PICK r \in Record : AppendRecord(r)
      BY <1>2 DEF Appends
    <2>2. /\ headSeq \in Nat /\ headSeq' = headSeq + 1 /\ recs'[headSeq + 1] = r
          /\ \A s \in 1..headSeq : recs'[s] = recs[s]
          /\ live' = live \cup {headSeq + 1} /\ cp' = cp
      BY <1>0, <2>1, AppendTyped
    <2>3. Longer(recs, live, headSeq, recs', live')
      BY <1>0, <2>2 DEF Longer, ServerTyped
    <2>4. cp.upto \in Nat /\ cp.upto <= headSeq /\ cp.chunks \subseteq 1..headSeq
      <3>1. /\ cp \in Checkpoint /\ cp.upto <= headSeq
            /\ live \subseteq 1..headSeq /\ cp.chunks \subseteq live
        BY <1>0 DEF JournalTyped, headSeq
      <3>2. cp.chunks \subseteq 1..headSeq
        BY <3>1, Zenon
      <3>3. cp.upto \in Nat
        BY Sizes, <3>1 DEF Checkpoint, Positions
      <3> QED
        BY <3>1, <3>2, <3>3
    <2>5. Given(recs', live', cp) = Given(recs, live, cp) \cup (IF r.chunk THEN {} ELSE r.ops)
      BY <2>2, <2>3, <2>4, GivenGrows
    <2>6. Journaled' \subseteq Journaled \cup (IF r.chunk THEN {} ELSE r.ops)
      <3> SUFFICES ASSUME NEW s \in 1..headSeq', ~recs'[s].chunk, NEW o \in recs'[s].ops
                   PROVE  o \in Journaled \cup (IF r.chunk THEN {} ELSE r.ops)
        BY DEF Journaled
      <3>1. CASE s \in 1..headSeq
        BY <2>2, <3>1, OrdinaryJournaled
      <3>2. CASE s = headSeq + 1
        BY <2>2, <3>2
      <3> QED
        BY <2>2, <3>1, <3>2
    <2> QED
      BY <2>2, <2>5, <2>6
  <1>3. CASE Commits(d)
    <2>1. Given(recs, live, cp) \subseteq Given(recs', live', cp') \cup lost[d] /\ recs' = recs
      BY <1>3, CommitGives
    <2> QED
      BY <1>3, <2>1 DEF Journaled, headSeq
  <1> QED
    BY <1>0, <1>1, <1>2, <1>3, ServerStep

\* A commit is within the journal.
LEMMA CheckpointStep ==
  ASSUME TypeInv, CheckpointOK, [Next]_vars, NEW d \in Device, DeviceStep(d)
  PROVE  CheckpointOK'
  <1>0. TypeOK /\ ServerTyped /\ JobTyped
    BY TypeParts DEF TypeInv
  <1>1. CheckpointAlive'
    BY AliveStep DEF CheckpointOK
  <1>2. headSeq \in Nat /\ headSeq' \in Nat /\ headSeq <= headSeq'
    BY <1>0, ServerKeeps
  <1>3. cp.upto \in Nat /\ cp.id \in Nat
    BY <1>0, Sizes DEF ServerTyped, Checkpoint, Positions
  <1>4. CASE cp' = cp
    BY <1>1, <1>2, <1>3, <1>4 DEF CheckpointOK
  <1>5. CASE Commits(d)
    <2>1. /\ ValidCommit(job[d].summary, job[d].keep)
          /\ CommitCheckpoint(job[d].summary, job[d].keep)
      BY <1>5 DEF Commits, Commit, CommitUnanswered
    <2>2. cp'.id = cp.id + 1 /\ cp'.upto = job[d].summary /\ job[d].summary <= headSeq
      BY <2>1 DEF ValidCommit, CommitCheckpoint
    <2>3. job[d].summary \in Nat
      BY <1>0, Sizes DEF JobTyped, JobType, Positions
    <2> QED
      BY <1>1, <1>2, <1>3, <2>2, <2>3 DEF CheckpointOK
  <1>6. cp' = cp \/ Commits(d)
    <2>1. Appends(d) => cp' = cp
      BY DEF Appends, AppendRecord
    <2> QED
      BY <1>0, <2>1, ServerStep DEF historyVars
  <1> QED
    BY <1>4, <1>5, <1>6

\* One device only builds checkpoints.
LEMMA SoleOne ==
  ASSUME TypeInv, Sole, NEW c \in scene.compactors, NEW d \in scene.compactors
  PROVE  c = d /\ c \in Device
  <1>1. scene.compactors \subseteq Device
    BY HistorySyncAssumption DEF TypeInv, TypeOK
  <1>2. IsFiniteSet(scene.compactors)
    BY <1>1, FS_Subset, HistorySyncAssumption
  <1>3. \E x : scene.compactors = {x}
    BY <1>2, FS_Singleton DEF Sole
  <1> QED
    BY <1>1, <1>3

\* The inductive step.
LEMMA CompactStepKeeps ==
  ASSUME TypeInv, CompactInv, [Next]_vars
  PROVE  CompactInv'
  <1>1. CASE UNCHANGED vars \/ (UNCHANGED scene /\ \E o : Ages(o))
    <2>1. UNCHANGED <<recs, live, cp, store, cursor, lost, pc, ret, page, todo, job, scene>>
      BY <1>1 DEF vars, Ages, historyVars, rowVars, workVars, pastVars
    <2>2. CheckpointOK' /\ (\A d \in Device : RoleOK(d)') /\ Sole' = Sole
      BY <2>1 DEF CompactInv, CheckpointOK, CheckpointAlive, headSeq, RoleOK, Sole
    <2>3. Journaled' = Journaled /\ \A c \in scene.compactors : CoverInv(c) => CoverInv(c)'
      BY <2>1 DEF Journaled, headSeq, CoverInv, Has
    <2> QED
      BY <2>1, <2>2, <2>3 DEF CompactInv
  <1>2. CASE UNCHANGED scene /\ \E d \in Device : DeviceStep(d)
    <2>1. PICK d \in Device : DeviceStep(d)
      BY <1>2
    <2>2. UNCHANGED scene
      BY <1>2
    <2>3. CheckpointOK
      BY DEF CompactInv
    <2>4. CheckpointOK'
      BY <2>1, <2>3, CheckpointStep
    <2>5. \A e \in Device : RoleOK(e)'
      BY <2>1, <2>2, RoleStep DEF CompactInv
    <2>6. ASSUME Sole
          PROVE  \A c \in scene.compactors :
                   Journaled' \subseteq Given(recs', live', cp') \cup lost'[c] /\ CoverInv(c)'
      <3>1. PICK c \in scene.compactors : scene.compactors = {c} /\ c \in Device
        <4>1. scene.compactors # {}
          BY <2>6, FS_EmptySet DEF Sole
        <4> QED
          BY <2>6, <4>1, SoleOne
      <3>2. CoverInv(c) /\ Journaled \subseteq Given(recs, live, cp) \cup lost[c]
        BY <2>6, <3>1 DEF CompactInv
      <3>3. d # c => pc[d] \notin Compacting
        BY <2>1, <3>1 DEF CompactInv, RoleOK
      <3>4. CoverInv(c)'
        BY <2>1, <2>3, <3>1, <3>2, <3>3, CoverOwn, CoverOther
      <3>5. Commits(d) => d = c
        BY <3>3 DEF Commits, Commit, CommitUnanswered, At, Compacting, Uploading
      <3>6. /\ Given(recs, live, cp) \subseteq Given(recs', live', cp') \cup lost[c]
            /\ Journaled' \subseteq Journaled \cup Given(recs', live', cp')
        BY <2>1, <2>3, <3>2, <3>5, GivenStep
      <3>7. lost[c] \subseteq lost'[c]
        <4>1. TypeOK /\ PagesOrdinary
          BY DEF TypeInv
        <4>2. CASE d = c
          BY <2>1, <4>1, <4>2, LostStep
        <4>3. CASE d # c
          BY <2>1, <3>1, <4>1, <4>3, OthersSame DEF DeviceState
        <4> QED
          BY <4>2, <4>3
      <3> QED
        BY <3>1, <3>2, <3>4, <3>6, <3>7
    <2>7. Sole' = Sole /\ scene' = scene
      BY <2>2 DEF Sole
    <2> QED
      BY <2>4, <2>5, <2>6, <2>7 DEF CompactInv
  <1> QED
    BY <1>1, <1>2 DEF Next, DeviceStep

\* In the beginning there is nothing to miss.
LEMMA CompactInit == Init => CompactInv
  <1> SUFFICES ASSUME Init PROVE CompactInv
    OBVIOUS
  <1>1. recs = <<>> /\ live = {} /\ cp = NoCheckpoint
    BY DEF Init, HistoryInit
  <1>2. Len(recs) = 0 /\ headSeq = 0
    BY <1>1, EmptySeq DEF headSeq
  <1>3. CheckpointOK
    BY <1>1, <1>2 DEF CheckpointOK, CheckpointAlive, NoCheckpoint
  <1>4. \A d \in Device : RoleOK(d)
    BY DEF Init, RoleOK, Compacting, Uploading
  <1>5. Journaled = {} /\ Given(recs, live, cp) = {}
    BY <1>1, <1>2 DEF Journaled, Given, Rest, OpsIn, OrdinaryAfter, NoCheckpoint
  <1>6. ASSUME NEW c \in Device PROVE CoverInv(c)
    <2>1. Covered(recs, live, cp, 0, {})
      BY <1>5 DEF Covered
    <2>2. CoverOK(recs, live, cp, "idle", "idle", 0, {}, {}, NoPage, NoTodo, NoJob)
      BY <1>2, <2>1, CoverIdle
    <2>3. Has(c) = {} /\ lost[c] = {}
      BY DEF Init, Has
    <2> QED
      BY <2>2, <2>3 DEF Init, CoverInv
  <1>7. scene.compactors \subseteq Device
    BY HistorySyncAssumption DEF Init
  <1> QED
    BY <1>3, <1>4, <1>5, <1>6, <1>7 DEF CompactInv

\* What the inductive invariant says of the two properties.
LEMMA CompactMeans == TypeInv /\ CompactInv => NothingCompactedAway /\ CompactorCovers
  <1> SUFFICES ASSUME TypeInv, CompactInv PROVE NothingCompactedAway /\ CompactorCovers
    OBVIOUS
  <1>1. ServerTyped /\ RowsTyped /\ CheckpointOK
    BY TypeParts DEF TypeInv, CompactInv
  <1>2. Recoverable = Given(recs, live, cp) /\ \A n : After(n) = OrdinaryAfter(recs, live, n)
    BY <1>1, RecoverableIs DEF ServerTyped
  <1>3. NothingCompactedAway
    BY <1>2 DEF NothingCompactedAway, CompactInv
  <1>4. ASSUME Sole, NEW c \in scene.compactors
        PROVE  Journaled \subseteq store[c] \cup ToCome(c) \cup lost[c]
    <2>1. c \in Device
      BY <1>4, SoleOne
    <2>2. /\ Journaled \subseteq Given(recs, live, cp) \cup lost[c]
          /\ Covered(recs, live, cp, cursor[c], Has(c))
      BY <1>4 DEF CompactInv, CoverInv, CoverOK
    <2>3. cursor[c] \in Nat /\ cp.upto \in Nat
      BY <1>1, <2>1, Sizes DEF ServerTyped, RowsTyped, Checkpoint, Positions
    <2>4. CASE cursor[c] < cp.upto
      BY <1>2, <2>2, <2>4 DEF ToCome
    <2>5. CASE ~(cursor[c] < cp.upto)
      <3>1. Journaled \subseteq Has(c) \cup Rest(recs, live, cursor[c])
        BY <2>2, <2>3, <2>5 DEF Covered, Has
      <3>2. ToCome(c) = Rest(recs, live, cursor[c])
        BY <1>2, <2>5 DEF ToCome, Rest, OpsIn
      <3> QED
        BY <3>1, <3>2 DEF Has
    <2> QED
      BY <2>4, <2>5
  <1> QED
    BY <1>3, <1>4 DEF CompactorCovers

\* buildCheckpointLocked for any page, quota, faults and number of devices, of
\* which one builds checkpoints: a commit deletes no operation for good that
\* this device has not lost before.
THEOREM CheckpointsKeepAll == Spec => []NothingCompactedAway
  <1>1. TypeInv /\ CompactInv /\ [Next]_vars => CompactInv'
    BY CompactStepKeeps
  <1> QED
    BY <1>1, CompactInit, CompactMeans, TypeInit, TypeStep, PTL DEF Spec

\* pullLocked for the same: the device that builds the checkpoints passes no
\* record it has not merged, but for those it has lost.
THEOREM CompactorPassesNothing == Spec => []CompactorCovers
  <1>1. TypeInv /\ CompactInv /\ [Next]_vars => CompactInv'
    BY CompactStepKeeps
  <1> QED
    BY <1>1, CompactInit, CompactMeans, TypeInit, TypeStep, PTL DEF Spec

-----------------------------------------------------------------------------
(* The shared history                                                      *)

\* What a device with store S, queues q, i and dk, calls U of record(), job j
\* and states t has of the operations A that were recorded.
RowsFrom(A, S) == S \subseteq A
QueuesFrom(A, q, i, dk) == Elements(q) \cup i \cup dk.incoming \subseteq A
CallsFrom(A, U) == \A r \in U : r.prev \subseteq A /\ (r.stored => r.input.op \in A)
JobFrom(A, j) == /\ j.due \cup Elements(j.batch) \subseteq A
                 /\ \A u \in j.up : u \subseteq A
TodoFrom(A, t) == /\ \A u \in t.updates : u \subseteq A
                  /\ \A m \in t.merging : m.ops \cup m.prev \subseteq A

DeviceFrom(d) == /\ RowsFrom(acted, store[d])
                 /\ QueuesFrom(acted, own[d], incoming[d], disk[d])
                 /\ CallsFrom(acted, ui[d])
                 /\ JobFrom(acted, job[d])
                 /\ TodoFrom(acted, todo[d])

\* Every operation anywhere was recorded on some device.
RecordsFrom == \A s \in 1..headSeq : recs[s].ops \subseteq acted
ActedInv == RecordsFrom /\ \A d \in Device : DeviceFrom(d)

\* A part of a queue has no more than the queue.
LEMMA PartElements ==
  ASSUME NEW s \in Seq(Op), NEW m \in Nat \ {0}, NEW n \in Nat, n <= Len(s)
  PROVE  Elements(SubSeq(s, m, n)) \subseteq Elements(s)
  <1>1. Len(s) \in Nat
    BY LenProperties
  <1>2. Len(SubSeq(s, m, n)) = (IF m <= n THEN n - m + 1 ELSE 0)
        /\ \A i \in 1..(n - m + 1) : SubSeq(s, m, n)[i] = s[m + i - 1]
    BY <1>1
  <1>3. ASSUME NEW i \in 1..Len(SubSeq(s, m, n))
        PROVE  SubSeq(s, m, n)[i] \in Elements(s)
    <2>1. i \in 1..(n - m + 1) /\ m + i - 1 \in 1..Len(s)
      BY <1>1, <1>2, <1>3
    <2> QED
      BY <1>2, <2>1 DEF Elements
  <1> QED
    BY <1>3 DEF Elements

\* Nor has what is left of it.
LEMMA TailPart == ASSUME NEW s \in Seq(Op), s # <<>>
                  PROVE  Elements(Tail(s)) \subseteq Elements(s) /\ Head(s) \in Elements(s)
  <1>1. Len(s) \in Nat /\ Len(s) >= 1 /\ Head(s) = s[1]
    BY LenProperties, EmptySeq
  <1>2. Len(Tail(s)) = Len(s) - 1 /\ \A i \in 1..Len(Tail(s)) : Tail(s)[i] = s[i + 1]
    BY <1>1
  <1>3. \A i \in 1..Len(Tail(s)) : i + 1 \in 1..Len(s)
    BY <1>1, <1>2
  <1> QED
    BY <1>1, <1>2, <1>3 DEF Elements

\* Two batches have what each has.
LEMMA ConcatPart == ASSUME NEW s \in Seq(Op), NEW t \in Seq(Op)
                    PROVE  Elements(s \o t) \subseteq Elements(s) \cup Elements(t)
  <1>1. /\ Len(s) \in Nat /\ Len(t) \in Nat /\ Len(s \o t) = Len(s) + Len(t)
        /\ \A i \in 1..Len(s) : (s \o t)[i] = s[i]
        /\ \A i \in 1..Len(t) : (s \o t)[Len(s) + i] = t[i]
    BY LenProperties
  <1>2. ASSUME NEW i \in 1..Len(s \o t)
        PROVE  (s \o t)[i] \in Elements(s) \cup Elements(t)
    <2>1. CASE i \in 1..Len(s)
      BY <1>1, <2>1 DEF Elements
    <2>2. CASE i \notin 1..Len(s)
      <3>1. i - Len(s) \in 1..Len(t) /\ i = Len(s) + (i - Len(s))
        BY <1>1, <1>2, <2>2
      <3>2. (s \o t)[i] = t[i - Len(s)]
        BY <1>1, <3>1
      <3> QED
        BY <3>1, <3>2 DEF Elements
    <2> QED
      BY <2>1, <2>2
  <1> QED
    BY <1>2 DEF Elements

\* Which steps write rows, and which records something.
LEMMA StoreMoves ==
  ASSUME NEW d \in Device, DeviceStep(d)
  PROVE  /\ UNCHANGED store \/ RecordPut(d) \/ LoadSummary(d) \/ AbsorbPut(d)
         /\ UNCHANGED acted \/ RecordPut(d)
         /\ RecordPut(d) \/ LoadSummary(d) \/ AbsorbPut(d) => UNCHANGED historyVars
  <1>1. Host(d) \/ Sync(d) \/ Pull(d) => UNCHANGED store \/ RecordPut(d) \/ LoadSummary(d) \/ AbsorbPut(d)
    BY DEF Host, RecordGet, RecordQueue, Sync, Pull, ReadHead, ReadCheckpoint, ReadRows,
           LoadSegment, AbsorbGet, CheckpointLoaded, OpenWaits, Open, PageDone, rowVars
  <1>2. Host(d) \/ Sync(d) \/ Pull(d) => UNCHANGED acted \/ RecordPut(d)
    BY DEF Host, RecordGet, RecordQueue, Sync, Pull, ReadHead, ReadCheckpoint, ReadRows,
           LoadSummary, LoadSegment, AbsorbGet, AbsorbPut, CheckpointLoaded, OpenWaits, Open, PageDone, pastVars
  <1>3. Flush(d) \/ Write(d) => UNCHANGED <<store, acted>>
    BY DEF Flush, Write, Take, AppendOp, FlushDone, FlushRefused, rowVars, pastVars
  <1>4. AskHead(d) \/ Compact(d) => UNCHANGED <<store, acted>>
    BY DEF AskHead, Compact, Due, Build, UploadSegment, UploadSummary, UploadRefused, CheckFrom,
           CheckRows, Commit, CommitRefused, rowVars, pastVars
  <1>5. Fault(d) => UNCHANGED <<store, acted>>
    BY DEF Fault, FlushFailed, CommitUnanswered, RequestFails, Crash, Lapse, rowVars, pastVars
  <1>6. RecordPut(d) \/ LoadSummary(d) \/ AbsorbPut(d) => UNCHANGED historyVars
    BY DEF RecordPut, LoadSummary, AbsorbPut
  <1> QED
    BY <1>1, <1>2, <1>3, <1>4, <1>5, <1>6 DEF DeviceStep

\* What was recorded stays recorded.
LEMMA ActedGrows ==
  ASSUME NEW d \in Device, DeviceStep(d)
  PROVE  acted \subseteq acted'
  BY StoreMoves DEF RecordPut

\* applyToStore: nothing, or the message becomes what was read and what is
\* merged, and what it was besides is undone.
LEMMA PutWrites ==
  ASSUME TypeOK, NEW d \in Device, NEW prev, NEW ops \in SUBSET Op, PutState(d, prev, ops)
  PROVE  \/ UNCHANGED <<store, lost>> /\ ops \subseteq prev
         \/ \E less \in SUBSET store[d] :
              /\ less \subseteq Sharing(ops)
              /\ store' = [store EXCEPT ![d] = (@ \ less) \cup (prev \cup ops)]
              /\ lost' = [lost EXCEPT ![d] = @ \cup less]
  <1> DEFINE less == StateOf(d, ops) \ (prev \cup ops)
  <1>1. less \in SUBSET store[d] /\ less \subseteq Sharing(ops)
    BY DEF StateOf
  <1>2. (store[d] \ Sharing(ops)) \cup prev \cup ops = (store[d] \ less) \cup (prev \cup ops)
    BY DEF StateOf
  <1> QED
    BY <1>1, <1>2 DEF PutState

\* The rows.
LEMMA RowsFromStep ==
  ASSUME TypeInv, ActedInv, NEW d \in Device, DeviceStep(d)
  PROVE  RowsFrom(acted', store'[d])
  <1>0. TypeOK /\ RowsTyped /\ PastTyped /\ TodoTyped /\ DeviceFrom(d) /\ acted \subseteq acted'
    BY TypeParts, ActedGrows DEF TypeInv, ActedInv
  <1>1. CASE UNCHANGED store
    BY <1>0, <1>1 DEF DeviceFrom, RowsFrom
  <1>2. CASE RecordPut(d)
    <2>1. PICK r \in ui[d] : PutState(d, r.prev, {r.input.op}) /\ acted' = acted \cup {r.input.op}
      BY <1>2 DEF RecordPut
    <2>2. r.input.op \in Op /\ r.prev \subseteq acted
      BY <1>0, HistorySyncAssumption DEF PastTyped, Calls, DeviceFrom, CallsFrom
    <2>3. UNCHANGED store \/ \E less : store' =
            [store EXCEPT ![d] = (@ \ less) \cup (r.prev \cup {r.input.op})]
      BY <1>0, <2>1, <2>2, PutWrites
    <2> QED
      BY <1>0, <2>1, <2>2, <2>3 DEF DeviceFrom, RowsFrom, RowsTyped
  <1>3. CASE LoadSummary(d)
    BY <1>0, <1>3 DEF LoadSummary, RowsTyped, DeviceFrom, RowsFrom
  <1>4. CASE AbsorbPut(d)
    <2>1. PICK m \in todo[d].merging : PutState(d, m.prev, m.ops)
      BY <1>4 DEF AbsorbPut
    <2>2. m.ops \in SUBSET Op /\ m.prev \cup m.ops \subseteq acted
      BY <1>0 DEF TodoTyped, TodoType, DeviceFrom, TodoFrom
    <2>3. UNCHANGED store \/ \E less : store' = [store EXCEPT ![d] = (@ \ less) \cup (m.prev \cup m.ops)]
      BY <1>0, <2>1, <2>2, PutWrites
    <2> QED
      BY <1>0, <2>2, <2>3 DEF DeviceFrom, RowsFrom, RowsTyped
  <1> QED
    BY <1>1, <1>2, <1>3, <1>4, StoreMoves

\* The queues.
LEMMA QueuesFromStep ==
  ASSUME TypeInv, ActedInv, NEW d \in Device, DeviceStep(d)
  PROVE  QueuesFrom(acted', own'[d], incoming'[d], disk'[d])
  <1>0. /\ WaitTyped /\ JobTyped /\ DeviceFrom(d) /\ acted \subseteq acted'
        /\ disk[d].own = own[d]
    BY TypeParts, ActedGrows DEF TypeInv, ActedInv, OwnInv
  <1>1. /\ Elements(own[d]) \cup incoming[d] \cup disk[d].incoming \cup job[d].due \subseteq acted
        /\ own[d] \in Seq(Op) /\ Len(own[d]) \in Nat
    BY <1>0, LenProperties DEF DeviceFrom, QueuesFrom, JobFrom, WaitTyped
  <1>2. ASSUME Elements(own'[d]) \cup incoming'[d] \subseteq acted',
               SavePending(d) \/ UNCHANGED disk
        PROVE  QueuesFrom(acted', own'[d], incoming'[d], disk'[d])
    <2>1. disk'[d].incoming \in {incoming'[d], disk[d].incoming}
      BY <1>0, <1>2 DEF SavePending, WaitTyped
    <2> QED
      BY <1>0, <1>1, <1>2, <2>1 DEF QueuesFrom
  <1>3. CASE UNCHANGED <<own, incoming, disk>>
    BY <1>0, <1>1, <1>3 DEF QueuesFrom
  <1>4. CASE RecordQueue(d)
    <2>1. PICK r \in ui[d] :
            /\ r.stored
            /\ own' = IF r.input.own THEN [own EXCEPT ![d] = Append(@, r.input.op)] ELSE own
            /\ incoming' = IF r.input.own \/ r.input.op \in seen[d] THEN incoming
                           ELSE [incoming EXCEPT ![d] = @ \cup {r.input.op}]
            /\ SavePending(d) \/ UNCHANGED disk
      BY <1>4 DEF RecordQueue
    <2>2. r.input.op \in acted /\ r.input.op \in Op
      <3>1. r.input.op \in acted
        BY <1>0, <2>1 DEF DeviceFrom, CallsFrom
      <3> QED
        BY <3>1 DEF TypeInv, TypeOK
    <2>3. Elements(Append(own[d], r.input.op)) = Elements(own[d]) \cup {r.input.op}
      BY <1>1, <2>2, AppendElements
    <2>4. own'[d] \in {own[d], Append(own[d], r.input.op)}
          /\ incoming'[d] \subseteq incoming[d] \cup {r.input.op}
      BY <1>0, <2>1 DEF WaitTyped
    <2>5. Elements(own'[d]) \subseteq acted
      BY <1>1, <2>2, <2>3, <2>4
    <2> QED
      BY <1>0, <1>1, <1>2, <2>1, <2>2, <2>4, <2>5
  <1>5. CASE FlushDone(d)
    <2>1. /\ own'[d] = SubSeq(own[d], job[d].own + 1, Len(own[d])) /\ UNCHANGED incoming
          /\ SavePending(d)
      BY <1>0, <1>5 DEF FlushDone, WaitTyped
    <2>2. job[d].own + 1 \in Nat \ {0}
      BY <1>0 DEF JobTyped, JobType
    <2>3. Elements(own'[d]) \subseteq Elements(own[d])
      BY <1>1, <2>1, <2>2, PartElements
    <2> QED
      BY <1>0, <1>1, <1>2, <2>1, <2>3
  <1>6. CASE Take(d)
    <2>1. /\ incoming'[d] \subseteq incoming[d] /\ own'[d] = own[d]
          /\ SavePending(d) \/ UNCHANGED disk
      BY <1>0, <1>6 DEF Take, WaitTyped
    <2> QED
      BY <1>0, <1>1, <1>2, <2>1
  <1>7. CASE FlushRefused(d) \/ FlushFailed(d)
    <2>1. incoming'[d] = incoming[d] \cup job[d].due /\ own'[d] = own[d] /\ SavePending(d)
      BY <1>0, <1>7 DEF FlushRefused, FlushFailed, Requeue, WaitTyped
    <2> QED
      BY <1>0, <1>1, <1>2, <2>1
  <1>8. CASE Crash(d)
    <2>1. incoming'[d] = disk[d].incoming /\ own'[d] = own[d] /\ UNCHANGED disk
      BY <1>0, <1>8 DEF Crash, WaitTyped
    <2> QED
      BY <1>0, <1>1, <1>2, <2>1
  <1>9. \/ UNCHANGED <<own, incoming, disk>> \/ RecordQueue(d) \/ FlushDone(d) \/ Take(d)
        \/ FlushRefused(d) \/ FlushFailed(d) \/ Crash(d)
    <2>1. Sync(d) \/ Pull(d) => UNCHANGED <<own, incoming, disk>>
      BY DEF Sync, Pull, ReadHead, ReadCheckpoint, ReadRows, LoadSummary, LoadSegment, AbsorbGet,
             AbsorbPut, CheckpointLoaded, OpenWaits, Open, PageDone, queueVars
    <2>2. RecordGet(d) \/ RecordPut(d) \/ Flush(d) \/ AppendOp(d) => UNCHANGED <<own, incoming, disk>>
      BY DEF RecordGet, RecordPut, Flush, AppendOp, queueVars
    <2>3. AskHead(d) \/ Compact(d) => UNCHANGED <<own, incoming, disk>>
      BY DEF AskHead, Compact, Due, Build, UploadSegment, UploadSummary, UploadRefused, CheckFrom,
             CheckRows, Commit, CommitRefused, queueVars
    <2>4. CommitUnanswered(d) \/ RequestFails(d) \/ Lapse(d) => UNCHANGED <<own, incoming, disk>>
      BY DEF CommitUnanswered, RequestFails, Lapse, queueVars
    <2> QED
      BY <2>1, <2>2, <2>3, <2>4 DEF DeviceStep, Host, Write, Fault
  <1> QED
    BY <1>3, <1>4, <1>5, <1>6, <1>7, <1>8, <1>9

\* The calls of record().
LEMMA CallsFromStep ==
  ASSUME TypeInv, ActedInv, NEW d \in Device, DeviceStep(d)
  PROVE  CallsFrom(acted', ui'[d])
  <1>0. PastTyped /\ DeviceFrom(d) /\ acted \subseteq acted'
    BY TypeParts, ActedGrows DEF TypeInv, ActedInv
  <1>1. CASE UNCHANGED ui
    BY <1>0, <1>1 DEF DeviceFrom, CallsFrom
  <1>2. CASE RecordGet(d)
    <2>1. PICK i \in Inputs :
            ui' = [ui EXCEPT ![d] = {[input |-> i, prev |-> StateOf(d, {i.op}), stored |-> FALSE]}]
      BY <1>2 DEF RecordGet
    <2> DEFINE r == [input |-> i, prev |-> StateOf(d, {i.op}), stored |-> FALSE]
    <2>2. ui'[d] = {r} /\ ~r.stored /\ r.prev = StateOf(d, {i.op}) /\ r.input = i
      BY <1>0, <2>1 DEF PastTyped
    <2>4. StateOf(d, {i.op}) \subseteq store[d]
      BY DEF StateOf
    <2> HIDE DEF r
    <2> QED
      BY <1>0, <2>2, <2>4 DEF CallsFrom, DeviceFrom, RowsFrom
  <1>3. CASE RecordPut(d)
    <2>1. PICK r \in ui[d] : /\ ui' = [ui EXCEPT ![d] = {[r EXCEPT !.stored = TRUE]}]
                             /\ acted' = acted \cup {r.input.op}
      BY <1>3 DEF RecordPut
    <2> DEFINE r2 == [r EXCEPT !.stored = TRUE]
    <2>2. r \in Calls
      BY <1>0 DEF PastTyped
    <2>3. ui'[d] = {r2} /\ r2.prev = r.prev /\ r2.input = r.input
      BY <1>0, <2>1, <2>2 DEF PastTyped, Calls
    <2> HIDE DEF r2
    <2> QED
      BY <1>0, <2>1, <2>3 DEF CallsFrom, DeviceFrom
  <1>4. CASE RecordQueue(d) \/ Crash(d)
    <2>1. ui'[d] = {}
      BY <1>0, <1>4 DEF RecordQueue, Crash, PastTyped
    <2> QED
      BY <2>1 DEF CallsFrom
  <1>5. UNCHANGED ui \/ RecordGet(d) \/ RecordPut(d) \/ RecordQueue(d) \/ Crash(d)
    <2>1. Sync(d) \/ Pull(d) => UNCHANGED ui
      BY DEF Sync, Pull, ReadHead, ReadCheckpoint, ReadRows, LoadSummary, LoadSegment, AbsorbGet,
             AbsorbPut, CheckpointLoaded, OpenWaits, Open, PageDone
    <2>2. Flush(d) \/ Write(d) => UNCHANGED ui
      BY DEF Flush, Write, Take, AppendOp, FlushDone, FlushRefused
    <2>3. AskHead(d) \/ Compact(d) => UNCHANGED ui
      BY DEF AskHead, Compact, Due, Build, UploadSegment, UploadSummary, UploadRefused, CheckFrom,
             CheckRows, Commit, CommitRefused
    <2>4. FlushFailed(d) \/ CommitUnanswered(d) \/ RequestFails(d) \/ Lapse(d) => UNCHANGED ui
      BY DEF FlushFailed, CommitUnanswered, RequestFails, Lapse
    <2> QED
      BY <2>1, <2>2, <2>3, <2>4 DEF DeviceStep, Host, Fault
  <1> QED
    BY <1>1, <1>2, <1>3, <1>4, <1>5

\* Nothing is in hand.
LEMMA NothingFrom == ASSUME NEW A PROVE JobFrom(A, NoJob) /\ TodoFrom(A, NoTodo)
  <1>1. NoJob.due = {} /\ NoJob.batch = <<>> /\ NoJob.up = {}
    BY DEF NoJob
  <1>2. Elements(<<>>) = {}
    BY EmptySeq DEF Elements
  <1>3. NoTodo.updates = {} /\ NoTodo.merging = {}
    BY DEF NoTodo
  <1> QED
    BY <1>1, <1>2, <1>3 DEF JobFrom, TodoFrom

\* The worker's batch and segments.
LEMMA JobFromStep ==
  ASSUME TypeInv, ActedInv, NEW d \in Device, DeviceStep(d)
  PROVE  JobFrom(acted', job'[d])
  <1> DEFINE j == job[d]
             j2 == job'[d]
  <1>0. /\ TypeOK /\ RowsTyped /\ WaitTyped /\ JobTyped /\ DeviceFrom(d) /\ acted \subseteq acted'
    BY TypeParts, ActedGrows DEF TypeInv, ActedInv
  <1>1. JobFrom(acted, j) /\ j \in JobType /\ JobFrom(acted', j)
    BY <1>0 DEF DeviceFrom, JobTyped, JobFrom
  <1>2. ASSUME j2.due \subseteq acted', Elements(j2.batch) \subseteq acted',
               \A u \in j2.up : u \subseteq acted'
        PROVE  JobFrom(acted', j2)
    BY <1>2 DEF JobFrom
  <1>3. /\ j.due \subseteq acted' /\ Elements(j.batch) \subseteq acted'
         /\ \A u \in j.up : u \subseteq acted'
    BY <1>1 DEF JobFrom
  <1>4. CASE UNCHANGED job
    BY <1>1, <1>4
  <1>5. CASE j2 = NoJob
    BY <1>5, NothingFrom
  <1>6. CASE Flush(d)
    <2>1. PICK n \in {0, Len(own[d])}, due \in SUBSET incoming[d] :
            job' = [job EXCEPT ![d].own = n, ![d].due = due, ![d].batch = SubSeq(own[d], 1, n)]
      BY <1>6 DEF Flush
    <2>2. j2.due = due /\ j2.batch = SubSeq(own[d], 1, n) /\ j2.up = j.up
      BY <1>0, <2>1 DEF JobTyped, JobType
    <2>3. own[d] \in Seq(Op) /\ Len(own[d]) \in Nat
      BY <1>0, LenProperties DEF WaitTyped
    <2>4. Elements(SubSeq(own[d], 1, n)) \subseteq Elements(own[d])
      <3>1. n \in Nat /\ n <= Len(own[d]) /\ 1 \in Nat \ {0}
        BY <2>1, <2>3
      <3> QED
        BY <2>3, <3>1, PartElements
    <2>5. due \cup Elements(own[d]) \subseteq acted
      BY <1>0, <2>1 DEF DeviceFrom, QueuesFrom
    <2> HIDE DEF j, j2
    <2>6. Elements(j2.batch) \subseteq acted
      BY <2>2, <2>4, <2>5
    <2> QED
      BY <1>0, <1>2, <1>3, <2>2, <2>5, <2>6 DEF j2
  <1>7. CASE Take(d) /\ ~Settle(d)
    <2> DEFINE taken == j.due \ seen[d]
    <2>1. PICK s \in [1..Cardinality(taken) -> taken] :
            /\ Elements(s) = taken
            /\ job' = [job EXCEPT ![d].due = taken, ![d].batch = @ \o s]
      BY <1>7 DEF Take
    <2>2. j2.due = taken /\ j2.batch = j.batch \o s /\ j2.up = j.up
      BY <1>0, <2>1 DEF JobTyped, JobType
    <2>3. taken \subseteq Op /\ j.batch \in Seq(Op)
      BY <1>1 DEF JobType
    <2>4. Cardinality(taken) \in Nat
      BY <2>3, Sizes, FS_Subset, FS_CardinalityType
    <2>5. s \in Seq(Op)
      <3> DEFINE k == Cardinality(taken)
      <3>1. k \in Nat /\ s \in [1..k -> taken]
        BY <2>1, <2>4
      <3> HIDE DEF k, taken
      <3> QED
        BY <2>3, <3>1
    <2>6. Elements(j.batch \o s) \subseteq Elements(j.batch) \cup taken
      BY <2>1, <2>3, <2>5, ConcatPart
    <2>7. taken \subseteq j.due
      OBVIOUS
    <2> HIDE DEF j, j2, taken
    <2>8. Elements(j2.batch) \subseteq Elements(j.batch) \cup taken
      BY <2>2, <2>6
    <2> QED
      BY <1>2, <1>3, <2>2, <2>7, <2>8 DEF j2
  <1>8. CASE AppendOp(d)
    <2>1. job' = [job EXCEPT ![d].batch = Tail(@)] /\ j.batch # <<>>
      BY <1>8 DEF AppendOp
    <2>2. j2.due = j.due /\ j2.batch = Tail(j.batch) /\ j2.up = j.up
      BY <1>0, <2>1 DEF JobTyped, JobType
    <2>3. Elements(Tail(j.batch)) \subseteq Elements(j.batch)
      BY <1>1, <2>1, TailPart DEF JobType
    <2> HIDE DEF j, j2
    <2>4. Elements(j2.batch) \subseteq Elements(j.batch)
      BY <2>2, <2>3
    <2> QED
      BY <1>2, <1>3, <2>2, <2>4 DEF j2
  <1>9. CASE Build(d) /\ ~Settle(d)
    <2>1. PICK k, X : job' = [job EXCEPT ![d].keep = k, ![d].up = Segments(d) \ X]
      BY <1>9 DEF Build
    <2>2. j2.due = j.due /\ j2.batch = j.batch /\ j2.up \subseteq Segments(d)
      BY <1>0, <2>1 DEF JobTyped, JobType
    <2>3. ASSUME NEW u \in Segments(d) PROVE u \subseteq acted
      <3>1. PICK o \in store[d] : u = StateOf(d, {o})
        BY <2>3 DEF Segments
      <3> QED
        BY <1>0, <3>1 DEF StateOf, DeviceFrom, RowsFrom
    <2> HIDE DEF j, j2
    <2>4. \A u \in j2.up : u \subseteq acted'
      BY <1>0, <2>2, <2>3
    <2>5. Elements(j2.batch) \subseteq acted'
      BY <1>3, <2>2
    <2> QED
      BY <1>2, <1>3, <2>2, <2>4, <2>5 DEF j2
  <1>10. CASE UploadSegment(d)
    <2>1. PICK u, k : job' = [job EXCEPT ![d].up = @ \ {u}, ![d].keep = @ \cup {k}]
      BY <1>10 DEF UploadSegment
    <2>2. j2.due = j.due /\ j2.batch = j.batch /\ j2.up \subseteq j.up
      BY <1>0, <2>1 DEF JobTyped, JobType
    <2> QED
      BY <1>2, <1>3, <2>2
  <1>11. CASE AskHead(d) \/ UploadSummary(d) \/ CheckFrom(d) \/ (Due(d) /\ ~Settle(d))
    <2>1. \/ \E v : job' = [job EXCEPT ![d].head = v]
          \/ \E v : job' = [job EXCEPT ![d].summary = v]
          \/ \E v : job' = [job EXCEPT ![d].from = v]
          \/ \E v : job' = [job EXCEPT ![d].cp = v]
      BY <1>11 DEF AskHead, UploadSummary, CheckFrom, Due
    <2>2. j2.due = j.due /\ j2.batch = j.batch /\ j2.up = j.up
      BY <1>0, <2>1 DEF JobTyped, JobType
    <2> QED
      BY <1>2, <1>3, <2>2
  <1>12. Settle(d) \/ (CheckRows(d) /\ ~UNCHANGED job) => j2 = NoJob
    BY <1>0 DEF Settle, CheckRows, JobTyped
  <1>13. \/ UNCHANGED job \/ Settle(d) \/ Flush(d) \/ (Take(d) /\ ~Settle(d)) \/ AppendOp(d)
         \/ (Build(d) /\ ~Settle(d)) \/ UploadSegment(d) \/ AskHead(d) \/ UploadSummary(d)
         \/ CheckFrom(d) \/ (Due(d) /\ ~Settle(d)) \/ (CheckRows(d) /\ ~UNCHANGED job)
    <2>1. Host(d) \/ Sync(d) \/ Pull(d) => UNCHANGED job \/ Settle(d)
      BY DEF Host, RecordGet, RecordPut, RecordQueue, Sync, Pull, ReadHead, ReadCheckpoint,
             ReadRows, LoadSummary, LoadSegment, AbsorbGet, AbsorbPut, CheckpointLoaded, OpenWaits, Open, PageDone,
             PullEnds, workVars
    <2>2. FlushDone(d) \/ FlushRefused(d) \/ FlushFailed(d) => Settle(d)
      BY DEF FlushDone, FlushRefused, FlushFailed, Requeue
    <2>3. UploadRefused(d) \/ Commit(d) \/ CommitUnanswered(d) \/ CommitRefused(d) \/ Crash(d)
            => Settle(d)
      BY DEF UploadRefused, Commit, CommitUnanswered, CommitRefused, Crash
    <2>4. RequestFails(d) => UNCHANGED job \/ Settle(d)
      BY DEF RequestFails, PullEnds
    <2>5. Lapse(d) => UNCHANGED job
      BY DEF Lapse, workVars
    <2> QED
      BY <2>1, <2>2, <2>3, <2>4, <2>5 DEF DeviceStep, Write, Compact, Fault
  <1> QED
    BY <1>4, <1>5, <1>6, <1>7, <1>8, <1>9, <1>10, <1>11, <1>12, <1>13

\* A record or some of them bring what was recorded.
LEMMA BroughtFrom ==
  ASSUME RecordsFrom, NEW S, S \subseteq 1..headSeq
  PROVE  \A u \in Brought(S) : u \subseteq acted
  BY DEF RecordsFrom, Brought

\* What the worker has fetched.
LEMMA TodoFromStep ==
  ASSUME TypeInv, ActedInv, NEW d \in Device, DeviceStep(d)
  PROVE  TodoFrom(acted', todo'[d])
  <1> DEFINE t == todo[d]
             t2 == todo'[d]
  <1>0. /\ TypeOK /\ ServerTyped /\ TodoTyped /\ PagesOrdinary /\ RecordsFrom
        /\ DeviceFrom(d) /\ acted \subseteq acted'
    BY TypeParts, ActedGrows DEF TypeInv, ActedInv
  <1>1. TodoFrom(acted, t) /\ TodoFrom(acted', t) /\ t \in TodoType
    BY <1>0 DEF DeviceFrom, TodoFrom, TodoTyped
  <1>2. ASSUME \A u \in t2.updates : u \in t.updates \/ (u \subseteq acted),
               \A m \in t2.merging : m \in t.merging
        PROVE  TodoFrom(acted', t2)
    <2> HIDE DEF t, t2
    <2> QED
      BY <1>0, <1>1, <1>2 DEF TodoFrom
  <1>3. CASE UNCHANGED todo
    BY <1>1, <1>3
  <1>4. CASE t2 = NoTodo
    BY <1>4, NothingFrom
  <1>6. CASE LoadSummary(d)
    <2>1. t2.updates = t.updates /\ t2.merging = t.merging
      BY <1>0, <1>6 DEF LoadSummary, TodoTyped, TodoType
    <2> QED
      BY <1>2, <2>1
  <1>7. CASE LoadSegment(d)
    <2>1. PICK s, opens : todo' = [todo EXCEPT ![d].segs = @ \ {s},
                              ![d].updates = IF s \in live /\ opens THEN {recs[s].ops} ELSE {}]
      BY <1>7 DEF LoadSegment
    <2>2. /\ t2.updates = (IF s \in live /\ opens THEN {recs[s].ops} ELSE {})
          /\ t2.merging = t.merging
      BY <1>0, <2>1 DEF TodoTyped, TodoType
    <2>3. \A u \in t2.updates : u \subseteq acted
      BY <1>0, <2>2 DEF ServerTyped, RecordsFrom
    <2> QED
      BY <1>2, <2>2, <2>3
  <1>8. CASE AbsorbGet(d)
    <2>1. PICK u \in t.updates :
            todo' = [todo EXCEPT ![d].updates = @ \ {u},
                                 ![d].merging = {[ops |-> u, prev |-> StateOf(d, u)]}]
      BY <1>8 DEF AbsorbGet
    <2> DEFINE m == [ops |-> u, prev |-> StateOf(d, u)]
    <2>2. t2.updates = t.updates \ {u} /\ t2.merging = {m} /\ m.ops = u /\ m.prev = StateOf(d, u)
      BY <1>0, <2>1 DEF TodoTyped, TodoType
    <2>3. u \in SUBSET Op
      BY <1>1, <2>1 DEF TodoType
    <2>4. StateOf(d, u) \subseteq acted'
      BY <1>0 DEF StateOf, DeviceFrom, RowsFrom
    <2> HIDE DEF t, t2, m
    <2>5. TodoFrom(acted', t2)
      BY <1>1, <2>1, <2>2, <2>4 DEF TodoFrom
    <2> QED
      BY <2>5 DEF t2
  <1>9. CASE AbsorbPut(d)
    <2>1. t2.updates = t.updates /\ t2.merging = {}
      BY <1>0, <1>9 DEF AbsorbPut, TodoTyped, TodoType
    <2> QED
      BY <1>2, <2>1
  <1>10. CASE Open(d)
    <2>1. PICK bad : todo' = [todo EXCEPT ![d].updates = Brought(page[d].rows \ bad)]
      BY <1>10 DEF Open
    <2>2. t2.updates = Brought(page[d].rows \ bad) /\ t2.merging = t.merging
      BY <1>0, <2>1 DEF TodoTyped, TodoType
    <2>3. page[d].rows \ bad \subseteq 1..headSeq
      BY <1>0 DEF PagesOrdinary
    <2> QED
      BY <1>0, <1>2, <2>2, <2>3, BroughtFrom
  <1>11. Settle(d) \/ PullEnds(d) => t2 = NoTodo
    BY <1>0 DEF Settle, PullEnds, TodoTyped
  <1>12. \/ UNCHANGED todo \/ Settle(d) \/ PullEnds(d) \/ LoadSummary(d) \/ LoadSegment(d)
         \/ AbsorbGet(d) \/ AbsorbPut(d) \/ Open(d)
    <2>1. Host(d) \/ Sync(d) \/ ReadHead(d) \/ ReadCheckpoint(d) \/ ReadRows(d)
            \/ CheckpointLoaded(d) \/ PageDone(d) => UNCHANGED todo
      BY DEF Host, RecordGet, RecordPut, RecordQueue, Sync, ReadHead, ReadCheckpoint, ReadRows,
             CheckpointLoaded, PageDone, workVars
    <2>5. OpenWaits(d) \/ RequestFails(d) => PullEnds(d) \/ Settle(d)
      BY DEF OpenWaits, RequestFails
    <2>2. Flush(d) \/ Write(d) \/ FlushFailed(d) => UNCHANGED todo \/ Settle(d)
      BY DEF Flush, Write, Take, AppendOp, FlushDone, FlushRefused, FlushFailed, Requeue
    <2>3. AskHead(d) \/ Compact(d) => UNCHANGED todo \/ Settle(d)
      BY DEF AskHead, Compact, Due, Build, UploadSegment, UploadSummary, UploadRefused, CheckFrom,
             CheckRows, Commit, CommitRefused
    <2>4. CommitUnanswered(d) \/ Crash(d) \/ Lapse(d) => UNCHANGED todo \/ Settle(d)
      BY DEF CommitUnanswered, Crash, Lapse, workVars
    <2> QED
      BY <2>1, <2>2, <2>3, <2>4, <2>5 DEF DeviceStep, Pull, Fault
  <1> QED
    BY <1>3, <1>4, <1>6, <1>7, <1>8, <1>9, <1>10, <1>11, <1>12

\* The records.
LEMMA RecordsFromStep ==
  ASSUME TypeInv, ActedInv, NEW d \in Device, DeviceStep(d)
  PROVE  RecordsFrom'
  <1>0. /\ TypeOK /\ ServerTyped /\ JobTyped /\ RecordsFrom /\ JobFrom(acted, job[d])
        /\ acted \subseteq acted'
    BY TypeParts, ActedGrows DEF TypeInv, ActedInv, DeviceFrom
  <1>1. CASE UNCHANGED recs
    BY <1>0, <1>1 DEF RecordsFrom, headSeq
  <1>2. ASSUME NEW r \in Record, AppendRecord(r), r.ops \subseteq acted
        PROVE  RecordsFrom'
    <2>1. /\ headSeq \in Nat /\ headSeq' = headSeq + 1 /\ recs'[headSeq + 1] = r
          /\ \A s \in 1..headSeq : recs'[s] = recs[s]
      BY <1>0, <1>2, AppendTyped
    <2>2. \A s \in 1..headSeq' : s \in 1..headSeq \/ s = headSeq + 1
      BY <2>1
    <2> QED
      BY <1>0, <1>2, <2>1, <2>2 DEF RecordsFrom
  <1>3. CASE AppendOp(d) \/ FlushFailed(d)
    <2> DEFINE r == [chunk |-> FALSE, ops |-> {Head(job[d].batch)}]
    <2>1. job[d].batch # <<>> /\ (AppendRecord(r) \/ UNCHANGED recs)
      BY <1>3 DEF AppendOp, FlushFailed, historyVars
    <2>2. r \in Record /\ r.ops = {Head(job[d].batch)}
      BY <1>0, <2>1, RecordsMade
    <2>3. Head(job[d].batch) \in Elements(job[d].batch)
      BY <1>0, <2>1, TailPart DEF JobTyped, JobType
    <2> HIDE DEF r
    <2>4. r.ops \subseteq acted
      BY <1>0, <2>2, <2>3 DEF JobFrom
    <2> QED
      BY <1>1, <1>2, <2>1, <2>2, <2>4
  <1>4. CASE UploadSegment(d)
    <2>1. PICK u \in job[d].up : AppendRecord([chunk |-> TRUE, ops |-> u])
      BY <1>4 DEF UploadSegment
    <2> DEFINE r == [chunk |-> TRUE, ops |-> u]
    <2>2. r \in Record /\ r.ops = u /\ AppendRecord(r)
      BY <1>0, <2>1, RecordsMade
    <2>3. u \subseteq acted
      BY <1>0, <2>1 DEF JobFrom
    <2> HIDE DEF r
    <2> QED
      BY <1>2, <2>2, <2>3
  <1>5. CASE UploadSummary(d)
    <2> DEFINE r == [chunk |-> TRUE, ops |-> {}]
    <2>1. r \in Record /\ r.ops = {} /\ AppendRecord(r)
      BY <1>0, <1>5, RecordsMade DEF UploadSummary
    <2> HIDE DEF r
    <2> QED
      BY <1>2, <2>1
  <1>6. UNCHANGED recs \/ AppendOp(d) \/ FlushFailed(d) \/ UploadSegment(d) \/ UploadSummary(d)
    <2>1. Host(d) \/ Sync(d) \/ Pull(d) => UNCHANGED recs
      BY DEF Host, RecordGet, RecordPut, RecordQueue, Sync, Pull, ReadHead, ReadCheckpoint,
             ReadRows, LoadSummary, LoadSegment, AbsorbGet, AbsorbPut, CheckpointLoaded, OpenWaits, Open, PageDone,
             historyVars
    <2>2. Flush(d) \/ Take(d) \/ FlushDone(d) \/ FlushRefused(d) => UNCHANGED recs
      BY DEF Flush, Take, FlushDone, FlushRefused, historyVars
    <2>3. AskHead(d) \/ Due(d) \/ Build(d) \/ UploadRefused(d) \/ CheckFrom(d) \/ CheckRows(d)
            \/ CommitRefused(d) => UNCHANGED recs
      BY DEF AskHead, Due, Build, UploadRefused, CheckFrom, CheckRows, CommitRefused, historyVars
    <2>4. Commit(d) \/ CommitUnanswered(d) => UNCHANGED recs
      BY DEF Commit, CommitUnanswered, CommitCheckpoint
    <2>5. RequestFails(d) \/ Crash(d) \/ Lapse(d) => UNCHANGED recs
      BY DEF RequestFails, Crash, Lapse, historyVars
    <2> QED
      BY <2>1, <2>2, <2>3, <2>4, <2>5 DEF DeviceStep, Write, Compact, Fault
  <1> QED
    BY <1>1, <1>3, <1>4, <1>5, <1>6

\* One step of a device.
LEMMA ActedStep ==
  ASSUME TypeInv, ActedInv, NEW d \in Device, DeviceStep(d)
  PROVE  ActedInv'
  <1>1. DeviceFrom(d)'
    BY RowsFromStep, QueuesFromStep, CallsFromStep, JobFromStep, TodoFromStep
       DEF DeviceFrom, QueuesFrom, JobFrom, Elements
  <1>2. ASSUME NEW e \in Device, e # d PROVE DeviceFrom(e)'
    <2>1. UNCHANGED DeviceState(e) /\ acted \subseteq acted' /\ DeviceFrom(e)
      BY <1>2, OthersSame, ActedGrows DEF TypeInv, ActedInv
    <2>2. /\ store'[e] = store[e] /\ own'[e] = own[e] /\ incoming'[e] = incoming[e]
          /\ disk'[e] = disk[e] /\ ui'[e] = ui[e] /\ job'[e] = job[e] /\ todo'[e] = todo[e]
      BY <2>1 DEF DeviceState
    <2>3. RowsFrom(acted', store[e]) /\ QueuesFrom(acted', own[e], incoming[e], disk[e])
      BY <2>1 DEF DeviceFrom, RowsFrom, QueuesFrom
    <2>4. CallsFrom(acted', ui[e])
      BY <2>1 DEF DeviceFrom, CallsFrom
    <2>5. JobFrom(acted', job[e]) /\ TodoFrom(acted', todo[e])
      BY <2>1 DEF DeviceFrom, JobFrom, TodoFrom
    <2> QED
      BY <2>2, <2>3, <2>4, <2>5 DEF DeviceFrom
  <1>3. RecordsFrom'
    BY RecordsFromStep
  <1> QED
    BY <1>1, <1>2, <1>3 DEF ActedInv

\* In the beginning nothing was recorded.
LEMMA ActedInit == Init => ActedInv
  <1> SUFFICES ASSUME Init PROVE ActedInv
    OBVIOUS
  <1>1. RecordsFrom
    BY EmptySeq DEF Init, HistoryInit, RecordsFrom, headSeq
  <1>2. Elements(<<>>) = {}
    BY EmptySeq DEF Elements
  <1>3. ASSUME NEW d \in Device PROVE DeviceFrom(d)
    <2>1. RowsFrom(acted, store[d]) /\ CallsFrom(acted, ui[d])
      BY DEF Init, RowsFrom, CallsFrom
    <2>2. QueuesFrom(acted, own[d], incoming[d], disk[d])
      BY <1>2 DEF Init, QueuesFrom
    <2>3. JobFrom(acted, job[d]) /\ TodoFrom(acted, todo[d])
      BY NothingFrom DEF Init
    <2> QED
      BY <2>1, <2>2, <2>3 DEF DeviceFrom
  <1> QED
    BY <1>1, <1>3 DEF ActedInv

\* What a new device is given after a step.
LEMMA RecoverableNext ==
  ASSUME CheckpointOK', ServerTyped'
  PROVE  Recoverable' = Given(recs', live', cp') /\ cp'.chunks \subseteq live'
  <1>1. cp'.chunks \subseteq live'
    BY DEF CheckpointOK, CheckpointAlive, ServerTyped, Checkpoint
  <1>2. (UNION {Get(s) : s \in cp.chunks})' = OpsIn(recs', cp'.chunks)
    BY <1>1 DEF Get, OpsIn
  <1>3. After(cp.upto)' = OrdinaryAfter(recs', live', cp'.upto)
    BY DEF After, OrdinaryAfter
  <1>4. (UNION {recs[s].ops : s \in After(cp.upto)})'
           = OpsIn(recs', OrdinaryAfter(recs', live', cp'.upto))
    BY <1>3 DEF OpsIn
  <1> QED
    BY <1>1, <1>2, <1>4 DEF Recoverable, Given, Rest

\* The shared past grows only by what was recorded, and only what the device
\* has lost leaves it.
LEMMA KeptMoves ==
  ASSUME TypeInv, CompactInv, NEW d \in Device, DeviceStep(d), UNCHANGED scene,
         TypeInv', CompactInv', ActedInv'
  PROVE  Kept \subseteq Kept' \cup lost[d] /\ Kept' \subseteq acted'
  <1>0. TypeOK /\ ServerTyped /\ ServerTyped' /\ CheckpointOK /\ CheckpointOK' /\ Sole' = Sole
    <2>1. ServerTyped'
      BY DEF TypeInv, TypeOK, ServerTyped
    <2> QED
      BY <2>1, TypeParts DEF TypeInv, CompactInv, Sole
  <1>1. Recoverable = Given(recs, live, cp) /\ Recoverable' = Given(recs', live', cp')
        /\ cp'.chunks \subseteq live'
    BY <1>0, RecoverableIs, RecoverableNext DEF ServerTyped
  <1>2. ASSUME NEW s \in 1..headSeq' PROVE recs'[s].ops \subseteq acted'
    BY <1>2 DEF ActedInv, RecordsFrom
  <1>3. live' \subseteq 1..headSeq'
    BY <1>0 DEF ServerTyped
  <1>4. Journaled' \subseteq acted'
    BY <1>2 DEF Journaled
  <1>5. Given(recs', live', cp') \subseteq acted'
    <2>1. OpsIn(recs', cp'.chunks) \subseteq acted'
      BY <1>1, <1>2, <1>3 DEF OpsIn
    <2>2. Rest(recs', live', cp'.upto) \subseteq acted'
      BY <1>2, <1>3 DEF Rest, OpsIn, OrdinaryAfter
    <2> QED
      BY <2>1, <2>2 DEF Given
  <1>6. CASE Sole
    <2>1. Commits(d) => CoverInv(d)
      <3>1. ASSUME Commits(d) PROVE d \in scene.compactors
        BY <3>1 DEF CompactInv, RoleOK, Commits, Commit, CommitUnanswered, At, Compacting, Uploading
      <3> QED
        BY <1>6, <3>1 DEF CompactInv
    <2>2. Given(recs, live, cp) \subseteq Given(recs', live', cp') \cup lost[d]
      BY <1>0, <2>1, GivenStep
    <2> QED
      BY <1>0, <1>1, <1>5, <1>6, <2>2 DEF Kept
  <1>7. CASE ~Sole
    BY <1>0, <1>4, <1>7, JournaledKept DEF Kept
  <1> QED
    BY <1>6, <1>7

\* A step that leaves the journal alone leaves the shared past alone.
LEMMA KeptSame ==
  ASSUME UNCHANGED historyVars, UNCHANGED scene
  PROVE  Kept' = Kept
  <1>1. UNCHANGED <<recs, live, cp, scene>>
    BY DEF historyVars
  <1>2. Journaled' = Journaled /\ Sole' = Sole
    BY <1>1 DEF Journaled, headSeq, Sole
  <1>3. Recoverable' = Recoverable
    BY <1>1 DEF Recoverable, Get, After
  <1> QED
    BY <1>2, <1>3 DEF Kept

\* historyCompact: what a checkpoint leaves out is about a message of which
\* something is beyond the horizon.
LEMMA LeftOutOld ==
  ASSUME TypeOK, NEW d \in Device
  PROVE  LeftOut(d) \in SUBSET Op /\ LeftOut(d) \subseteq Shared!Near(aged)
  <1> SUFFICES ASSUME NEW o \in store[d], BeyondHorizon(StateOf(d, {o}))
               PROVE  o \in Op /\ o \in Shared!Near(aged)
    BY DEF LeftOut
  <1>1. o \in Op
    BY DEF TypeOK
  <1>2. o \in StateOf(d, {o}) /\ \A p \in StateOf(d, {o}) : scene.target[o] = scene.target[p]
    BY <1>1 DEF StateOf, Sharing
  <1>3. \E p \in StateOf(d, {o}) : p \in aged
    BY <1>2 DEF BeyondHorizon
  <1> QED
    BY <1>1, <1>2, <1>3 DEF Shared!Near

\* Which steps lose something, and why.
LEMMA LostWhy ==
  ASSUME TypeOK, PagesOrdinary, NEW d \in Device, DeviceStep(d),
         ~UNCHANGED lost, ~RecordPut(d), ~AbsorbPut(d)
  PROVE  /\ UNCHANGED <<historyVars, store, acted>>
         /\ \E ops \in SUBSET Op : /\ d \in scene.blind \/ ops \subseteq Shared!Near(aged)
                                   /\ lost' = [lost EXCEPT ![d] = @ \cup ops]
  <1>1. LoadSegment(d) \/ Open(d) \/ Build(d)
    <2>1. RecordGet(d) \/ RecordQueue(d) => UNCHANGED lost
      BY DEF RecordGet, RecordQueue, pastVars
    <2>2. Sync(d) \/ ReadHead(d) \/ ReadCheckpoint(d) \/ ReadRows(d) \/ LoadSummary(d)
            \/ AbsorbGet(d) \/ CheckpointLoaded(d) \/ OpenWaits(d) \/ PageDone(d) => UNCHANGED lost
      BY DEF Sync, ReadHead, ReadCheckpoint, ReadRows, LoadSummary, AbsorbGet, CheckpointLoaded,
             OpenWaits, PageDone, pastVars
    <2>3. Flush(d) \/ Write(d) => UNCHANGED lost
      BY DEF Flush, Write, Take, AppendOp, FlushDone, FlushRefused, pastVars
    <2>4. AskHead(d) \/ Compact(d) => Build(d) \/ UNCHANGED lost
      BY DEF AskHead, Compact, Due, UploadSegment, UploadSummary, UploadRefused, CheckFrom,
             CheckRows, Commit, CommitRefused, pastVars
    <2>5. Fault(d) => UNCHANGED lost
      BY DEF Fault, FlushFailed, CommitUnanswered, RequestFails, Crash, Lapse, pastVars
    <2> QED
      BY <2>1, <2>2, <2>3, <2>4, <2>5 DEF DeviceStep, Host, Pull
  <1>2. UNCHANGED <<historyVars, store, acted>>
    BY <1>1 DEF LoadSegment, Open, Build, rowVars
  <1>3. PICK ops \in SUBSET Op : lost' = [lost EXCEPT ![d] = @ \cup ops]
    BY LostStep
  <1>4. CASE LoadSegment(d)
    <2>1. PICK opens \in Opens(d) : ~opens
      BY <1>4 DEF LoadSegment
    <2>2. d \in scene.blind
      BY <2>1 DEF Opens
    <2> QED
      BY <1>2, <1>3, <2>2
  <1>5. CASE Open(d) /\ d \notin scene.blind
    <2>1. Unopened(d, page[d].rows) = {{}}
      BY <1>5 DEF Unopened
    <2>2. lost' = [lost EXCEPT ![d] = @ \cup UNION Brought({})]
      <3>1. \A opened : {s \in {} : ~page[d].more \/ \E t \in opened : s < t} = {}
        OBVIOUS
      <3> QED
        BY <1>5, <2>1, <3>1 DEF Open
    <2>3. UNION Brought({}) = {}
      BY DEF Brought
    <2>4. UNCHANGED lost
      BY <2>2, <2>3 DEF TypeOK
    <2> QED
      BY <2>4
  <1>6. CASE Build(d)
    <2>1. lost' = [lost EXCEPT ![d] = @ \cup LeftOut(d)]
      BY <1>6 DEF Build
    <2> QED
      BY <1>2, <2>1, LeftOutOld
  <1> QED
    BY <1>1, <1>2, <1>3, <1>4, <1>5, <1>6

\* Every step of every thread is one of the shared history, or does not show.
LEMMA SharedStep ==
  ASSUME TypeInv, CompactInv, ActedInv, NEW d \in Device, DeviceStep(d),
         UNCHANGED scene, TypeInv', CompactInv', ActedInv'
  PROVE  Shared!Next \/ UNCHANGED <<acted, Kept, store, lost>>
  <1>0. /\ TypeOK /\ PagesOrdinary /\ PastTyped /\ TodoTyped /\ DeviceFrom(d) /\ acted' \subseteq Op
        /\ aged' = aged
    BY TypeParts, PastStep DEF TypeInv, ActedInv, TypeOK
  <1>1. ASSUME NEW new \in SUBSET (Op \ acted), acted' = acted \cup new,
               NEW prev \in SUBSET acted, NEW ops \in SUBSET (acted \cup new), new \subseteq ops,
               PutState(d, prev, ops), Kept' = Kept
        PROVE  Shared!Next \/ UNCHANGED <<acted, Kept, store, lost>>
    <2>1. CASE UNCHANGED <<store, lost>> /\ ops \subseteq prev
      BY <1>1, <2>1
    <2>2. ASSUME NEW less \in SUBSET store[d], less \subseteq Sharing(ops),
                 store' = [store EXCEPT ![d] = (@ \ less) \cup (prev \cup ops)],
                 lost' = [lost EXCEPT ![d] = @ \cup less]
          PROVE  Shared!Next
      <3>1. less \subseteq Shared!Near(prev \cup ops)
        BY <2>2 DEF Sharing, Shared!Near
      <3>2. Shared!Write(d, new, prev \cup ops, less)
        BY <1>0, <1>1, <2>2, <3>1 DEF Shared!Write
      <3> QED
        BY <1>1, <2>2, <3>2 DEF Shared!Next
    <2>3. ops \in SUBSET Op
      BY <1>0, <1>1
    <2> QED
      BY <1>0, <1>1, <2>1, <2>2, <2>3, PutWrites
  <1>2. CASE RecordPut(d)
    <2>1. PICK r \in ui[d] : PutState(d, r.prev, {r.input.op}) /\ acted' = acted \cup {r.input.op}
      BY <1>2 DEF RecordPut
    <2>2. r.input.op \in Op /\ r.prev \subseteq acted
      BY <1>0, HistorySyncAssumption DEF PastTyped, Calls, DeviceFrom, CallsFrom
    <2>3. Kept' = Kept
      BY <1>2, KeptSame, StoreMoves
    <2> DEFINE new == {r.input.op} \ acted
    <2>4. new \in SUBSET (Op \ acted) /\ acted' = acted \cup new /\ new \subseteq {r.input.op}
      BY <2>1, <2>2
    <2> HIDE DEF new
    <2> QED
      BY <1>1, <2>1, <2>2, <2>3, <2>4
  <1>3. CASE AbsorbPut(d)
    <2>1. PICK m \in todo[d].merging : PutState(d, m.prev, m.ops)
      BY <1>3 DEF AbsorbPut
    <2>2. m.ops \in SUBSET Op /\ m.prev \cup m.ops \subseteq acted
      BY <1>0 DEF TodoTyped, TodoType, DeviceFrom, TodoFrom
    <2>3. Kept' = Kept /\ acted' = acted
      BY <1>3, KeptSame, StoreMoves DEF AbsorbPut
    <2> DEFINE new == {}
    <2>4. /\ new \in SUBSET (Op \ acted) /\ acted' = acted \cup new /\ new \subseteq m.ops
          /\ m.prev \in SUBSET acted /\ m.ops \in SUBSET (acted \cup new)
      BY <2>2, <2>3
    <2> HIDE DEF new
    <2> QED
      BY <1>1, <2>1, <2>3, <2>4
  <1>4. CASE ~UNCHANGED lost /\ ~RecordPut(d) /\ ~AbsorbPut(d)
    <2>1. PICK ops \in SUBSET Op : /\ d \in scene.blind \/ ops \subseteq Shared!Near(aged)
                                   /\ lost' = [lost EXCEPT ![d] = @ \cup ops]
      BY <1>0, <1>4, LostWhy
    <2>2. UNCHANGED <<store, acted>> /\ Kept' = Kept
      BY <1>0, <1>4, LostWhy, KeptSame
    <2>3. Shared!Lose(d, ops)
      BY <1>0, <2>1, <2>2 DEF Shared!Lose
    <2> QED
      BY <2>3 DEF Shared!Next
  <1>5. CASE LoadSummary(d)
    <2>1. Kept' = Kept /\ UNCHANGED <<acted, lost>>
      BY <1>5, KeptSame, StoreMoves DEF LoadSummary, pastVars
    <2>2. UNCHANGED store \/ store' = [store EXCEPT ![d] = {}]
      BY <1>5 DEF LoadSummary
    <2> QED
      BY <1>0, <2>1, <2>2 DEF Shared!Next, Shared!Replace
  <1>6. CASE UNCHANGED <<store, acted, lost>>
    <2>1. Kept \subseteq Kept' \cup lost[d] /\ Kept' \subseteq acted
      BY <1>6, KeptMoves
    <2> DEFINE less == Kept \ Kept'
    <2>2. Kept' \in SUBSET acted /\ less \in SUBSET lost[d] /\ Kept' = (Kept \ less) \cup Kept'
      BY <2>1
    <2>3. Shared!Share(d, Kept', less)
      BY <1>0, <1>6, <2>2 DEF Shared!Share
    <2> HIDE DEF less
    <2> QED
      BY <2>2, <2>3 DEF Shared!Next
  <1> QED
    BY <1>2, <1>3, <1>4, <1>5, <1>6, StoreMoves

\* In the beginning the shared past is empty.
LEMMA SharedInit == Init => Shared!Init
  <1> SUFFICES ASSUME Init PROVE Shared!Init
    OBVIOUS
  <1>1. Journaled = {} /\ Recoverable = {}
    BY EmptySeq DEF Init, HistoryInit, Journaled, headSeq, Recoverable, Get, After, NoCheckpoint
  <1> QED
    BY <1>1 DEF Init, Shared!Init, Kept

\* The journal, the stores, the queues and the checkpoints of any number of
\* devices implement one past that all of them share: only what a device has
\* undone, given up unopened or left out as too old leaves it.
THEOREM HistoryIsShared == Spec => ImplementsShared
  <1> DEFINE Inv == TypeInv /\ CompactInv /\ ActedInv
  <1>1. Init => Inv /\ Shared!Init
    BY TypeInit, CompactInit, ActedInit, SharedInit
  <1>2. Inv /\ [Next]_vars => Inv' /\ [Shared!Next]_(Shared!vars)
    <2> SUFFICES ASSUME Inv, [Next]_vars PROVE Inv' /\ [Shared!Next]_(Shared!vars)
      OBVIOUS
    <2>1. TypeInv' /\ CompactInv'
      BY TypeStep, CompactStepKeeps
    <2>2. CASE UNCHANGED vars
      <3>1. /\ UNCHANGED <<historyVars, scene, store, acted, own, incoming, disk, ui, job, todo>>
            /\ UNCHANGED <<lost, aged>>
        BY <2>2 DEF vars, rowVars, pastVars, queueVars, workVars
      <3>2. Kept' = Kept
        BY <3>1, KeptSame
      <3>3. ActedInv'
        BY <3>1 DEF ActedInv, RecordsFrom, DeviceFrom, headSeq, historyVars, RowsFrom, QueuesFrom,
                    CallsFrom, JobFrom, TodoFrom
      <3> QED
        BY <2>1, <3>1, <3>2, <3>3 DEF Shared!vars
    <2>3. CASE UNCHANGED scene /\ \E d \in Device : DeviceStep(d)
      <3>1. PICK d \in Device : DeviceStep(d)
        BY <2>3
      <3>2. ActedInv' /\ aged' = aged
        BY <3>1, ActedStep, PastStep DEF TypeInv
      <3> QED
        BY <2>1, <2>3, <3>1, <3>2, SharedStep DEF Shared!vars
    <2>4. CASE UNCHANGED scene /\ \E o \in scene.ages \ aged : Ages(o)
      <3>1. PICK o \in scene.ages : Ages(o)
        BY <2>4
      <3>2. UNCHANGED <<historyVars, scene, store, acted, own, incoming, disk, ui, job, todo, lost>>
        BY <2>4, <3>1 DEF Ages, rowVars, queueVars, workVars
      <3>3. Kept' = Kept /\ o \in Op
        BY <3>2, KeptSame, HistorySyncAssumption DEF TypeInv, TypeOK
      <3>4. ActedInv'
        BY <3>2 DEF ActedInv, RecordsFrom, DeviceFrom, headSeq, historyVars, RowsFrom, QueuesFrom,
                    CallsFrom, JobFrom, TodoFrom
      <3>5. Shared!Age(o)
        BY <3>1, <3>2, <3>3 DEF Ages, Shared!Age
      <3> QED
        BY <2>1, <3>2, <3>3, <3>4, <3>5 DEF Shared!Next
    <2> QED
      BY <2>2, <2>3, <2>4 DEF Next, DeviceStep
  <1> QED
    BY <1>1, <1>2, PTL DEF Spec, ImplementsShared, Shared!Spec
=============================================================================
