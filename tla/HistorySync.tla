---------------------------- MODULE HistorySync -----------------------------
(***************************************************************************)
(* The devices of one account and the history journal they share           *)
(* (desktop/parvane-core/src/history_sync.cpp, used by the desktop and the *)
(* android client).  On every device two threads run: the host calls       *)
(* record() when something happens to a message, and a worker pulls the    *)
(* journal, writes the queues into it and builds checkpoints.              *)
(*                                                                         *)
(* The state of a message is the set of operations merged into it          *)
(* (historyApply is idempotent and commutative), so a store is a set of    *)
(* operations.  netMu_ lets one network operation run on a device at a     *)
(* time: pc is where the worker is in it, and each SELECT or transaction   *)
(* of the server is one step.  The state of a message is read, merged and  *)
(* written back under no common lock: two steps of either thread, and one  *)
(* thread may undo what the other has merged.  A device may be unable to   *)
(* open a record (the key of the account has changed and not yet reached   *)
(* it).  Timers are nondeterministic; marks of what was read, parked       *)
(* mutations and chats cleared on one device only are left out.            *)
(***************************************************************************)
EXTENDS HistoryServer

CONSTANTS Device,
          Message,
          KindOf,         \* what an operation does: a row, a deletion, a change
          Inputs,         \* what can happen to the account: where, what, by whom
          Scenes,         \* what of it happens; the message each operation is
                          \* about; which devices build checkpoints, which have
                          \* faults and for which records may not open; which
                          \* operations grow old
          kRejectRetries, \* pulls that wait for records that do not open
          MaxFaults       \* bound: faults of all kinds together

ASSUME HistorySyncAssumption == /\ Scenes \subseteq [inputs : SUBSET Inputs,
                                                    target : [Op -> Message],
                                                    compactors : SUBSET Device,
                                                    unreliable : SUBSET Device,
                                                    blind : SUBSET Device, ages : SUBSET Op]
                                /\ IsFiniteSet(Op) /\ IsFiniteSet(Device)
                                /\ KindOf \in [Op -> {"row", "gone", "change"}]
                                /\ kRejectRetries \in Nat
                                /\ Inputs \subseteq [dev : Device, op : Op, own : BOOLEAN]
                                /\ MaxFaults \in Nat

VARIABLES store,       \* RowStore: the operations merged into the rows
          cursor,      \* meta.cursor
          force,       \* meta.forceCheckpoint
          casFailed,   \* meta.casFailedFor, -1 when absent
          lapsed,      \* the last full synchronisation is beyond the horizon
          streak,      \* meta.rejectStreak
          disk,        \* the document "pending": the two queues
          own,         \* pendingOwn_
          incoming,    \* incoming_
          seen,        \* seen_: operations known to be in the journal
          ui,          \* the call of record() that is running, if any
          pc, ret,     \* the worker's step, and where pullLocked returns to
          page,        \* pullLocked: the answer it works on
          todo,        \* segments to fetch and states to merge
          job,         \* flushLocked and buildCheckpointLocked: their locals
          acted,       \* history: the operations record() has put into a store
          done,        \* history: the inputs for which record() returned
          lost,        \* history: operations a device has undone, given up unopened
                       \* or left out of a checkpoint
          aged,        \* operations whose stamps are beyond the horizon by now
          crashed,     \* history: the devices that have crashed
          faults,
          scene        \* the one of Scenes that this is

rowVars == <<store, cursor, force, casFailed, lapsed, streak>>
queueVars == <<disk, own, incoming, seen>>
workVars == <<pc, ret, page, todo, job>>
pastVars == <<acted, done, lost, aged>>
faultVars == <<crashed, faults>>
vars == <<historyVars, rowVars, queueVars, ui, workVars, pastVars, faultVars, scene>>

NoPage == [head |-> 0, cp |-> NoCheckpoint, rows |-> {}, more |-> FALSE]
NoTodo == [segs |-> {}, updates |-> {}, merging |-> {}]
NoJob == [own |-> 0, due |-> {}, batch |-> <<>>,
          head |-> 0, cp |-> NoCheckpoint, keep |-> {}, up |-> {}, summary |-> 0, from |-> 0]

Init == /\ HistoryInit
        /\ store = [d \in Device |-> {}]
        /\ cursor = [d \in Device |-> 0]
        /\ force = [d \in Device |-> FALSE]
        /\ casFailed = [d \in Device |-> -1]
        /\ lapsed = [d \in Device |-> FALSE]
        /\ streak = [d \in Device |-> 0]
        /\ disk = [d \in Device |-> [own |-> <<>>, incoming |-> {}]]
        /\ own = [d \in Device |-> <<>>]
        /\ incoming = [d \in Device |-> {}]
        /\ seen = [d \in Device |-> {}]
        /\ ui = [d \in Device |-> {}]
        /\ pc = [d \in Device |-> "idle"]
        /\ ret = [d \in Device |-> "idle"]
        /\ page = [d \in Device |-> NoPage]
        /\ todo = [d \in Device |-> NoTodo]
        /\ job = [d \in Device |-> NoJob]
        /\ acted = {}
        /\ done = {}
        /\ lost = [d \in Device |-> {}]
        /\ aged = {}
        /\ crashed = {}
        /\ faults = 0
        /\ scene \in Scenes

----------------------------------------------------------------------------
(* applyToStore, and record() on the host's thread                         *)

Larger(a, b) == IF a >= b THEN a ELSE b
Elements(s) == {s[i] : i \in 1..Len(s)}

\* The operations about the same message, and those of them in the store.
Sharing(ops) == {p \in Op : \E o \in ops : scene.target[p] = scene.target[o]}
StateOf(d, ops) == store[d] \cap Sharing(ops)

\* applyToStore, its second half: prev is what its first half read.  What was
\* merged into the message since then is undone.
PutState(d, prev, ops) ==
  IF ops \subseteq prev THEN UNCHANGED <<store, lost>>
  ELSE /\ store' = [store EXCEPT ![d] = (@ \ Sharing(ops)) \cup prev \cup ops]
       /\ lost' = [lost EXCEPT ![d] = @ \cup (StateOf(d, ops) \ (prev \cup ops))]

\* savePendingLocked
SavePending(d) == disk' = [disk EXCEPT ![d] = [own |-> own'[d], incoming |-> incoming'[d]]]

RecordGet(d) ==
  /\ ui[d] = {}
  /\ \E i \in Inputs \ done :
       /\ i \in scene.inputs /\ i.dev = d
       /\ ui' = [ui EXCEPT ![d] = {[input |-> i, prev |-> StateOf(d, {i.op}), stored |-> FALSE]}]
  /\ UNCHANGED <<historyVars, rowVars, queueVars, workVars, pastVars, faultVars>>

RecordPut(d) ==
  \E r \in ui[d] :
    /\ ~r.stored
    /\ PutState(d, r.prev, {r.input.op})
    /\ ui' = [ui EXCEPT ![d] = {[r EXCEPT !.stored = TRUE]}]
    /\ acted' = acted \cup {r.input.op}
    /\ UNCHANGED <<historyVars, cursor, force, casFailed, lapsed, streak, queueVars, workVars, done,
                   aged, faultVars>>

\* The operation joins a queue; an incoming one only if the journal is not
\* known to have it.
RecordQueue(d) ==
  \E r \in ui[d] :
    /\ r.stored
    /\ own' = IF r.input.own THEN [own EXCEPT ![d] = Append(@, r.input.op)] ELSE own
    /\ incoming' = IF r.input.own \/ r.input.op \in seen[d] THEN incoming
                   ELSE [incoming EXCEPT ![d] = @ \cup {r.input.op}]
    /\ IF r.input.own \/ r.input.op \notin seen[d] THEN SavePending(d) ELSE UNCHANGED disk
    /\ ui' = [ui EXCEPT ![d] = {}]
    /\ done' = done \cup {r.input}
    /\ UNCHANGED <<historyVars, rowVars, seen, workVars, acted, lost, aged, faultVars>>

----------------------------------------------------------------------------
(* The worker                                                              *)

At(d, step) == pc[d] = step

Goto(d, step) == pc' = [pc EXCEPT ![d] = step]

\* The network operation ends.
Settle(d) == /\ Goto(d, "idle")
             /\ ret' = [ret EXCEPT ![d] = "idle"]
             /\ page' = [page EXCEPT ![d] = NoPage]
             /\ todo' = [todo EXCEPT ![d] = NoTodo]
             /\ job' = [job EXCEPT ![d] = NoJob]

\* loop: a notice or the poll asks for the journal.  A poll that finds
\* nothing changes nothing and is left out.
Sync(d) == /\ At(d, "idle")
           /\ cursor[d] < headSeq \/ lapsed[d]
           /\ Goto(d, "head")
           /\ UNCHANGED <<historyVars, rowVars, queueVars, ui, ret, page, todo, job, pastVars, faultVars>>

\* history.sync on the server: three SELECTs in no transaction.
ReadHead(d) == /\ At(d, "head")
               /\ Goto(d, "cp")
               /\ page' = [page EXCEPT ![d].head = headSeq]
               /\ UNCHANGED <<historyVars, rowVars, queueVars, ui, ret, todo, job, pastVars, faultVars>>

ReadCheckpoint(d) == /\ At(d, "cp")
                     /\ Goto(d, "rows")
                     /\ page' = [page EXCEPT ![d].cp = cp]
                     /\ UNCHANGED <<historyVars, rowVars, queueVars, ui, ret, todo, job, pastVars, faultVars>>

From(d) == Larger(cursor[d], page[d].cp.upto)
Compacted(d) == cursor[d] < page[d].cp.upto

\* The states records bring: one operation in each record.
Brought(rows) == {recs[s].ops : s \in rows}

\* ingest: which of some records do not open, and whether one does.
Unopened(d, rows) == IF d \in scene.blind THEN SUBSET rows ELSE {{}}
Opens(d) == IF d \in scene.blind THEN BOOLEAN ELSE {TRUE}

ReadRows(d) ==
  /\ At(d, "rows")
  /\ page' = [page EXCEPT ![d].rows = Page(From(d)), ![d].more = More(From(d))]
  /\ IF Compacted(d) THEN Goto(d, "summary") ELSE Goto(d, "open")
  /\ UNCHANGED <<historyVars, rowVars, queueVars, ui, ret, todo, job, pastVars, faultVars>>

\* loadCheckpointLocked up to the segments: a device that has not
\* synchronised for longer than the horizon replaces its history.
LoadSummary(d) ==
  /\ At(d, "summary")
  /\ Goto(d, "segments")
  /\ \E opens \in Opens(d) :
       store' = IF lapsed[d] /\ opens /\ page[d].cp.summary \in live
                THEN [store EXCEPT ![d] = {}] ELSE store
  /\ todo' = [todo EXCEPT ![d].segs = page[d].cp.chunks]
  /\ UNCHANGED <<historyVars, cursor, force, casFailed, lapsed, streak, queueVars, ui, ret, page, job,
                 pastVars, faultVars>>

\* Nothing is left to merge of what was fetched last.
Merged(d) == todo[d].updates = {} /\ todo[d].merging = {}

\* history.get of one segment; a row that is gone or does not open is passed
\* over.
LoadSegment(d) ==
  /\ At(d, "segments")
  /\ Merged(d)
  /\ \E s \in todo[d].segs, opens \in Opens(d) :
       /\ todo' = [todo EXCEPT ![d].segs = @ \ {s},
                               ![d].updates = IF s \in live /\ opens THEN {recs[s].ops} ELSE {}]
       /\ lost' = IF s \in live /\ ~opens THEN [lost EXCEPT ![d] = @ \cup recs[s].ops] ELSE lost
  /\ UNCHANGED <<historyVars, rowVars, queueVars, ui, pc, ret, page, job, acted, done, aged, faultVars>>

\* absorbOps, for one operation or state at a time.  Only the operations of
\* ordinary records have a key that noteSeen keeps.
AbsorbGet(d) ==
  /\ todo[d].merging = {}
  /\ \E u \in todo[d].updates :
       /\ todo' = [todo EXCEPT ![d].updates = @ \ {u},
                               ![d].merging = {[ops |-> u, prev |-> StateOf(d, u)]}]
       /\ seen' = IF At(d, "absorb") THEN [seen EXCEPT ![d] = @ \cup u] ELSE seen
  /\ UNCHANGED <<historyVars, rowVars, disk, own, incoming, ui, pc, ret, page, job, pastVars, faultVars>>

\* A slip: what is read takes the place of what was there.
AbsorbPutReplaces(d) ==
  /\ \E m \in todo[d].merging : store' = [store EXCEPT ![d] = m.ops]
  /\ todo' = [todo EXCEPT ![d].merging = {}]
  /\ UNCHANGED <<historyVars, cursor, force, casFailed, lapsed, streak, queueVars, ui, pc, ret, page, job,
                 pastVars, faultVars>>

AbsorbPut(d) ==
  /\ \E m \in todo[d].merging : PutState(d, m.prev, m.ops)
  /\ todo' = [todo EXCEPT ![d].merging = {}]
  /\ UNCHANGED <<historyVars, cursor, force, casFailed, lapsed, streak, queueVars, ui, pc, ret, page, job,
                 acted, done, aged, faultVars>>

CheckpointLoaded(d) ==
  /\ At(d, "segments")
  /\ Merged(d)
  /\ todo[d].segs = {}
  /\ Goto(d, "open")
  /\ cursor' = [cursor EXCEPT ![d] = Larger(@, page[d].cp.upto)]
  /\ UNCHANGED <<historyVars, store, force, casFailed, lapsed, streak, queueVars, ui, ret, page, todo, job,
                 pastVars, faultVars>>

\* A pull that ends early; flushLocked goes on after it.
PullEnds(d) == IF ret[d] = "take"
               THEN /\ Goto(d, "take")
                    /\ ret' = [ret EXCEPT ![d] = "idle"]
                    /\ page' = [page EXCEPT ![d] = NoPage]
                    /\ todo' = [todo EXCEPT ![d] = NoTodo]
                    /\ UNCHANGED job
               ELSE Settle(d)

\* Some records of the page do not open: the key may still come.
OpenWaits(d) ==
  /\ At(d, "open")
  /\ Unopened(d, page[d].rows) # {{}}
  /\ streak[d] < kRejectRetries
  /\ streak' = [streak EXCEPT ![d] = @ + 1]
  /\ PullEnds(d)
  /\ UNCHANGED <<historyVars, store, cursor, force, casFailed, lapsed, queueVars, ui, pastVars, faultVars>>

\* The records that open are merged.  Others are given up when the cursor will
\* pass them: it goes to the last that opened, or to the head.
Open(d) ==
  /\ At(d, "open")
  /\ Goto(d, "absorb")
  /\ \E bad \in Unopened(d, page[d].rows) :
       LET opened == page[d].rows \ bad
           passed == {s \in bad : ~page[d].more \/ \E t \in opened : s < t}
       IN  /\ bad # {} => streak[d] >= kRejectRetries
           /\ streak' = IF bad = {} THEN streak ELSE [streak EXCEPT ![d] = @ + 1]
           /\ page' = [page EXCEPT ![d].rows = opened]
           /\ todo' = [todo EXCEPT ![d].updates = Brought(opened)]
           /\ lost' = [lost EXCEPT ![d] = @ \cup UNION Brought(passed)]
  /\ UNCHANGED <<historyVars, store, cursor, force, casFailed, lapsed, queueVars, ui, ret, job, acted, done,
                 aged, faultVars>>

\* The cursor after a page: past its opened records, and past the head when
\* there is no other page.
Passed(d) == {cursor[d]} \cup page[d].rows \cup (IF page[d].more THEN {} ELSE {page[d].head})

\* A slip: the cursor goes to the head although there is another page.
PageDoneSkips(d) ==
  /\ At(d, "absorb")
  /\ Merged(d)
  /\ cursor' = [cursor EXCEPT ![d] = Larger(@, page[d].head)]
  /\ lapsed' = [lapsed EXCEPT ![d] = FALSE]
  /\ streak' = [streak EXCEPT ![d] = 0]
  /\ page' = [page EXCEPT ![d] = NoPage]
  /\ Goto(d, ret[d])
  /\ ret' = [ret EXCEPT ![d] = "idle"]
  /\ UNCHANGED <<historyVars, store, force, casFailed, queueVars, ui, todo, job, pastVars, faultVars>>

PageDone(d) ==
  /\ At(d, "absorb")
  /\ Merged(d)
  /\ cursor' = [cursor EXCEPT ![d] = CHOOSE n \in Passed(d) : \A k \in Passed(d) : k <= n]
  /\ lapsed' = [lapsed EXCEPT ![d] = @ /\ page[d].more]
  /\ streak' = [streak EXCEPT ![d] = 0]
  /\ page' = [page EXCEPT ![d] = NoPage]
  /\ IF page[d].more THEN Goto(d, "head") /\ UNCHANGED ret
     ELSE Goto(d, ret[d]) /\ ret' = [ret EXCEPT ![d] = "idle"]
  /\ UNCHANGED <<historyVars, store, force, casFailed, queueVars, ui, todo, job, pastVars, faultVars>>

----------------------------------------------------------------------------
(* flushLocked                                                             *)

\* Own operations all at once when they are due, incoming ones each at its
\* own time and after a pull.
Flush(d) ==
  /\ At(d, "idle")
  /\ \E n \in {0, Len(own[d])}, due \in SUBSET incoming[d] :
       /\ n > 0 \/ due # {}
       /\ job' = [job EXCEPT ![d].own = n, ![d].due = due, ![d].batch = SubSeq(own[d], 1, n)]
       /\ IF due = {} THEN Goto(d, "append") /\ UNCHANGED ret
          ELSE Goto(d, "head") /\ ret' = [ret EXCEPT ![d] = "take"]
  /\ UNCHANGED <<historyVars, rowVars, queueVars, ui, page, todo, pastVars, faultVars>>

\* The incoming operations leave the queue; those that the pull has shown to
\* be in the journal are dropped.
Take(d) ==
  LET taken == job[d].due \ seen[d]
  IN  /\ At(d, "take")
      /\ incoming' = [incoming EXCEPT ![d] = @ \ job[d].due]
      /\ UNCHANGED own
      /\ IF job[d].own = 0 /\ taken = {}
         THEN SavePending(d) /\ Settle(d)
         ELSE /\ Goto(d, "append")
              /\ \E s \in [1..Cardinality(taken) -> taken] :
                   /\ Elements(s) = taken
                   /\ job' = [job EXCEPT ![d].due = taken, ![d].batch = @ \o s]
              /\ UNCHANGED <<disk, ret, page, todo>>
      /\ UNCHANGED <<historyVars, rowVars, seen, ui, pastVars, faultVars>>

AppendOp(d) ==
  /\ At(d, "append")
  /\ job[d].batch # <<>>
  /\ AppendRecord([chunk |-> FALSE, ops |-> {Head(job[d].batch)}])
  /\ job' = [job EXCEPT ![d].batch = Tail(@)]
  /\ UNCHANGED <<rowVars, queueVars, ui, pc, ret, page, todo, pastVars, faultVars>>

FlushDone(d) ==
  /\ At(d, "append")
  /\ job[d].batch = <<>>
  /\ seen' = [seen EXCEPT ![d] = @ \cup job[d].due \cup Elements(SubSeq(own[d], 1, job[d].own))]
  /\ own' = [own EXCEPT ![d] = SubSeq(@, job[d].own + 1, Len(@))]
  /\ UNCHANGED incoming
  /\ SavePending(d)
  /\ Settle(d)
  /\ UNCHANGED <<historyVars, rowVars, ui, pastVars, faultVars>>

\* A slip: own operations are dropped although they were not written.
RequeueDropsOwn(d) == /\ incoming' = [incoming EXCEPT ![d] = @ \cup job[d].due]
                      /\ own' = [own EXCEPT ![d] = SubSeq(@, job[d].own + 1, Len(@))]
                      /\ UNCHANGED seen
                      /\ SavePending(d)
                      /\ Settle(d)

\* A slip: incoming operations that were taken do not return.
RequeueForgets(d) == /\ UNCHANGED <<own, incoming, seen>>
                     /\ SavePending(d)
                     /\ Settle(d)

\* An append threw: incoming operations return to the queue, own ones never
\* left it.
Requeue(d) == /\ incoming' = [incoming EXCEPT ![d] = @ \cup job[d].due]
              /\ UNCHANGED <<own, seen>>
              /\ SavePending(d)
              /\ Settle(d)

\* The append fails, before or after the server has written the record.
FlushFailed(d) ==
  /\ At(d, "append")
  /\ job[d].batch # <<>>
  /\ \/ UNCHANGED historyVars
     \/ AppendRecord([chunk |-> FALSE, ops |-> {Head(job[d].batch)}])
  /\ Requeue(d)
  /\ UNCHANGED <<rowVars, ui, pastVars, crashed>>

\* The journal is full: a checkpoint is asked for.
FlushRefused(d) ==
  /\ At(d, "append")
  /\ job[d].batch # <<>>
  /\ Full
  /\ force' = [force EXCEPT ![d] = TRUE]
  /\ Requeue(d)
  /\ UNCHANGED <<historyVars, store, cursor, casFailed, lapsed, streak, ui, pastVars, faultVars>>

----------------------------------------------------------------------------
(* maybeCheckpointLocked and buildCheckpointLocked                         *)

\* history.head: two SELECTs.
AskHead(d) == /\ At(d, "idle")
              /\ d \in scene.compactors
              /\ Goto(d, "due")
              /\ job' = [job EXCEPT ![d].head = headSeq]
              /\ UNCHANGED <<historyVars, rowVars, queueVars, ui, ret, page, todo, pastVars, faultVars>>

\* Whether a checkpoint is called for: never again after a lost race until
\* another checkpoint is there.
IsDue(d) == /\ casFailed[d] # cp.id
            /\ job[d].head > cp.upto \/ (force[d] /\ cp.id = 0)

Due(d) ==
  /\ At(d, "due")
  /\ casFailed' = IF casFailed[d] # cp.id THEN [casFailed EXCEPT ![d] = -1] ELSE casFailed
  /\ IF IsDue(d)
     THEN /\ Goto(d, "head")
          /\ ret' = [ret EXCEPT ![d] = "build"]
          /\ job' = [job EXCEPT ![d].cp = cp]
          /\ UNCHANGED <<page, todo>>
     ELSE Settle(d)
  /\ UNCHANGED <<historyVars, store, cursor, force, lapsed, streak, queueVars, ui, pastVars, faultVars>>

\* historyCompact: a deleted message goes once its deletion is beyond the
\* horizon, a message of which there is no row once everything is.
BeyondHorizon(state) ==
  IF \E o \in state : KindOf[o] = "row"
  THEN /\ \E o \in state : KindOf[o] = "gone"
       /\ \A o \in state : KindOf[o] = "gone" => o \in aged
  ELSE state \subseteq aged

\* The rows of the store by message, without those beyond the horizon.
Segments(d) == {s \in {StateOf(d, {o}) : o \in store[d]} : ~BeyondHorizon(s)}

\* What the device has and the checkpoint will not.
LeftOut(d) == {o \in store[d] : BeyondHorizon(StateOf(d, {o}))}

\* A segment that is in the current checkpoint already keeps its record unless
\* all are to be written anew.
Build(d) ==
  /\ At(d, "build")
  /\ IF cursor[d] < job[d].head THEN Settle(d) /\ UNCHANGED lost
     ELSE /\ lost' = [lost EXCEPT ![d] = @ \cup LeftOut(d)]
          /\ \E known \in {{}, job[d].cp.chunks} :
               /\ force[d] => known = {}
               /\ LET kept == {s \in known : recs[s].ops \in Segments(d)}
                  IN  job' = [job EXCEPT ![d].keep = kept,
                                         ![d].up = Segments(d) \ {recs[s].ops : s \in kept}]
          /\ Goto(d, "upload")
          /\ UNCHANGED <<ret, page, todo>>
  /\ UNCHANGED <<historyVars, rowVars, queueVars, ui, acted, done, aged, faultVars>>

UploadSegment(d) ==
  /\ At(d, "upload")
  /\ \E u \in job[d].up :
       /\ AppendRecord([chunk |-> TRUE, ops |-> u])
       /\ job' = [job EXCEPT ![d].up = @ \ {u}, ![d].keep = @ \cup {headSeq + 1}]
  /\ UNCHANGED <<rowVars, queueVars, ui, pc, ret, page, todo, pastVars, faultVars>>

\* A slip: the number after that of the summary is kept.
UploadSummaryNext(d) ==
  /\ At(d, "upload")
  /\ job[d].up = {}
  /\ AppendRecord([chunk |-> TRUE, ops |-> {}])
  /\ job' = [job EXCEPT ![d].summary = headSeq + 2]
  /\ Goto(d, "check")
  /\ UNCHANGED <<rowVars, queueVars, ui, ret, page, todo, pastVars, faultVars>>

UploadSummary(d) ==
  /\ At(d, "upload")
  /\ job[d].up = {}
  /\ AppendRecord([chunk |-> TRUE, ops |-> {}])
  /\ job' = [job EXCEPT ![d].summary = headSeq + 1]
  /\ Goto(d, "check")
  /\ UNCHANGED <<rowVars, queueVars, ui, ret, page, todo, pastVars, faultVars>>

\* A record of the checkpoint is refused: the journal is full.
UploadRefused(d) ==
  /\ At(d, "upload")
  /\ Full
  /\ Settle(d)
  /\ UNCHANGED <<historyVars, rowVars, queueVars, ui, pastVars, faultVars>>

\* Before the commit: history.sync again, for records the checkpoint would
\* delete although this device has not seen them.
CheckFrom(d) ==
  /\ At(d, "check")
  /\ Goto(d, "recheck")
  /\ job' = [job EXCEPT ![d].from = Larger(cursor[d], cp.upto)]
  /\ UNCHANGED <<historyVars, rowVars, queueVars, ui, ret, page, todo, pastVars, faultVars>>

\* A slip: the checkpoint is committed without looking.
CheckRowsSkipped(d) ==
  /\ At(d, "recheck")
  /\ Goto(d, "commit")
  /\ UNCHANGED <<historyVars, rowVars, queueVars, ui, ret, page, todo, job, pastVars, faultVars>>

CheckRows(d) ==
  /\ At(d, "recheck")
  /\ UNCHANGED <<historyVars, rowVars, queueVars, ui, pastVars, faultVars>>
  /\ \E bad \in Unopened(d, Page(job[d].from)) :
       IF \E s \in Page(job[d].from) \ bad : s < job[d].summary
       THEN /\ Goto(d, "head")
            /\ job' = [job EXCEPT ![d] = NoJob]
            /\ UNCHANGED <<ret, page, todo>>
       ELSE IF bad # {} THEN Settle(d)
       ELSE Goto(d, "commit") /\ UNCHANGED <<ret, page, todo, job>>

Commit(d) ==
  /\ At(d, "commit")
  /\ cp.id = job[d].cp.id
  /\ ValidCommit(job[d].summary, job[d].keep)
  /\ CommitCheckpoint(job[d].summary, job[d].keep)
  /\ cursor' = [cursor EXCEPT ![d] = Larger(@, job[d].summary)]
  /\ force' = [force EXCEPT ![d] = FALSE]
  /\ casFailed' = [casFailed EXCEPT ![d] = -1]
  /\ Settle(d)
  /\ UNCHANGED <<store, lapsed, streak, queueVars, ui, pastVars, faultVars>>

\* The answer to a commit is lost.
CommitUnanswered(d) ==
  /\ At(d, "commit")
  /\ cp.id = job[d].cp.id
  /\ ValidCommit(job[d].summary, job[d].keep)
  /\ CommitCheckpoint(job[d].summary, job[d].keep)
  /\ Settle(d)
  /\ UNCHANGED <<rowVars, queueVars, ui, pastVars, crashed>>

\* Another device was first (DUPLICATE): it is remembered for which checkpoint.
CommitRefused(d) ==
  /\ At(d, "commit")
  /\ cp.id # job[d].cp.id \/ ~ValidCommit(job[d].summary, job[d].keep)
  /\ casFailed' = IF cp.id # job[d].cp.id THEN [casFailed EXCEPT ![d] = job[d].cp.id] ELSE casFailed
  /\ Settle(d)
  /\ UNCHANGED <<historyVars, store, cursor, force, lapsed, streak, queueVars, ui, pastVars, faultVars>>

----------------------------------------------------------------------------
(* Faults                                                                  *)

Pulling == {"head", "cp", "rows", "summary", "segments"}
Asking == Pulling \cup {"due", "upload", "check", "recheck", "commit"}

\* A request throws.
RequestFails(d) ==
  /\ pc[d] \in Asking
  /\ Merged(d)
  /\ IF pc[d] \in Pulling THEN PullEnds(d) ELSE Settle(d)
  /\ UNCHANGED <<historyVars, rowVars, queueVars, ui, pastVars, crashed>>

\* The process is killed and started again: the constructor reads the queues.
\* That a checkpoint is forced may not have been written yet.
Crash(d) ==
  /\ crashed' = crashed \cup {d}
  /\ own' = [own EXCEPT ![d] = disk[d].own]
  /\ incoming' = [incoming EXCEPT ![d] = disk[d].incoming]
  /\ seen' = [seen EXCEPT ![d] = {}]
  /\ ui' = [ui EXCEPT ![d] = {}]
  /\ \E f \in {FALSE, force[d]} : force' = [force EXCEPT ![d] = f]
  /\ Settle(d)
  /\ UNCHANGED <<historyVars, store, cursor, casFailed, lapsed, streak, disk, pastVars>>

\* The device stays away for longer than the horizon.
Lapse(d) ==
  /\ At(d, "idle")
  /\ lapsed' = [lapsed EXCEPT ![d] = TRUE]
  /\ UNCHANGED <<historyVars, store, cursor, force, casFailed, streak, queueVars, ui, workVars, pastVars,
                 crashed>>

\* An operation comes to be older than the horizon.
Ages(o) == /\ aged' = aged \cup {o}
           /\ UNCHANGED <<historyVars, rowVars, queueVars, ui, workVars, acted, done, lost, faultVars>>

Host(d) == RecordGet(d) \/ RecordPut(d) \/ RecordQueue(d)
Pull(d) == \/ ReadHead(d) \/ ReadCheckpoint(d) \/ ReadRows(d) \/ LoadSummary(d) \/ LoadSegment(d)
           \/ AbsorbGet(d) \/ AbsorbPut(d) \/ CheckpointLoaded(d) \/ OpenWaits(d) \/ Open(d)
           \/ PageDone(d)
Write(d) == Take(d) \/ AppendOp(d) \/ FlushDone(d) \/ FlushRefused(d)
Compact(d) == \/ Due(d) \/ Build(d) \/ UploadSegment(d) \/ UploadSummary(d) \/ UploadRefused(d)
              \/ CheckFrom(d) \/ CheckRows(d) \/ Commit(d) \/ CommitRefused(d)
Fault(d) == /\ d \in scene.unreliable
            /\ faults < MaxFaults
            /\ faults' = faults + 1
            /\ FlushFailed(d) \/ CommitUnanswered(d) \/ RequestFails(d) \/ Crash(d) \/ Lapse(d)

Next == /\ \/ \E d \in Device : \/ Host(d) \/ Sync(d) \/ Pull(d) \/ Flush(d) \/ Write(d)
                                \/ AskHead(d) \/ Compact(d) \/ Fault(d)
           \/ \E o \in scene.ages \ aged : Ages(o)
        /\ UNCHANGED scene

Spec == Init /\ [][Next]_vars

----------------------------------------------------------------------------
(* What is checked                                                         *)

\* Every operation some device has written as an ordinary record.
Journaled == UNION {recs[s].ops : s \in {t \in 1..headSeq : ~recs[t].chunk}}

Steps == Asking \cup {"idle", "open", "absorb", "take", "append", "build"}

\* Every variable keeps its type (the worker's locals included).
TypeOK ==
  /\ recs \in Seq(Record) /\ headSeq <= MaxSeq
  /\ live \subseteq 1..headSeq
  /\ cp \in Checkpoint
  /\ store \in [Device -> SUBSET Op]
  /\ cursor \in [Device -> Positions]
  /\ force \in [Device -> BOOLEAN]
  /\ casFailed \in [Device -> Nat \cup {-1}]
  /\ lapsed \in [Device -> BOOLEAN]
  /\ streak \in [Device -> Nat]
  /\ disk \in [Device -> [own : Seq(Op), incoming : SUBSET Op]]
  /\ own \in [Device -> Seq(Op)]
  /\ incoming \in [Device -> SUBSET Op]
  /\ seen \in [Device -> SUBSET Op]
  /\ ui \in [Device -> SUBSET [input : Inputs, prev : SUBSET Op, stored : BOOLEAN]]
  /\ pc \in [Device -> Steps]
  /\ ret \in [Device -> {"idle", "take", "build"}]
  /\ page \in [Device -> [head : Positions, cp : Checkpoint, rows : SUBSET Seqs, more : BOOLEAN]]
  /\ todo \in [Device -> [segs : SUBSET Seqs, updates : SUBSET SUBSET Op,
                          merging : SUBSET [ops : SUBSET Op, prev : SUBSET Op]]]
  /\ job \in [Device -> [own : Nat, due : SUBSET Op, batch : Seq(Op), head : Positions,
                         cp : Checkpoint, keep : SUBSET Seqs, up : SUBSET SUBSET Op,
                         summary : Positions, from : Positions]]
  /\ acted \subseteq Op /\ done \subseteq Inputs
  /\ lost \in [Device -> SUBSET Op] /\ aged \subseteq Op
  /\ crashed \subseteq Device /\ faults \in Nat
  /\ scene \in Scenes

\* One device only builds checkpoints.
Sole == Cardinality(scene.compactors) = 1

\* maybeCheckpointLocked, buildCheckpointLocked: while one device only builds
\* checkpoints, whatever was ever written to the journal a new device is still
\* given, by the checkpoint or after it, unless the device that builds them has
\* lost it: no record that came while a checkpoint was built, no lost answer
\* and no full journal makes the commit delete an operation for good.
NothingCompactedAway ==
  Sole => \A d \in scene.compactors : Journaled \subseteq Recoverable \cup lost[d]

\* conformance/README.md, HIST-1: a deletion is for good; neither the journal nor
\* a checkpoint nor a new device brings the message back (before the horizon).
\* So a deletion that is in the journal a new device is given.
DeletedStaysDeleted ==
  Sole => \A o \in Journaled : KindOf[o] = "gone" => o \in Recoverable

\* commit, MAX_CHUNKS and the CAS: the records of the current checkpoint are
\* all there, although two devices build checkpoints out of each other's
\* segments at the same time.
CheckpointAlive == cp.id > 0 => cp.chunks \cup {cp.summary} \subseteq live

\* record, flushLocked: what the user did on a device, once record() has
\* returned, is in the journal or on the disk of the device, through failed
\* and half-done flushes, a full journal and a killed process.
OwnNeverLost == \A i \in done : i.own => i.op \in Elements(disk[i.dev].own) \cup Journaled

\* flushLocked: an operation that arrived stays in the queue, or in the batch
\* being written, until the journal has it (while the process lives).
IncomingQueued == \A i \in done : ~i.own /\ i.dev \notin crashed =>
                     i.op \in incoming[i.dev] \cup job[i.dev].due \cup Journaled

\* What the journal still has for a device with its cursor.
ToCome(d) == IF cursor[d] < cp.upto THEN Recoverable ELSE UNION {recs[s].ops : s \in After(cursor[d])}

\* Between two network operations the device has every operation of the
\* journal or will still be given it.
Covers(d) == At(d, "idle") => Journaled \subseteq store[d] \cup ToCome(d)

\* pullLocked: the device that builds the checkpoints passes no record it has
\* not merged, page by page, through failed pulls and a replaced history, but
\* for those it gives up unopened and those its other thread undoes.
CompactorCovers ==
  Sole => \A d \in scene.compactors :
            At(d, "idle") => Journaled \subseteq store[d] \cup ToCome(d) \cup lost[d]

\* history.sync (v2_history.rs, "a cursor before the current checkpoint gets
\* the checkpoint in compacted and the records after upto_seq only"): no
\* device passes a record it has not merged.
NothingMissed == \A d \in Device : Covers(d)

----------------------------------------------------------------------------
(* What the devices make together is a history they share (SharedHistory). *)
(* With two devices building checkpoints one may have missed records and   *)
(* throw them away (see NothingMissed); then only what was ever written    *)
(* can be said to be kept.                                                 *)

Kept == IF Sole THEN Recoverable ELSE Journaled

Shared == INSTANCE SharedHistory WITH kept <- Kept, rows <- store

\* The journal, the stores, the queues and the checkpoints implement the
\* shared history: every step of every thread adds to it what some device
\* recorded, hands a device what was recorded, or does not show at all; nothing
\* leaves it that was not undone by a write to the same message, given up by a
\* device that could not open it, or beyond the horizon.
ImplementsShared == Shared!Spec
=============================================================================
