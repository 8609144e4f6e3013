----------------------------- MODULE FedOutbox ------------------------------
(***************************************************************************)
(* Letters to other servers (backend/shards/federation/src/outbound.rs,    *)
(* store.rs).  The messenger shard hands in a letter, the federation shard *)
(* keeps it in a table and delivers it: every second the ticker reads the  *)
(* rows that are due and gives each destination that is not busy a task    *)
(* with its share; the task calls the other server for one row after the   *)
(* other and deletes the row, gives it up after a day or puts it off.      *)
(*                                                                         *)
(* Time is abstract: due holds the rows with next_ms <= now in the order   *)
(* of next_ms, so a row that becomes due is its last; old holds the rows   *)
(* created more than a day ago.  Rows that were read are kept as a set,    *)
(* each with its place in the answer of the query.  A call may time out    *)
(* while the other server still works on it (late).  What the other        *)
(* server does with a letter (inbox_push of v2_fed.rs) is counted, not     *)
(* followed further.                                                       *)
(***************************************************************************)
EXTENDS Naturals, Sequences, FiniteSets, SequencesExt

CONSTANTS Domain,
          Letter,
          DestOf,                 \* the destination of a letter
          Down,                   \* the destinations that never answer
          OUTBOX_MAX_PER_DEST,
          OUTBOX_TICK_ROWS,
          OUTBOX_PER_DEST_TICK,
          MayAge,                 \* bound: the letters that may stay for a day
          MaxFaults               \* bound: lost answers and restarts

ASSUME FedOutboxAssumption ==
  /\ DestOf \in [Letter -> Domain] /\ Down \subseteq Domain /\ MayAge \subseteq Letter
  /\ OUTBOX_MAX_PER_DEST \in Nat \ {0} /\ OUTBOX_TICK_ROWS \in Nat \ {0}
  /\ OUTBOX_PER_DEST_TICK \in Nat \ {0} /\ MaxFaults \in Nat

VARIABLES due,       \* the rows that are due, in the order of next_ms
          waiting,   \* the rows that were put off
          old,       \* the letters older than OUTBOX_MAX_AGE_MS
          rows,      \* outbox_loop: what outbox_due returned, not yet handed out
          busy,      \* outbox_loop: the destinations that have a task
          batch,     \* deliver_batch: the rows each task has still to come to
          call,      \* the row each task is at, and how far its call is
          late,      \* letters of calls that were given up on the way
          copies,    \* history: how often the other server took a letter in
          accepted,  \* history: letters put into the table
          refused,   \* history: letters it had no room for
          faults

tableVars == <<due, waiting, old>>
taskVars == <<rows, busy, batch, call>>
handedIn == <<accepted, refused>>
vars == <<tableVars, taskVars, late, copies, handedIn, faults>>

NoCall == [at |-> "none"]

Init == /\ due = <<>>
        /\ waiting = {}
        /\ old = {}
        /\ rows = {}
        /\ busy = {}
        /\ batch = [d \in Domain |-> {}]
        /\ call = [d \in Domain |-> NoCall]
        /\ late = {}
        /\ copies = [l \in Letter |-> 0]
        /\ accepted = {}
        /\ refused = {}
        /\ faults = 0

Queued == ToSet(due) \cup waiting
QueuedFor(d) == {l \in Queued : DestOf[l] = d}

-----------------------------------------------------------------------------
(* Handing in                                                              *)

HasRoomOneMore(d) == Cardinality(QueuedFor(d)) <= OUTBOX_MAX_PER_DEST

HasRoom(d) == Cardinality(QueuedFor(d)) < OUTBOX_MAX_PER_DEST

\* handle and outbox_put: one INSERT that counts the rows of the destination.
\* A letter that is refused is not handed in again: push_remote logs it, the
\* broadcast that an account is gone ignores it.
Put(l) ==
  /\ l \notin accepted \cup refused
  /\ IF HasRoom(DestOf[l])
     THEN due' = Append(due, l) /\ accepted' = accepted \cup {l} /\ UNCHANGED refused
     ELSE refused' = refused \cup {l} /\ UNCHANGED <<due, accepted>>
  /\ UNCHANGED <<waiting, old, taskVars, late, copies, faults>>

-----------------------------------------------------------------------------
(* Time                                                                    *)

\* A slip: the row is due and put off at once.
DueAgainTwice(l) == /\ l \in waiting
                    /\ l \notin ToSet(due)
                    /\ due' = Append(due, l)
                    /\ UNCHANGED <<waiting, old, taskVars, late, copies, handedIn, faults>>

\* next_ms of a row that was put off is reached.
DueAgain(l) == /\ l \in waiting
               /\ due' = Append(due, l)
               /\ waiting' = waiting \ {l}
               /\ UNCHANGED <<old, taskVars, late, copies, handedIn, faults>>

\* A day has passed since the letter was handed in.
GrowOld(l) == /\ l \in (Queued \cap MayAge) \ old
              /\ old' = old \cup {l}
              /\ UNCHANGED <<due, waiting, taskVars, late, copies, handedIn, faults>>

-----------------------------------------------------------------------------
(* outbox_loop                                                             *)

Row(i, place) == [letter |-> due[i], old |-> due[i] \in old, place |-> place]

\* The numbers of the rows a tick reads: LIMIT OUTBOX_TICK_ROWS.
Read == {i \in 1..Len(due) : i <= OUTBOX_TICK_ROWS}

\* A slip: the newest rows first.
DueRowsNewest == {Row(Len(due) + 1 - i, i) : i \in Read}

\* outbox_due, and the time of the tick: ORDER BY next_ms.
DueRows == {Row(i, i) : i \in Read}

Tick == /\ rows = {}
        /\ due # <<>>
        /\ rows' = DueRows
        /\ UNCHANGED <<tableVars, busy, batch, call, late, copies, handedIn, faults>>

RowsFor(d) == {r \in rows : DestOf[r.letter] = d}

\* by_dest: the first OUTBOX_PER_DEST_TICK of them, in the same order.
Ahead(d, r) == Cardinality({q \in RowsFor(d) : q.place < r.place})
Share(d) == {[r EXCEPT !.place = Ahead(d, r)] :
               r \in {q \in RowsFor(d) : Ahead(d, q) < OUTBOX_PER_DEST_TICK}}

\* The rows read for one destination go to a task, or nowhere when the task
\* before it has not ended.
HandOut(d) ==
  /\ RowsFor(d) # {}
  /\ rows' = rows \ RowsFor(d)
  /\ IF d \in busy THEN UNCHANGED <<busy, batch>>
     ELSE /\ busy' = busy \cup {d}
          /\ batch' = [batch EXCEPT ![d] = Share(d)]
  /\ UNCHANGED <<tableVars, call, late, copies, handedIn, faults>>

\* The task has ended.
Release(d) == /\ d \in busy
              /\ batch[d] = {} /\ call[d] = NoCall
              /\ busy' = busy \ {d}
              /\ UNCHANGED <<tableVars, rows, batch, call, late, copies, handedIn, faults>>

-----------------------------------------------------------------------------
(* deliver_batch and the other server                                      *)

SeenTimes == 0..3

\* The other server takes the letter in once more.
TakeIn(l) == copies' = [copies EXCEPT ![l] = IF @ = 3 THEN 3 ELSE @ + 1]

\* outbox_done
Delete(l) == due' = RemoveFirst(due, l) /\ waiting' = waiting \ {l}

\* On to the next row, in the order they were read in.
Send(d, r) == /\ call[d] = NoCall
              /\ r \in batch[d] /\ \A q \in batch[d] : r.place <= q.place
              /\ batch' = [batch EXCEPT ![d] = @ \ {r}]
              /\ call' = [call EXCEPT ![d] = [at |-> "sent", letter |-> r.letter,
                                               old |-> r.old]]
              /\ UNCHANGED <<tableVars, rows, busy, late, copies, handedIn, faults>>

\* s2s, dispatch and inbox_push of the other server.
Handle(d) == /\ call[d].at = "sent"
             /\ d \notin Down
             /\ TakeIn(call[d].letter)
             /\ call' = [call EXCEPT ![d].at = "handled"]
             /\ UNCHANGED <<tableVars, rows, busy, batch, late, handedIn, faults>>

\* A slip: the row stays.
AnswerKeepsRow(d) == /\ call[d].at = "handled"
                     /\ call' = [call EXCEPT ![d] = NoCall]
                     /\ UNCHANGED <<tableVars, rows, busy, batch, late, copies, handedIn,
                                    faults>>

\* The call returned: outbox_done.
Answer(d) == /\ call[d].at = "handled"
             /\ Delete(call[d].letter)
             /\ call' = [call EXCEPT ![d] = NoCall]
             /\ UNCHANGED <<old, rows, busy, batch, late, copies, handedIn, faults>>

\* A slip: a row is given up whatever its age.
GivesUpAtOnce(r) == TRUE

GivesUp(r) == r.old

\* The call failed: an old row is given up, another put off (UPDATE, nothing
\* when the row is gone), and the rest of the batch left for later.
PutOff(d) ==
  LET r == call[d]
  IN  /\ call' = [call EXCEPT ![d] = NoCall]
      /\ IF GivesUp(r)
         THEN Delete(r.letter) /\ UNCHANGED batch
         ELSE /\ due' = RemoveFirst(due, r.letter)
              /\ waiting' = IF r.letter \in Queued THEN waiting \cup {r.letter} ELSE waiting
              /\ batch' = [batch EXCEPT ![d] = {}]
      /\ UNCHANGED <<old, rows, busy, copies, handedIn>>

\* The destination does not answer.
Unreachable(d) == /\ d \in Down
                  /\ call[d].at = "sent"
                  /\ PutOff(d)
                  /\ UNCHANGED <<late, faults>>

\* Letters on their way to a server that will work on them.
Underway == {call[d].letter : d \in {e \in Domain \ Down : call[e].at = "sent"}}

\* The call times out, or the answer is an error or does not verify.
CallFails(d) == /\ faults < MaxFaults
                /\ d \notin Down
                /\ call[d] # NoCall
                /\ faults' = faults + 1
                /\ late' = late \cup ({call[d].letter} \cap Underway)
                /\ PutOff(d)

\* The shard is stopped and started again.
Crash == /\ faults < MaxFaults
         /\ faults' = faults + 1
         /\ late' = late \cup Underway
         /\ rows' = {}
         /\ busy' = {}
         /\ batch' = [d \in Domain |-> {}]
         /\ call' = [d \in Domain |-> NoCall]
         /\ UNCHANGED <<tableVars, copies, handedIn>>

\* The other server ends what it was called for, or never gets it.
HandleLate(l) == /\ l \in late
                 /\ late' = late \ {l}
                 /\ TakeIn(l) \/ UNCHANGED copies
                 /\ UNCHANGED <<tableVars, taskVars, handedIn, faults>>

Deliver(d) == \/ \E r \in batch[d] : Send(d, r)
              \/ Handle(d) \/ Answer(d) \/ Unreachable(d) \/ Release(d)

Next == \/ \E l \in Letter : Put(l) \/ DueAgain(l) \/ GrowOld(l) \/ HandleLate(l)
        \/ Tick
        \/ \E d \in Domain : HandOut(d) \/ Deliver(d) \/ CallFails(d)
        \/ Crash

Spec == Init /\ [][Next]_vars

\* The interval of the ticker, tasks that tokio runs, deadlines of calls, and
\* time that passes for rows put off.  Nothing makes letters grow old.
Fairness == /\ WF_vars(Tick)
            /\ \A d \in Domain : WF_vars(HandOut(d)) /\ WF_vars(Deliver(d))
            /\ \A l \in Letter : WF_vars(DueAgain(l))

FairSpec == Spec /\ Fairness

-----------------------------------------------------------------------------
(* Properties                                                              *)

Rows == [letter : Letter, old : BOOLEAN, place : Nat]
Calls == {NoCall} \cup [at : {"sent", "handled"}, letter : Letter, old : BOOLEAN]

\* Every variable has its type, and a row is in the table once.
TypeOK == /\ due \in Seq(Letter) /\ IsInjective(due)
          /\ waiting \subseteq Letter \ ToSet(due)
          /\ old \subseteq Letter
          /\ rows \subseteq Rows
          /\ busy \subseteq Domain
          /\ batch \in [Domain -> SUBSET Rows]
          /\ call \in [Domain -> Calls]
          /\ late \subseteq Letter
          /\ copies \in [Letter -> SeenTimes]
          /\ accepted \subseteq Letter /\ refused \subseteq Letter \ accepted
          /\ faults \in 0..MaxFaults

\* deliver_batch: a letter that was accepted is in the table until the other
\* server has taken it in or a day has passed: failed calls, lost answers, a
\* restart in the middle of a batch and rows read before they changed lose none.
AcceptedNotLost == \A l \in accepted \ (Queued \cup old) : copies[l] > 0

\* outbox_loop ("the same letters are not taken a second time"): the rows are
\* read before it is known whether the destination is busy, so a letter can be
\* sent again although its row is gone; as long as every call is answered that
\* happens once at most.
AtMostOneRepeat == faults = 0 => \A l \in Letter : copies[l] <= 2

\* outbox_put: a destination never has more rows than its share, whatever
\* comes back into the queue.
QueueWithinCap == \A d \in Domain : Cardinality(QueuedFor(d)) <= OUTBOX_MAX_PER_DEST

\* outbox_loop, deliver_batch: a letter to a server that answers leaves the
\* table although rows for a dead server are before it in the limited answer
\* of every tick; and so does one that has grown old, wherever it goes.
Leaves(l) == l \in Queued /\ (DestOf[l] \notin Down \/ l \in old) ~> l \notin Queued
EveryLetterLeaves == \A l \in Letter : Leaves(l)
=============================================================================
