------------------------------- MODULE Cursor -------------------------------
(***************************************************************************)
(* The cursor a client keeps for one server journal, translated from       *)
(* backend/protocol/src/sync.rs (struct Cursor).  Every client of the      *)
(* system shares this code, so its rules are written once here:            *)
(*                                                                         *)
(*  - applied   everything up to this number is applied or given up; it is *)
(*              the only part that is written to disk (SYNC-1);            *)
(*  - ahead     numbers that are done although a number before them is     *)
(*              not (done_ahead);                                          *)
(*  - attempts  how often applying a record has failed so far (SYNC-2).    *)
(*                                                                         *)
(* A cursor is a value; the operators map a cursor to the cursor after the *)
(* call.  settle() is a loop that removes applied+1 from done_ahead while  *)
(* it is there; its result is stated directly by SettlesAt.                *)
(***************************************************************************)
EXTENDS Journal

CONSTANT MAX_ATTEMPTS   \* failed attempts after which a record is skipped (3)

ASSUME MaxAttemptsAssumption == MAX_ATTEMPTS \in Nat \ {0}

\* The values of struct Cursor.
CursorType == [applied  : Positions,
               ahead    : SUBSET Seqs,
               attempts : [Seqs -> 0..(MAX_ATTEMPTS - 1)]]

\* Cursor::from_disk: only the contiguous part survives a restart.
FromDisk(n) == [applied |-> n, ahead |-> {}, attempts |-> [s \in Seqs |-> 0]]

\* Cursor::is_done
IsDone(c, s) == s <= c.applied \/ s \in c.ahead

\* Where the loop of settle() stops: at the first number without a successor
\* in done_ahead.
SettlesAt(c, n) == /\ n >= c.applied
                   /\ (c.applied + 1)..n \subseteq c.ahead
                   /\ n + 1 \notin c.ahead

\* A slip of settle(): it steps over a hole and jumps to the largest number that is done.
SettleJumps(c) ==
  LET n == CHOOSE m \in Positions : /\ m >= c.applied
                                    /\ m = c.applied \/ m \in c.ahead
                                    /\ \A k \in c.ahead : k <= m
  IN  [applied  |-> n, ahead |-> {}, attempts |-> c.attempts]

\* Cursor::settle
Settle(c) ==
  LET n == CHOOSE m \in Positions : SettlesAt(c, m)
  IN  [applied  |-> n,
       ahead    |-> c.ahead \ ((c.applied + 1)..n),
       attempts |-> [s \in Seqs |->
                       IF s \in (c.applied + 1)..n THEN 0 ELSE c.attempts[s]]]

\* The number s is done: the common tail of mark_applied and of the skip.
Done(c, s) ==
  Settle([applied  |-> c.applied,
          ahead    |-> c.ahead \cup {s},
          attempts |-> [c.attempts EXCEPT ![s] = 0]])

\* A slip: the contiguous part is not advanced.
MarkAppliedNoSettle(c, s) == [c EXCEPT !.ahead = @ \cup {s}]

\* Cursor::mark_applied
MarkApplied(c, s) == IF s <= c.applied THEN c ELSE Done(c, s)

\* A slip: the limit is tested with > instead of >=.
ExhaustsLate(c, s) == c.attempts[s] + 1 > MAX_ATTEMPTS

\* Does the next failure of s exhaust its attempts (SYNC-2)?
Exhausts(c, s) == c.attempts[s] + 1 >= MAX_ATTEMPTS

\* A slip: the counter of a record starts at one instead of zero.
MarkFailedFromOne(c, s) ==
  IF IsDone(c, s)
  THEN c
  ELSE IF Exhausts(c, s) THEN Done(c, s)
       ELSE [c EXCEPT !.attempts[s] = IF @ = 0 THEN 2 ELSE @ + 1]

\* Cursor::mark_failed; Exhausts tells FailOutcome::Skipped from Retry.
MarkFailed(c, s) ==
  IF IsDone(c, s)
  THEN c
  ELSE IF Exhausts(c, s) THEN Done(c, s)
       ELSE [c EXCEPT !.attempts[s] = @ + 1]

\* Cursor::mark_gap_until: the numbers up to upto that the page does not hold
\* count as passed.
MarkGapUntil(c, page, upto) ==
  Settle([c EXCEPT !.ahead = @ \cup (((c.applied + 1)..upto) \ page)])
=============================================================================
