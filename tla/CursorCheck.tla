---------------------------- MODULE CursorCheck -----------------------------
(***************************************************************************)
(* The cursor of module Cursor under every order of calls: records are     *)
(* applied, fail, arrive twice and out of order, the server reports gaps,  *)
(* and the client restarts from disk.  Beside the cursor the module keeps  *)
(* the plain set of the numbers that are done; what the cursor should hold *)
(* is defined from that set alone.                                         *)
(***************************************************************************)
EXTENDS Cursor

VARIABLES cursor,   \* the cursor, as the code keeps it
          done,     \* history: numbers applied, given up or reported missing
          failed    \* history: failed attempts of a number since the restart

vars == <<cursor, done, failed>>

Init == /\ cursor = FromDisk(0)
        /\ done = {}
        /\ failed = [s \in Seqs |-> 0]

\* A record is applied; a duplicate of a record that is done is, too.
Apply(s) == /\ cursor' = MarkApplied(cursor, s)
            /\ done' = done \cup {s}
            /\ UNCHANGED failed

\* A record does not apply.
Fail(s) == /\ cursor' = MarkFailed(cursor, s)
           /\ failed' = [failed EXCEPT ![s] = IF s \in done THEN @ ELSE @ + 1]
           /\ done' = IF failed'[s] >= MAX_ATTEMPTS THEN done \cup {s} ELSE done

\* The server reports the numbers up to upto that are not in the page gone.
Gap(page, upto) == /\ cursor' = MarkGapUntil(cursor, page, upto)
                   /\ done' = done \cup ((1..upto) \ page)
                   /\ UNCHANGED failed

\* The process restarts: numbers done behind a hole are forgotten.
Restart == /\ cursor' = FromDisk(cursor.applied)
           /\ done' = 1..cursor.applied
           /\ failed' = [s \in Seqs |-> IF s \in done' THEN failed[s] ELSE 0]

Next == \/ \E s \in Seqs : Apply(s) \/ Fail(s)
        \/ \E page \in SUBSET Seqs, upto \in Seqs : Gap(page, upto)
        \/ Restart

Spec == Init /\ [][Next]_vars

-----------------------------------------------------------------------------
(* Properties                                                              *)

\* The cursor always has the shape of struct Cursor, attempts below the limit.
TypeOK == /\ cursor \in CursorType
          /\ done \subseteq Seqs
          /\ failed \in [Seqs -> 0..MAX_ATTEMPTS]

\* SYNC-1: whatever the order of the calls, the value for the disk is the end
\* of the longest run of done numbers from 1, and every number done behind the
\* first hole is remembered, none twice.
HoldsAtFirstHole ==
  /\ 1..cursor.applied \subseteq done
  /\ cursor.applied + 1 \notin done
  /\ cursor.ahead = {s \in done : s > cursor.applied}

\* SYNC-2: a record that is not done has failed exactly as often as the cursor
\* counts, so it is skipped at its MAX_ATTEMPTS-th failure and not before.
AttemptsMatchFailures ==
  \A s \in Seqs \ done : cursor.attempts[s] = failed[s]
=============================================================================
