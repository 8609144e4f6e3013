------------------------- MODULE CursorCheckProofs --------------------------
(***************************************************************************)
(* The cursor under every order of calls, for every length of the journal  *)
(* and every limit of attempts: what module CursorCheck checks on four     *)
(* records, proved.                                                        *)
(***************************************************************************)
EXTENDS CursorCheck, CursorProofs

\* The three properties together are inductive.
CursorInv == TypeOK /\ HoldsAtFirstHole /\ AttemptsMatchFailures

\* The cursor c is what the set D of done numbers calls for, said through
\* is_done, the form the cursor's lemmas use.
Agrees(c, D) == /\ \A t \in Seqs : IsDone(c, t) <=> t \in D
                /\ c.applied + 1 \notin c.ahead
                /\ AheadIsAhead(c)

\* That is what HoldsAtFirstHole says of the cursor and the set.
LEMMA FirstHoleByIsDone ==
  ASSUME NEW c \in CursorType, NEW D \in SUBSET Seqs
  PROVE  Agrees(c, D) <=> /\ 1..c.applied \subseteq D
                          /\ c.applied + 1 \notin D
                          /\ c.ahead = {s \in D : s > c.applied}
<1>1. /\ c.applied \in Nat /\ c.applied <= MaxSeq /\ MaxSeq \in Nat
      /\ c.ahead \subseteq Seqs /\ Seqs \subseteq Int
      /\ 1..c.applied \subseteq Seqs
  BY MaxSeqAssumption DEF CursorType, Positions, Seqs
<1>2. \A t \in Seqs : t \in 1..c.applied <=> t <= c.applied
  BY <1>1 DEF Seqs
<1>3. ASSUME 1..c.applied \subseteq D, c.applied + 1 \notin D,
             c.ahead = {s \in D : s > c.applied}
      PROVE  Agrees(c, D)
  BY <1>1, <1>2, <1>3 DEF Agrees, IsDone, AheadIsAhead
<1>4. ASSUME Agrees(c, D)
      PROVE  /\ 1..c.applied \subseteq D
             /\ c.applied + 1 \notin D
             /\ c.ahead = {s \in D : s > c.applied}
  <2>1. 1..c.applied \subseteq D
    BY <1>1, <1>2, <1>4 DEF Agrees, IsDone
  <2>2. ASSUME NEW t \in Seqs PROVE t \in c.ahead <=> t \in D /\ t > c.applied
    BY <1>1, <1>4 DEF Agrees, IsDone, AheadIsAhead
  <2>3. c.ahead = {s \in D : s > c.applied}
    BY <1>1, <2>2
  <2>4. c.applied + 1 \notin D
    <3>1. c.applied + 1 \notin c.ahead /\ c.applied + 1 > c.applied
      BY <1>1, <1>4 DEF Agrees
    <3> QED BY <2>3, <3>1
  <2> QED BY <2>1, <2>3, <2>4
<1> QED BY <1>3, <1>4

\* Nothing is done at first.
LEMMA CursorInitInv == Init => CursorInv
<1> SUFFICES ASSUME Init PROVE CursorInv
  OBVIOUS
<1>1. 0 \in 0..(MAX_ATTEMPTS - 1) /\ 0 \in 0..MAX_ATTEMPTS /\ 0 \in Positions
  BY MaxAttemptsAssumption, MaxSeqAssumption DEF Positions
<1>2. TypeOK
  BY <1>1 DEF Init, FromDisk, TypeOK, CursorType
<1>3. HoldsAtFirstHole
  BY DEF Init, FromDisk, HoldsAtFirstHole
<1>4. AttemptsMatchFailures
  BY DEF Init, FromDisk, AttemptsMatchFailures
<1> QED BY <1>2, <1>3, <1>4 DEF CursorInv

\* Every call keeps the invariant.
LEMMA CursorNextInv == CursorInv /\ [Next]_vars => CursorInv'
<1> SUFFICES ASSUME CursorInv, [Next]_vars PROVE CursorInv'
  OBVIOUS
<1>0. /\ cursor \in CursorType /\ done \subseteq Seqs
      /\ failed \in [Seqs -> 0..MAX_ATTEMPTS]
      /\ Agrees(cursor, done)
      /\ \A t \in Seqs \ done : cursor.attempts[t] = failed[t]
      /\ \A t \in Seqs : cursor.attempts[t] \in 0..(MAX_ATTEMPTS - 1)
  BY FirstHoleByIsDone DEF CursorInv, TypeOK, HoldsAtFirstHole,
                           AttemptsMatchFailures, CursorType
<1>1. ASSUME TypeOK', Agrees(cursor', done'), AttemptsMatchFailures'
      PROVE  CursorInv'
  <2>1. cursor' \in CursorType /\ done' \in SUBSET Seqs
    BY <1>1 DEF TypeOK
  <2>2. HoldsAtFirstHole'
    BY <1>1, <2>1, FirstHoleByIsDone DEF HoldsAtFirstHole
  <2> QED BY <1>1, <2>2 DEF CursorInv
<1>2. CASE UNCHANGED vars
  BY <1>2 DEF vars, CursorInv, TypeOK, HoldsAtFirstHole, AttemptsMatchFailures
<1>3. ASSUME NEW s \in Seqs, Apply(s) PROVE CursorInv'
  <2>1. cursor' = MarkApplied(cursor, s) /\ done' = done \cup {s} /\ failed' = failed
    BY <1>3 DEF Apply
  <2>2. TypeOK'
    BY <1>0, <2>1, MarkAppliedFacts DEF TypeOK
  <2>3. Agrees(cursor', done')
    BY <1>0, <2>1, MarkAppliedFacts DEF Agrees
  <2>4. AttemptsMatchFailures'
    <3>1. \A t \in Seqs \ done' : ~IsDone(cursor', t) /\ t \in Seqs \ done
      BY <2>1, <2>3 DEF Agrees
    <3> QED BY <1>0, <2>1, <3>1, MarkAppliedFacts DEF AttemptsMatchFailures
  <2> QED BY <1>1, <2>2, <2>3, <2>4
<1>4. ASSUME NEW s \in Seqs, Fail(s) PROVE CursorInv'
  <2>1. cursor' = MarkFailed(cursor, s)
    BY <1>4 DEF Fail
  <2>2. MAX_ATTEMPTS \in Nat
    BY MaxAttemptsAssumption
  <2>3. CASE s \in done
    <3>1. failed' = failed /\ IsDone(cursor, s)
      BY <1>0, <1>4, <2>3 DEF Fail, Agrees
    <3>2. done' = done /\ cursor' = cursor
      BY <1>4, <2>1, <2>3, <3>1 DEF Fail, MarkFailed
    <3> QED BY <3>1, <3>2 DEF CursorInv, TypeOK, HoldsAtFirstHole,
                              AttemptsMatchFailures
  <2>4. CASE s \notin done
    <3>1. /\ cursor.attempts[s] = failed[s] /\ failed[s] \in 0..(MAX_ATTEMPTS - 1)
      BY <1>0, <2>4
    <3>2. failed' = [failed EXCEPT ![s] = @ + 1]
      BY <1>4, <2>4 DEF Fail
    <3>3. failed'[s] = failed[s] + 1 /\ failed' \in [Seqs -> 0..MAX_ATTEMPTS]
      BY <1>0, <2>2, <3>1, <3>2
    <3>4. Exhausts(cursor, s) <=> failed'[s] >= MAX_ATTEMPTS
      BY <3>1, <3>3 DEF Exhausts
    <3>5. /\ Exhausts(cursor, s) => done' = done \cup {s}
          /\ ~Exhausts(cursor, s) => done' = done
      BY <1>4, <3>4 DEF Fail
    <3>6. TypeOK'
      BY <1>0, <2>1, <3>3, <3>5, MarkFailedFacts DEF TypeOK
    <3>7. Agrees(cursor', done')
      BY <1>0, <2>1, <3>5, MarkFailedFacts DEF Agrees
    <3>8. AttemptsMatchFailures'
      <4>1. \A t \in Seqs \ done' : ~IsDone(cursor', t) /\ t \in Seqs \ done
        BY <3>5, <3>7 DEF Agrees
      <4>2. \A t \in Seqs : failed'[t] = IF t = s THEN failed[t] + 1 ELSE failed[t]
        BY <1>0, <3>2
      <4> QED BY <1>0, <2>1, <4>1, <4>2, MarkFailedFacts DEF AttemptsMatchFailures
    <3> QED BY <1>1, <3>6, <3>7, <3>8
  <2> QED BY <2>3, <2>4
<1>5. ASSUME NEW page \in SUBSET Seqs, NEW upto \in Seqs, Gap(page, upto)
      PROVE  CursorInv'
  <2>1. /\ cursor' = MarkGapUntil(cursor, page, upto) /\ failed' = failed
        /\ done' = done \cup ((1..upto) \ page)
    BY <1>5 DEF Gap
  <2>2. 1..upto \subseteq Seqs /\ \A t \in Seqs : t \in 1..upto <=> t <= upto
    BY MaxSeqAssumption DEF Seqs
  <2>3. TypeOK'
    BY <1>0, <2>1, <2>2, MarkGapFacts DEF TypeOK
  <2>4. Agrees(cursor', done')
    BY <1>0, <2>1, <2>2, MarkGapFacts DEF Agrees
  <2>5. AttemptsMatchFailures'
    <3>1. \A t \in Seqs \ done' : ~IsDone(cursor', t) /\ t \in Seqs \ done
      BY <2>1, <2>4 DEF Agrees
    <3> QED BY <1>0, <2>1, <3>1, MarkGapFacts DEF AttemptsMatchFailures
  <2> QED BY <1>1, <2>3, <2>4, <2>5
<1>6. CASE Restart
  <2>1. /\ cursor' = FromDisk(cursor.applied) /\ done' = 1..cursor.applied
        /\ failed' = [t \in Seqs |-> IF t \in done' THEN failed[t] ELSE 0]
    BY <1>6 DEF Restart
  <2>2. /\ cursor.applied \in Positions /\ 1..cursor.applied \subseteq Seqs
        /\ \A t \in Seqs : t \in 1..cursor.applied <=> t <= cursor.applied
    BY <1>0, MaxSeqAssumption DEF CursorType, Positions, Seqs
  <2>3. /\ cursor'.applied = cursor.applied /\ cursor'.ahead = {}
        /\ cursor'.attempts = [t \in Seqs |-> 0]
    BY <2>1 DEF FromDisk
  <2>4. 0 \in 0..(MAX_ATTEMPTS - 1) /\ 0 \in 0..MAX_ATTEMPTS
    BY MaxAttemptsAssumption
  <2>5. TypeOK'
    <3>1. cursor' \in CursorType
      BY <2>1, <2>2, <2>4 DEF FromDisk, CursorType
    <3>2. failed' \in [Seqs -> 0..MAX_ATTEMPTS]
      BY <1>0, <2>1, <2>4
    <3> QED BY <2>1, <2>2, <3>1, <3>2 DEF TypeOK
  <2>6. Agrees(cursor', done')
    BY <2>1, <2>2, <2>3 DEF Agrees, IsDone, AheadIsAhead
  <2>7. AttemptsMatchFailures'
    BY <2>1, <2>3 DEF AttemptsMatchFailures
  <2> QED BY <1>1, <2>5, <2>6, <2>7
<1> QED BY <1>2, <1>3, <1>4, <1>5, <1>6 DEF Next

\* SYNC-1 of struct Cursor for every length of the journal: after any sequence
\* of calls and restarts the value for the disk stands at the first hole.
THEOREM CursorHoldsAtFirstHole == Spec => []HoldsAtFirstHole
<1>1. CursorInv => HoldsAtFirstHole
  BY DEF CursorInv
<1> QED BY <1>1, CursorInitInv, CursorNextInv, PTL DEF Spec

\* SYNC-2 of struct Cursor for every limit: a record is given up at its
\* MAX_ATTEMPTS-th failure, neither before nor after.
THEOREM CursorCountsFailures == Spec => []AttemptsMatchFailures
<1>1. CursorInv => AttemptsMatchFailures
  BY DEF CursorInv
<1> QED BY <1>1, CursorInitInv, CursorNextInv, PTL DEF Spec

\* The shape of struct Cursor for every length of the journal: no call lets
\* the count of attempts reach the limit or a number that was never handed out
\* in among those done ahead.
THEOREM CursorTypeCorrect == Spec => []TypeOK
<1>1. CursorInv => TypeOK
  BY DEF CursorInv
<1> QED BY <1>1, CursorInitInv, CursorNextInv, PTL DEF Spec
=============================================================================
