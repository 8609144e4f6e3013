---------------------------- MODULE CursorProofs ----------------------------
(***************************************************************************)
(* What the calls of struct Cursor do to a cursor, for every journal       *)
(* length and every limit of attempts.  The proofs about the modules that  *)
(* keep a cursor rest on these facts and do not look inside Settle again.  *)
(***************************************************************************)
EXTENDS Cursor, WellFoundedInduction, TLAPS

\* done_ahead holds only numbers behind the contiguous part.
AheadIsAhead(c) == \A t \in c.ahead : t > c.applied

\* A set of numbers that is not empty has a least one.
LEMMA LeastNumber ==
  ASSUME NEW S, S \subseteq Nat, S # {}
  PROVE  \E n \in S : \A k \in S : n <= k
<1>1. PICK n \in S : \A k \in S : ~(<<k, n>> \in OpToRel(<, Nat))
  BY NatLessThanWellFounded, WFMin
<1>2. \A i, j \in Nat : i < j => <<i, j>> \in OpToRel(<, Nat)
  BY DEF OpToRel
<1>3. \A k \in S : ~(k < n)
  BY <1>1, <1>2
<1> QED BY <1>3

\* The loop of settle() stops: some number is the first without a successor in
\* done_ahead, so the CHOOSE of Settle has a value.
LEMMA SettleStops ==
  ASSUME NEW c \in CursorType
  PROVE  \E m \in Positions : SettlesAt(c, m)
<1> DEFINE S == {m \in Nat : m >= c.applied /\ m + 1 \notin c.ahead}
<1>1. c.applied \in Nat /\ c.applied <= MaxSeq /\ c.ahead \subseteq 1..MaxSeq
  BY MaxSeqAssumption DEF CursorType, Positions, Seqs
<1>2. MaxSeq \in S
  BY <1>1, MaxSeqAssumption
<1>3. S \subseteq Nat /\ S # {}
  BY <1>2
<1>4. PICK n \in S : \A k \in S : n <= k
  <2> HIDE DEF S
  <2> QED BY <1>3, LeastNumber
<1>5. n <= MaxSeq /\ n \in Nat
  BY <1>2, <1>4
<1>6. (c.applied + 1)..n \subseteq c.ahead
  <2> SUFFICES ASSUME NEW k \in (c.applied + 1)..n PROVE k \in c.ahead
    OBVIOUS
  <2>1. k - 1 \in Nat /\ k - 1 >= c.applied /\ k - 1 < n /\ (k - 1) + 1 = k
    BY <1>1, <1>5
  <2>2. k - 1 \notin S
    BY <1>4, <2>1, <1>5
  <2> QED BY <2>1, <2>2
<1>7. n \in Positions /\ n >= c.applied /\ n + 1 \notin c.ahead
  BY <1>5, MaxSeqAssumption DEF Positions
<1>8. SettlesAt(c, n)
  BY <1>6, <1>7 DEF SettlesAt
<1> QED BY <1>7, <1>8

\* settle() only moves forward, over numbers that are done, and forgets none.
LEMMA SettleFacts ==
  ASSUME NEW c \in CursorType
  PROVE  /\ Settle(c) \in CursorType
         /\ Settle(c).applied >= c.applied
         /\ Settle(c).applied + 1 \notin Settle(c).ahead
         /\ AheadIsAhead(c) => AheadIsAhead(Settle(c))
         /\ \A s \in Seqs : IsDone(Settle(c), s) <=> IsDone(c, s)
         /\ \A s \in Seqs : ~IsDone(c, s) => Settle(c).attempts[s] = c.attempts[s]
<1> DEFINE n == CHOOSE m \in Positions : SettlesAt(c, m)
           P == (c.applied + 1)..n
<1>1. n \in Positions /\ SettlesAt(c, n)
  BY SettleStops
<1>2. /\ Settle(c).applied = n
      /\ Settle(c).ahead = c.ahead \ P
      /\ Settle(c).attempts = [s \in Seqs |-> IF s \in P THEN 0 ELSE c.attempts[s]]
  BY DEF Settle
<1>3. Settle(c) = [applied |-> Settle(c).applied, ahead |-> Settle(c).ahead,
                   attempts |-> Settle(c).attempts]
  BY DEF Settle
<1> HIDE DEF n
<1>4. /\ c.applied \in Positions /\ c.ahead \subseteq Seqs
      /\ c.attempts \in [Seqs -> 0..(MAX_ATTEMPTS - 1)]
  BY DEF CursorType
<1>5. 0 \in 0..(MAX_ATTEMPTS - 1)
  BY MaxAttemptsAssumption
<1>6. Settle(c).attempts \in [Seqs -> 0..(MAX_ATTEMPTS - 1)]
  BY <1>2, <1>4, <1>5
<1>7. Settle(c) \in CursorType
  BY <1>1, <1>2, <1>3, <1>4, <1>6 DEF CursorType
<1>8. n >= c.applied /\ P \subseteq c.ahead /\ n + 1 \notin c.ahead
  BY <1>1 DEF SettlesAt
<1>9. ASSUME NEW s \in Seqs
      PROVE  /\ IsDone(Settle(c), s) <=> IsDone(c, s)
             /\ ~IsDone(c, s) => Settle(c).attempts[s] = c.attempts[s]
  <2>1. s \in Int /\ n \in Int /\ c.applied \in Int
    BY <1>1, <1>4, MaxSeqAssumption DEF Positions, Seqs
  <2>2. s \in P <=> c.applied < s /\ s <= n
    BY <2>1
  <2>3. IsDone(Settle(c), s) <=> s <= n \/ (s \in c.ahead /\ s \notin P)
    BY <1>2 DEF IsDone
  <2>4. IsDone(c, s) <=> s <= c.applied \/ s \in c.ahead
    BY DEF IsDone
  <2> HIDE DEF P
  <2> QED BY <1>2, <1>8, <2>1, <2>2, <2>3, <2>4
<1>10. ASSUME AheadIsAhead(c), NEW t \in Settle(c).ahead
       PROVE  t > Settle(c).applied
  <2>1. t \in Int /\ n \in Int /\ c.applied \in Int
    BY <1>1, <1>2, <1>4, MaxSeqAssumption DEF Positions, Seqs
  <2>2. t > c.applied /\ t \notin P
    BY <1>2, <1>10 DEF AheadIsAhead
  <2> QED BY <1>2, <2>1, <2>2
<1> QED BY <1>2, <1>7, <1>8, <1>9, <1>10 DEF AheadIsAhead

\* A number that is done stays done and holds nothing else back.
LEMMA DoneFacts ==
  ASSUME NEW c \in CursorType, NEW s \in Seqs
  PROVE  LET d == Done(c, s)
         IN  /\ d \in CursorType
             /\ d.applied >= c.applied
             /\ d.applied + 1 \notin d.ahead
             /\ AheadIsAhead(c) /\ s > c.applied => AheadIsAhead(d)
             /\ \A t \in Seqs : IsDone(d, t) <=> (IsDone(c, t) \/ t = s)
             /\ \A t \in Seqs : ~IsDone(d, t) => d.attempts[t] = c.attempts[t]
<1> DEFINE b == [applied  |-> c.applied,
                 ahead    |-> c.ahead \cup {s},
                 attempts |-> [c.attempts EXCEPT ![s] = 0]]
<1>1. b \in CursorType
  <2>1. 0 \in 0..(MAX_ATTEMPTS - 1)
    BY MaxAttemptsAssumption
  <2>2. [c.attempts EXCEPT ![s] = 0] \in [Seqs -> 0..(MAX_ATTEMPTS - 1)]
    BY <2>1 DEF CursorType
  <2> QED BY <2>2 DEF CursorType
<1>2. /\ b.applied = c.applied
      /\ b.ahead = c.ahead \cup {s}
      /\ \A t \in Seqs : t # s => b.attempts[t] = c.attempts[t]
  BY DEF CursorType
<1>3. Done(c, s) = Settle(b)
  BY DEF Done
<1> HIDE DEF b
<1>4. /\ Settle(b) \in CursorType
      /\ Settle(b).applied >= b.applied
      /\ Settle(b).applied + 1 \notin Settle(b).ahead
      /\ AheadIsAhead(b) => AheadIsAhead(Settle(b))
      /\ \A t \in Seqs : IsDone(Settle(b), t) <=> IsDone(b, t)
      /\ \A t \in Seqs : ~IsDone(b, t) => Settle(b).attempts[t] = b.attempts[t]
  BY <1>1, SettleFacts
<1>5. \A t \in Seqs : IsDone(b, t) <=> (IsDone(c, t) \/ t = s)
  BY <1>2 DEF IsDone
<1>6. AheadIsAhead(c) /\ s > c.applied => AheadIsAhead(b)
  BY <1>2 DEF AheadIsAhead
<1> QED BY <1>2, <1>3, <1>4, <1>5, <1>6

\* mark_applied makes one number done, never moves back, and a cursor that
\* stood at the first hole stands there again.
LEMMA MarkAppliedFacts ==
  ASSUME NEW c \in CursorType, NEW s \in Seqs
  PROVE  LET d == MarkApplied(c, s)
         IN  /\ d \in CursorType
             /\ d.applied >= c.applied
             /\ c.applied + 1 \notin c.ahead => d.applied + 1 \notin d.ahead
             /\ AheadIsAhead(c) => AheadIsAhead(d)
             /\ \A t \in Seqs : IsDone(d, t) <=> (IsDone(c, t) \/ t = s)
             /\ \A t \in Seqs : ~IsDone(d, t) => d.attempts[t] = c.attempts[t]
<1>1. CASE s <= c.applied
  <2>1. MarkApplied(c, s) = c
    BY <1>1 DEF MarkApplied
  <2>2. IsDone(c, s)
    BY <1>1 DEF IsDone
  <2>3. c.applied \in Int
    BY MaxSeqAssumption DEF CursorType, Positions
  <2> QED BY <2>1, <2>2, <2>3
<1>2. CASE ~(s <= c.applied)
  <2>1. MarkApplied(c, s) = Done(c, s)
    BY <1>2 DEF MarkApplied
  <2>2. s > c.applied
    BY <1>2, MaxSeqAssumption DEF CursorType, Positions, Seqs
  <2> QED BY <2>1, <2>2, DoneFacts
<1> QED BY <1>1, <1>2

\* mark_failed counts the failure, and makes the number done when the attempts
\* are exhausted (SYNC-2).
LEMMA MarkFailedFacts ==
  ASSUME NEW c \in CursorType, NEW s \in Seqs
  PROVE  LET d == MarkFailed(c, s)
         IN  /\ d \in CursorType
             /\ d.applied >= c.applied
             /\ c.applied + 1 \notin c.ahead => d.applied + 1 \notin d.ahead
             /\ AheadIsAhead(c) => AheadIsAhead(d)
             /\ \A t \in Seqs : IsDone(d, t) <=>
                               (IsDone(c, t) \/ (t = s /\ Exhausts(c, s)))
             /\ \A t \in Seqs : ~IsDone(d, t) => d.attempts[t] =
                               IF t = s THEN c.attempts[t] + 1 ELSE c.attempts[t]
<1>0. /\ c.applied \in Int
      /\ c.attempts \in [Seqs -> 0..(MAX_ATTEMPTS - 1)]
  BY MaxSeqAssumption DEF CursorType, Positions
<1>1. CASE IsDone(c, s)
  <2>1. MarkFailed(c, s) = c
    BY <1>1 DEF MarkFailed
  <2> QED BY <1>0, <1>1, <2>1
<1>2. CASE ~IsDone(c, s) /\ Exhausts(c, s)
  <2>1. MarkFailed(c, s) = Done(c, s)
    BY <1>2 DEF MarkFailed
  <2>2. s > c.applied
    BY <1>0, <1>2 DEF IsDone, Seqs
  <2> QED BY <1>2, <2>1, <2>2, DoneFacts
<1>3. CASE ~IsDone(c, s) /\ ~Exhausts(c, s)
  <2>1. MarkFailed(c, s) = [c EXCEPT !.attempts[s] = @ + 1]
    BY <1>3 DEF MarkFailed
  <2>2. c.attempts[s] + 1 \in 0..(MAX_ATTEMPTS - 1)
    BY <1>0, <1>3, MaxAttemptsAssumption DEF Exhausts
  <2>3. MarkFailed(c, s) \in CursorType
    BY <2>1, <2>2 DEF CursorType
  <2>4. /\ MarkFailed(c, s).applied = c.applied
        /\ MarkFailed(c, s).ahead = c.ahead
        /\ \A t \in Seqs : MarkFailed(c, s).attempts[t] =
                           IF t = s THEN c.attempts[t] + 1 ELSE c.attempts[t]
    BY <2>1 DEF CursorType
  <2>5. \A t \in Seqs : IsDone(MarkFailed(c, s), t) <=> IsDone(c, t)
    BY <2>4 DEF IsDone
  <2>6. AheadIsAhead(c) => AheadIsAhead(MarkFailed(c, s))
    BY <2>4 DEF AheadIsAhead
  <2> QED BY <1>0, <1>3, <2>3, <2>4, <2>5, <2>6
<1> QED BY <1>1, <1>2, <1>3

\* mark_gap_until makes the missing numbers done and no others.
LEMMA MarkGapFacts ==
  ASSUME NEW c \in CursorType, NEW page \in SUBSET Seqs, NEW upto \in Seqs
  PROVE  LET d == MarkGapUntil(c, page, upto)
         IN  /\ d \in CursorType
             /\ d.applied >= c.applied
             /\ d.applied + 1 \notin d.ahead
             /\ AheadIsAhead(c) => AheadIsAhead(d)
             /\ \A t \in Seqs : IsDone(d, t) <=>
                               (IsDone(c, t) \/ (t <= upto /\ t \notin page))
             /\ \A t \in Seqs : ~IsDone(d, t) => d.attempts[t] = c.attempts[t]
<1> DEFINE G == ((c.applied + 1)..upto) \ page
           b == [c EXCEPT !.ahead = @ \cup G]
<1>0. c.applied \in Nat /\ upto \in Nat /\ upto <= MaxSeq /\ MaxSeq \in Nat
  BY MaxSeqAssumption DEF CursorType, Positions, Seqs
<1>1. G \subseteq Seqs
  BY <1>0 DEF Seqs
<1>2. \A t \in Seqs : t \in G <=> t > c.applied /\ t <= upto /\ t \notin page
  BY <1>0 DEF Seqs
<1> HIDE DEF G
<1>3. b \in CursorType
  BY <1>1 DEF CursorType
<1>4. b.applied = c.applied /\ b.ahead = c.ahead \cup G /\ b.attempts = c.attempts
  BY DEF CursorType
<1>5. MarkGapUntil(c, page, upto) = Settle(b)
  BY DEF MarkGapUntil, G
<1> HIDE DEF b
<1>6. \A t \in Seqs : IsDone(b, t) <=> (IsDone(c, t) \/ (t <= upto /\ t \notin page))
  <2> SUFFICES ASSUME NEW t \in Seqs
               PROVE  IsDone(b, t) <=> (IsDone(c, t) \/ (t <= upto /\ t \notin page))
    OBVIOUS
  <2>1. t \in Int
    BY DEF Seqs
  <2> QED BY <1>0, <1>2, <1>4, <2>1 DEF IsDone
<1>7. AheadIsAhead(c) => AheadIsAhead(b)
  BY <1>1, <1>2, <1>4 DEF AheadIsAhead
<1> QED BY <1>3, <1>4, <1>5, <1>6, <1>7, SettleFacts
=============================================================================
