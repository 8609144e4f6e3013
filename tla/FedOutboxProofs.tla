-------------------------- MODULE FedOutboxProofs ---------------------------
(***************************************************************************)
(* The outbox of letters to other servers (FedOutbox), for any number of   *)
(* destinations, letters and faults, any limits of the queue and of a      *)
(* tick, and whichever servers are down.                                   *)
(*                                                                         *)
(* The rows a tick has read, and those a task holds, are copies that may   *)
(* be stale.  The invariants say what is still true of them: a row read    *)
(* old stays old (Kept), a task holds each letter once and only letters to *)
(* its destination (Tidy), and a letter whose row is gone is in one more   *)
(* place at most, with at most one copy on the other side (Once).          *)
(***************************************************************************)
EXTENDS FedOutbox, SequenceTheorems, FiniteSetTheorems, TLAPS

-----------------------------------------------------------------------------
(* Removing from the table                                                 *)

\* One element less, the others once.
LEMMA RemoveFacts ==
  ASSUME NEW S, NEW s \in Seq(S), IsInjective(s), NEW l \in S
  PROVE  /\ RemoveFirst(s, l) \in Seq(S)
         /\ IsInjective(RemoveFirst(s, l))
         /\ ToSet(RemoveFirst(s, l)) = ToSet(s) \ {l}
  <1>1. CASE ~ \E i \in 1..Len(s) : s[i] = l
    <2>1. RemoveFirst(s, l) = s
      BY <1>1 DEF RemoveFirst
    <2>2. l \notin ToSet(s)
      BY <1>1 DEF ToSet
    <2> QED
      BY <2>1, <2>2
  <1>2. CASE \E i \in 1..Len(s) : s[i] = l
    <2>1. PICK p \in 1..Len(s) : s[p] = l
      BY <1>2
    <2>2. RemoveFirst(s, l) = RemoveAt(s, p)
      <3> DEFINE I == {i \in 1..Len(s) : s[i] = l}
      <3>1. I = {p}
        BY <2>1 DEF IsInjective
      <3>2. I # {} /\ Min(I) = p
        BY <3>1 DEF Min
      <3>3. RemoveFirst(s, l) = RemoveAt(s, IF I # {} THEN Min(I) ELSE 0)
        BY <1>2 DEF RemoveFirst, SelectInSeq
      <3> QED
        BY <3>2, <3>3
    <2> DEFINE t == RemoveAt(s, p)
               n == Len(s)
    <2>3. n \in Nat /\ p \in Nat /\ 1 <= p /\ p <= n
      OBVIOUS
    <2>4. /\ t \in Seq(S) /\ Len(t) = n - 1
          /\ \A i \in 1..(n - 1) : t[i] = IF i < p THEN s[i] ELSE s[i + 1]
      <3> DEFINE a == SubSeq(s, 1, p - 1)
                 b == SubSeq(s, p + 1, n)
      <3>1. /\ a \in Seq(S) /\ Len(a) = p - 1
            /\ \A i \in 1..(p - 1) : a[i] = s[i]
        BY <2>3
      <3>2. /\ b \in Seq(S) /\ Len(b) = n - p
            /\ \A i \in 1..(n - p) : b[i] = s[i + p]
        BY <2>3
      <3>3. t = a \o b
        BY DEF RemoveAt
      <3> HIDE DEF a, b, t, n
      <3>4. /\ t \in Seq(S) /\ Len(t) = Len(a) + Len(b)
            /\ \A i \in 1..(Len(a) + Len(b)) :
                 t[i] = IF i <= Len(a) THEN a[i] ELSE b[i - Len(a)]
        BY <3>1, <3>2, <3>3, ConcatProperties
      <3>5. ASSUME NEW i \in 1..(n - 1)
            PROVE  t[i] = IF i < p THEN s[i] ELSE s[i + 1]
        <4>1. CASE i < p
          <5>1. i \in 1..(p - 1) /\ i <= Len(a) /\ i \in 1..(Len(a) + Len(b))
            BY <2>3, <3>1, <3>2, <4>1
          <5> QED
            BY <3>1, <3>4, <4>1, <5>1
        <4>2. CASE ~(i < p)
          <5>1. /\ i - Len(a) \in 1..(n - p) /\ ~(i <= Len(a)) /\ i \in 1..(Len(a) + Len(b))
                /\ (i - Len(a)) + p = i + 1
            BY <2>3, <3>1, <3>2, <4>2
          <5>2. t[i] = b[i - Len(a)]
            BY <3>4, <5>1
          <5> QED
            BY <3>2, <4>2, <5>1, <5>2
        <4> QED
          BY <4>1, <4>2
      <3> QED
        BY <2>3, <3>1, <3>2, <3>4, <3>5
    <2> HIDE DEF t, n
    <2>5. IsInjective(t)
      <3> SUFFICES ASSUME NEW i \in 1..(n - 1), NEW j \in 1..(n - 1), t[i] = t[j]
                   PROVE  i = j
        BY <2>4 DEF IsInjective
      <3>1. /\ i \in 1..n /\ i + 1 \in 1..n /\ j \in 1..n /\ j + 1 \in 1..n
        BY <2>3
      <3>2. \A a, b \in 1..n : s[a] = s[b] => a = b
        BY DEF IsInjective, n
      <3> QED
        BY <2>3, <2>4, <3>1, <3>2
    <2>6. ToSet(t) = ToSet(s) \ {l}
      <3>0. ToSet(t) = {t[i] : i \in 1..(n - 1)} /\ ToSet(s) = {s[i] : i \in 1..n}
        <4>1. DOMAIN t = 1..(n - 1) /\ DOMAIN s = 1..n
          BY <2>3, <2>4, LenProperties DEF n
        <4> QED
          BY <4>1 DEF ToSet
      <3>3. \A a, b \in 1..n : s[a] = s[b] => a = b
        BY DEF IsInjective, n
      <3>1. ASSUME NEW i \in 1..(n - 1)
            PROVE  t[i] \in ToSet(s) \ {l}
        <4>1. i \in 1..n /\ i + 1 \in 1..n /\ (i < p \/ i + 1 # p)
          BY <2>3
        <4> QED
          BY <2>1, <2>3, <2>4, <3>0, <3>3, <4>1 DEF n
      <3>2. ASSUME NEW i \in 1..n, s[i] # l
            PROVE  s[i] \in ToSet(t)
        <4>1. CASE i < p
          <5>1. i \in 1..(n - 1) /\ t[i] = s[i]
            BY <2>3, <2>4, <4>1
          <5> QED
            BY <3>0, <5>1
        <4>2. CASE i > p
          <5>1. i - 1 \in 1..(n - 1) /\ ~(i - 1 < p) /\ (i - 1) + 1 = i
            BY <2>3, <4>2
          <5>2. t[i - 1] = s[i]
            BY <2>4, <5>1
          <5> QED
            BY <3>0, <5>1, <5>2
        <4> QED
          BY <2>1, <2>3, <3>2, <4>1, <4>2
      <3> QED
        BY <3>0, <3>1, <3>2
    <2> QED
      BY <2>2, <2>4, <2>5, <2>6 DEF t
  <1> QED
    BY <1>1, <1>2

-----------------------------------------------------------------------------
(* Types and the table                                                     *)

\* The table: a row is due or put off.
TableOK == /\ due \in Seq(Letter) /\ IsInjective(due)
           /\ waiting \subseteq Letter \ ToSet(due)

\* The types, with what they need to be inductive.
TypeInv == /\ TypeOK
           /\ Queued \subseteq accepted
           /\ IsFiniteSet(Queued) /\ IsFiniteSet(rows)

\* A row at the end of those that are due.
LEMMA AppendFacts ==
  ASSUME NEW S, NEW s \in Seq(S), IsInjective(s), NEW l \in S, l \notin ToSet(s)
  PROVE  /\ Append(s, l) \in Seq(S)
         /\ IsInjective(Append(s, l))
         /\ ToSet(Append(s, l)) = ToSet(s) \cup {l}
  <1> DEFINE t == Append(s, l)
             n == Len(s)
  <1>1. /\ n \in Nat /\ t \in Seq(S) /\ Len(t) = n + 1
        /\ \A i \in 1..n : t[i] = s[i]
        /\ t[n + 1] = l
    BY AppendProperties
  <1>2. DOMAIN t = 1..(n + 1) /\ DOMAIN s = 1..n
    BY <1>1, LenProperties
  <1>3. \A i \in 1..n : s[i] # l
    BY <1>2 DEF ToSet
  <1> HIDE DEF t, n
  <1>4. IsInjective(t)
    <2> SUFFICES ASSUME NEW i \in 1..(n + 1), NEW j \in 1..(n + 1), t[i] = t[j]
                 PROVE  i = j
      BY <1>2 DEF IsInjective
    <2>1. (i \in 1..n \/ i = n + 1) /\ (j \in 1..n \/ j = n + 1)
      BY <1>1
    <2>2. \A a, b \in 1..n : s[a] = s[b] => a = b
      BY <1>2 DEF IsInjective
    <2> QED
      BY <1>1, <1>3, <2>1, <2>2
  <1>5. ToSet(t) = ToSet(s) \cup {l}
    <2>1. ToSet(t) = {t[i] : i \in 1..(n + 1)} /\ ToSet(s) = {s[i] : i \in 1..n}
      BY <1>2 DEF ToSet
    <2>2. 1..(n + 1) = 1..n \cup {n + 1}
      BY <1>1
    <2> QED
      BY <1>1, <2>1, <2>2
  <1> QED
    BY <1>1, <1>4, <1>5 DEF t

\* A call that is on its way is for a letter.
LEMMA CallType ==
  ASSUME TypeOK, NEW d \in Domain, call[d] # NoCall
  PROVE  call[d] \in [at : {"sent", "handled"}, letter : Letter, old : BOOLEAN]
  BY DEF TypeOK, Calls

\* A call in progress is one.
LEMMA CallMade ==
  ASSUME NEW d \in Domain, call[d].at # "none"
  PROVE  call[d] # NoCall
  BY DEF NoCall

\* The call of a task ends and the row leaves the table or is put off: the
\* table keeps its shape and no other letter comes or goes.
RowDone(d) == \/ Answer(d)
              \/ call[d] # NoCall /\ PutOff(d)

\* What Answer and PutOff do to the table.
LEMMA RowDoneFacts ==
  ASSUME TypeOK, NEW d \in Domain, RowDone(d)
  PROVE  /\ call[d] # NoCall /\ call[d].letter \in Letter
         /\ TableOK'
         /\ Queued' \subseteq Queued
         /\ Queued \ {call[d].letter} \subseteq Queued'
         /\ call[d].letter \in Queued \ Queued' =>
              Answer(d) \/ (call[d].old /\ PutOff(d))
         /\ call' = [call EXCEPT ![d] = NoCall]
         /\ \/ batch' = batch
            \/ batch' = [batch EXCEPT ![d] = {}]
         /\ UNCHANGED <<old, rows, busy, copies, accepted, refused>>
  <1> DEFINE l == call[d].letter
  <1>0. call[d] # NoCall
    BY DEF RowDone, Answer, NoCall
  <1>1. l \in Letter
    BY <1>0, CallType
  <1>2. /\ due \in Seq(Letter) /\ IsInjective(due) /\ waiting \subseteq Letter \ ToSet(due)
    BY DEF TypeOK
  <1> DEFINE t == RemoveFirst(due, l)
  <1>3. t \in Seq(Letter) /\ IsInjective(t) /\ ToSet(t) = ToSet(due) \ {l}
    BY <1>1, <1>2, RemoveFacts
  <1> HIDE DEF l, t
  <1>4. /\ due' = t
        /\ \/ waiting' = waiting \ {l} /\ (Answer(d) \/ (call[d].old /\ PutOff(d)))
           \/ l \in Queued /\ waiting' = waiting \cup {l}
           \/ l \notin Queued /\ waiting' = waiting
        /\ call' = [call EXCEPT ![d] = NoCall]
        /\ \/ batch' = batch
           \/ batch' = [batch EXCEPT ![d] = {}]
        /\ UNCHANGED <<old, rows, busy, copies, accepted, refused>>
    BY DEF RowDone, Answer, PutOff, GivesUp, Delete, l, t, handedIn
  <1>5. TableOK'
    BY <1>1, <1>2, <1>3, <1>4 DEF TableOK
  <1>6. /\ Queued' \subseteq Queued
        /\ Queued \ {l} \subseteq Queued'
        /\ l \in Queued \ Queued' => Answer(d) \/ (call[d].old /\ PutOff(d))
    BY <1>2, <1>3, <1>4 DEF Queued
  <1> QED
    BY <1>0, <1>1, <1>4, <1>5, <1>6 DEF l

\* One step and the table: only outbox_put adds a letter.
LEMMA TableStep ==
  ASSUME TypeInv, [Next]_vars
  PROVE  /\ TableOK'
         /\ accepted \subseteq accepted' /\ old \subseteq old'
         /\ \/ Queued' \subseteq Queued
            \/ \E l \in Letter \ accepted : /\ HasRoom(DestOf[l])
                                            /\ Queued' = Queued \cup {l}
                                            /\ accepted' = accepted \cup {l}
  <1>0. TypeOK /\ Queued \subseteq accepted
    BY DEF TypeInv
  <1>1. /\ due \in Seq(Letter) /\ IsInjective(due) /\ waiting \subseteq Letter \ ToSet(due)
    BY <1>0 DEF TypeOK
  <1>2. CASE UNCHANGED <<due, waiting, accepted>> /\ old \subseteq old'
    BY <1>1, <1>2 DEF TableOK, Queued
  <1>3. ASSUME NEW l \in Letter, Put(l)
        PROVE  /\ TableOK' /\ accepted \subseteq accepted' /\ old \subseteq old'
               /\ \/ Queued' \subseteq Queued
                  \/ /\ l \notin accepted
                     /\ HasRoom(DestOf[l])
                     /\ Queued' = Queued \cup {l} /\ accepted' = accepted \cup {l}
    <2>1. l \notin accepted /\ l \notin Queued /\ UNCHANGED <<waiting, old>>
      BY <1>0, <1>3 DEF Put
    <2>2. l \notin ToSet(due) /\ l \notin waiting
      BY <2>1 DEF Queued
    <2>3. CASE HasRoom(DestOf[l])
      <3>1. due' = Append(due, l) /\ accepted' = accepted \cup {l}
        BY <1>3, <2>3 DEF Put
      <3>2. /\ due' \in Seq(Letter) /\ IsInjective(due') /\ ToSet(due') = ToSet(due) \cup {l}
        BY <1>1, <2>2, <3>1, AppendFacts
      <3> QED
        BY <1>1, <2>1, <2>2, <2>3, <3>1, <3>2 DEF TableOK, Queued
    <2>4. CASE ~HasRoom(DestOf[l])
      <3>1. due' = due /\ accepted' = accepted
        BY <1>3, <2>4 DEF Put
      <3> QED
        BY <1>1, <2>1, <3>1 DEF TableOK, Queued
    <2> QED
      BY <2>3, <2>4
  <1>4. ASSUME NEW l \in Letter, DueAgain(l)
        PROVE  TableOK' /\ Queued' = Queued /\ accepted' = accepted /\ old' = old
    <2>1. /\ l \in waiting /\ due' = Append(due, l) /\ waiting' = waiting \ {l}
          /\ accepted' = accepted /\ old' = old
      BY <1>4 DEF DueAgain, handedIn
    <2>2. /\ due' \in Seq(Letter) /\ IsInjective(due') /\ ToSet(due') = ToSet(due) \cup {l}
      BY <1>1, <2>1, AppendFacts
    <2> QED
      BY <1>1, <2>1, <2>2 DEF TableOK, Queued
  <1>5. ASSUME NEW d \in Domain, RowDone(d)
        PROVE  TableOK' /\ Queued' \subseteq Queued /\ accepted' = accepted /\ old' = old
    BY <1>0, <1>5, RowDoneFacts
  <1>6. ASSUME NEW d \in Domain, Unreachable(d) \/ CallFails(d)
        PROVE  RowDone(d)
    BY <1>6 DEF RowDone, Unreachable, CallFails, NoCall
  <1>7. ASSUME NEW l \in Letter, GrowOld(l) \/ HandleLate(l)
        PROVE  UNCHANGED <<due, waiting, accepted>> /\ old \subseteq old'
    BY <1>7 DEF GrowOld, HandleLate, tableVars, handedIn
  <1>8. ASSUME NEW d \in Domain,
               HandOut(d) \/ (\E r \in batch[d] : Send(d, r)) \/ Handle(d) \/ Release(d)
        PROVE  UNCHANGED <<due, waiting, accepted>> /\ old \subseteq old'
    BY <1>8 DEF HandOut, Send, Handle, Release, tableVars, handedIn
  <1>9. ASSUME Tick \/ Crash \/ UNCHANGED vars
        PROVE  UNCHANGED <<due, waiting, accepted>> /\ old \subseteq old'
    BY <1>9 DEF Tick, Crash, vars, tableVars, handedIn
  <1> QED
    BY <1>2, <1>3, <1>4, <1>5, <1>6, <1>7, <1>8, <1>9 DEF Next, Deliver, RowDone

\* What a task is given of the rows that were read.
LEMMA ShareFacts ==
  ASSUME TypeInv, NEW d \in Domain
  PROVE  /\ Share(d) \subseteq Rows
         /\ \A x \in Share(d) : \E r \in rows : /\ r.letter = x.letter /\ r.old = x.old
                                               /\ DestOf[r.letter] = d
                                               /\ x = [r EXCEPT !.place = Ahead(d, r)]
  <1>1. rows \subseteq Rows /\ IsFiniteSet(rows)
    BY DEF TypeInv, TypeOK
  <1>2. ASSUME NEW r \in rows
        PROVE  Ahead(d, r) \in Nat
    <2>1. {q \in RowsFor(d) : q.place < r.place} \subseteq rows
      BY DEF RowsFor
    <2> QED
      BY <1>1, <2>1, FS_Subset, FS_CardinalityType DEF Ahead
  <1>3. ASSUME NEW x \in Share(d)
        PROVE  /\ x \in Rows
               /\ \E r \in rows : /\ r.letter = x.letter /\ r.old = x.old
                                  /\ DestOf[r.letter] = d
                                  /\ x = [r EXCEPT !.place = Ahead(d, r)]
    <2>1. PICK r \in RowsFor(d) : x = [r EXCEPT !.place = Ahead(d, r)]
      BY DEF Share
    <2>2. r \in rows /\ DestOf[r.letter] = d /\ r \in Rows
      BY <1>1 DEF RowsFor
    <2>3. Ahead(d, r) \in Nat
      BY <1>2, <2>2
    <2>4. x \in Rows /\ r.letter = x.letter /\ r.old = x.old
      BY <2>1, <2>2, <2>3 DEF Rows
    <2> QED
      BY <2>1, <2>2, <2>4
  <1> QED
    BY <1>3

\* What a tick reads.
LEMMA DueRowsFacts ==
  ASSUME TypeOK
  PROVE  /\ DueRows \subseteq Rows /\ IsFiniteSet(DueRows)
         /\ \A r \in DueRows : r.letter \in Queued /\ (r.old => r.letter \in old)
         /\ \A r, q \in DueRows : r.letter = q.letter => r = q
  <1>1. /\ due \in Seq(Letter) /\ IsInjective(due) /\ Len(due) \in Nat
        /\ DOMAIN due = 1..Len(due)
    BY LenProperties DEF TypeOK
  <1>2. Read \subseteq 1..Len(due)
    BY DEF Read
  <1>3. \A i \in Read : /\ Row(i, i) \in Rows
                        /\ Row(i, i).letter = due[i]
                        /\ Row(i, i).old = (due[i] \in old)
    <2> SUFFICES ASSUME NEW i \in Read
                 PROVE  /\ Row(i, i) \in Rows
                        /\ Row(i, i).letter = due[i]
                        /\ Row(i, i).old = (due[i] \in old)
      OBVIOUS
    <2>1. due[i] \in Letter /\ i \in Nat
      BY <1>1, <1>2, ElementOfSeq
    <2>2. (due[i] \in old) \in BOOLEAN
      OBVIOUS
    <2> QED
      BY <2>1, <2>2 DEF Row, Rows
  <1>4. IsFiniteSet(Read)
    <2>1. IsFiniteSet(1..Len(due))
      BY <1>1, FS_Interval
    <2> QED
      BY <1>2, <2>1, FS_Subset
  <1>5. IsFiniteSet(DueRows)
    <2>1. DueRows = {Row(i, i) : i \in Read}
      BY DEF DueRows
    <2> DEFINE f == [i \in Read |-> Row(i, i)]
    <2>2. DueRows = {f[i] : i \in Read}
      BY <2>1
    <2>3. f \in [Read -> DueRows] /\ \A r \in DueRows : \E i \in Read : f[i] = r
      BY <2>2
    <2>4. f \in Surjection(Read, DueRows)
      BY <2>3 DEF Surjection
    <2> QED
      BY <1>4, <2>4, FS_Surjection
  <1>6. \A r \in DueRows : r.letter \in Queued /\ (r.old => r.letter \in old)
    BY <1>1, <1>2, <1>3 DEF DueRows, Queued, ToSet
  <1>7. \A r, q \in DueRows : r.letter = q.letter => r = q
    BY <1>1, <1>2, <1>3 DEF DueRows, IsInjective
  <1> QED
    BY <1>3, <1>5, <1>6, <1>7 DEF DueRows

\* The other server counts once more, or as before.
LEMMA TakeInFacts ==
  ASSUME TypeOK, NEW l \in Letter, TakeIn(l)
  PROVE  /\ copies' \in [Letter -> SeenTimes]
         /\ copies'[l] > 0 /\ copies'[l] <= copies[l] + 1
         /\ \A k \in Letter : copies'[k] >= copies[k]
         /\ \A k \in Letter \ {l} : copies'[k] = copies[k]
  <1>1. copies \in [Letter -> 0..3]
    BY DEF TypeOK, SeenTimes
  <1>2. copies' = [copies EXCEPT ![l] = IF copies[l] = 3 THEN 3 ELSE copies[l] + 1]
    BY DEF TakeIn
  <1>3. copies[l] \in 0..3
    BY <1>1
  <1> QED
    BY <1>1, <1>2, <1>3 DEF SeenTimes

\* The empty outbox.
LEMMA TypeInit == Init => TypeInv
  <1> SUFFICES ASSUME Init PROVE TypeInv
    OBVIOUS
  <1>1. due = <<>> /\ due \in Seq(Letter) /\ ToSet(due) = {} /\ IsInjective(due)
    BY DEF Init, ToSet, IsInjective
  <1>2. Queued = {}
    BY <1>1 DEF Init, Queued
  <1>3. TypeOK
    BY <1>1, FedOutboxAssumption DEF Init, TypeOK, Calls, SeenTimes
  <1> QED
    BY <1>2, <1>3, FS_EmptySet DEF Init, TypeInv

\* Every step keeps the types.
LEMMA TypeStep == TypeInv /\ [Next]_vars => TypeInv'
  <1> SUFFICES ASSUME TypeInv, [Next]_vars PROVE TypeInv'
    OBVIOUS
  <1>0. TypeOK /\ Queued \subseteq accepted /\ IsFiniteSet(Queued) /\ IsFiniteSet(rows)
    BY DEF TypeInv
  <1>1. /\ TableOK' /\ Queued' \subseteq accepted' /\ IsFiniteSet(Queued')
    <2>1. CASE Queued' \subseteq Queued
      BY <1>0, <2>1, TableStep, FS_Subset
    <2>2. CASE ~(Queued' \subseteq Queued)
      <3>1. PICK l \in Letter : Queued' = Queued \cup {l} /\ accepted' = accepted \cup {l}
        BY <2>2, TableStep
      <3>2. IsFiniteSet(Queued \cup {l})
        BY <1>0, FS_AddElement
      <3> QED
        BY <1>0, <3>1, <3>2, TableStep
    <2> QED
      BY <2>1, <2>2
  <1> DEFINE Rest == /\ old \subseteq Letter /\ rows \subseteq Rows /\ busy \subseteq Domain
                     /\ batch \in [Domain -> SUBSET Rows] /\ call \in [Domain -> Calls]
                     /\ late \subseteq Letter /\ copies \in [Letter -> SeenTimes]
                     /\ accepted \subseteq Letter /\ refused \subseteq Letter \ accepted
                     /\ faults \in 0..MaxFaults /\ IsFiniteSet(rows)
  <1>2. Rest
    BY <1>0 DEF TypeOK
  <1>3. Rest'
    <2>1. ASSUME NEW l \in Letter, Put(l) PROVE Rest'
      BY <1>2, <2>1 DEF Put, taskVars
    <2>2. ASSUME NEW l \in Letter, DueAgain(l) PROVE Rest'
      BY <1>2, <2>2 DEF DueAgain, taskVars, handedIn
    <2>3. ASSUME NEW l \in Letter, GrowOld(l) PROVE Rest'
      BY <1>2, <2>3 DEF GrowOld, taskVars, handedIn
    <2>4. ASSUME NEW l \in Letter, HandleLate(l) PROVE Rest'
      <3>1. copies' \in [Letter -> SeenTimes]
        BY <1>0, <1>2, <2>4, TakeInFacts DEF HandleLate
      <3> QED
        BY <1>2, <2>4, <3>1 DEF HandleLate, tableVars, taskVars, handedIn
    <2>5. CASE Tick
      BY <1>0, <1>2, <2>5, DueRowsFacts DEF Tick, tableVars, handedIn
    <2>6. ASSUME NEW d \in Domain, HandOut(d) PROVE Rest'
      <3>1. /\ rows' \subseteq rows /\ busy' \subseteq Domain
            /\ batch' = batch \/ batch' = [batch EXCEPT ![d] = Share(d)]
            /\ UNCHANGED <<old, call, late, copies, accepted, refused, faults>>
        BY <1>2, <2>6 DEF HandOut, tableVars, handedIn
      <3>2. batch' \in [Domain -> SUBSET Rows]
        BY <1>2, <3>1, ShareFacts
      <3>3. IsFiniteSet(rows')
        BY <1>2, <3>1, FS_Subset
      <3> QED
        BY <1>2, <3>1, <3>2, <3>3
    <2>7. ASSUME NEW d \in Domain, NEW r \in batch[d], Send(d, r) PROVE Rest'
      <3>1. r \in Rows
        BY <1>2
      <3>2. [at |-> "sent", letter |-> r.letter, old |-> r.old] \in Calls
        BY <3>1 DEF Rows, Calls
      <3>3. /\ batch' = [batch EXCEPT ![d] = @ \ {r}]
            /\ call' = [call EXCEPT ![d] = [at |-> "sent", letter |-> r.letter, old |-> r.old]]
            /\ UNCHANGED <<old, rows, busy, late, copies, accepted, refused, faults>>
        BY <2>7 DEF Send, tableVars, handedIn
      <3>4. batch' \in [Domain -> SUBSET Rows]
        BY <1>2, <3>3
      <3>5. call' \in [Domain -> Calls]
        BY <1>2, <3>2, <3>3
      <3> QED
        BY <1>2, <3>3, <3>4, <3>5
    <2>8. ASSUME NEW d \in Domain, Handle(d) PROVE Rest'
      <3>1. call[d] # NoCall
        BY <2>8 DEF Handle, NoCall
      <3>2. call[d] \in [at : {"sent", "handled"}, letter : Letter, old : BOOLEAN]
        BY <1>0, <3>1, CallType
      <3>3. call' = [call EXCEPT ![d] = [call[d] EXCEPT !.at = "handled"]]
        BY <2>8 DEF Handle
      <3>4. [call[d] EXCEPT !.at = "handled"] \in Calls
        BY <3>2 DEF Calls
      <3>5. call' \in [Domain -> Calls]
        BY <1>2, <3>3, <3>4
      <3>6. copies' \in [Letter -> SeenTimes]
        BY <1>0, <2>8, <3>2, TakeInFacts DEF Handle
      <3> QED
        BY <1>2, <2>8, <3>5, <3>6 DEF Handle, tableVars, handedIn
    <2>9. ASSUME NEW d \in Domain, Release(d) PROVE Rest'
      BY <1>2, <2>9 DEF Release, tableVars, handedIn
    <2>10. ASSUME NEW d \in Domain, RowDone(d), late' \subseteq Letter, faults' \in 0..MaxFaults
           PROVE  Rest'
      <3>1. /\ call' = [call EXCEPT ![d] = NoCall]
            /\ batch' = batch \/ batch' = [batch EXCEPT ![d] = {}]
            /\ UNCHANGED <<old, rows, busy, copies, accepted, refused>>
        BY <1>0, <2>10, RowDoneFacts
      <3>2. call' \in [Domain -> Calls]
        BY <1>2, <3>1 DEF Calls
      <3>3. batch' \in [Domain -> SUBSET Rows]
        BY <1>2, <3>1
      <3> QED
        BY <1>2, <2>10, <3>1, <3>2, <3>3
    <2>11. Underway \subseteq Letter
      <3> SUFFICES ASSUME NEW d \in Domain, call[d].at = "sent"
                   PROVE  call[d].letter \in Letter
        BY DEF Underway
      <3> QED
        BY <1>0, CallMade, CallType
    <2>12. ASSUME NEW d \in Domain, Answer(d) PROVE Rest'
      <3>1. RowDone(d) /\ late' = late /\ faults' = faults
        BY <2>12 DEF RowDone, Answer
      <3> QED
        BY <1>2, <2>10, <3>1
    <2>13. ASSUME NEW d \in Domain, Unreachable(d) PROVE Rest'
      <3>1. RowDone(d) /\ late' = late /\ faults' = faults
        BY <2>13 DEF RowDone, Unreachable, NoCall
      <3> QED
        BY <1>2, <2>10, <3>1
    <2>14. ASSUME NEW d \in Domain, CallFails(d) PROVE Rest'
      <3>1. RowDone(d) /\ late' \subseteq late \cup Underway
        BY <2>14 DEF RowDone, CallFails
      <3>2. faults' \in 0..MaxFaults
        BY <1>2, <2>14, FedOutboxAssumption DEF CallFails
      <3> QED
        BY <1>2, <2>10, <2>11, <3>1, <3>2
    <2>15. CASE Crash
      <3>1. faults' \in 0..MaxFaults
        BY <1>2, <2>15, FedOutboxAssumption DEF Crash
      <3> QED
        BY <1>2, <2>11, <2>15, <3>1, FS_EmptySet DEF Crash, tableVars, handedIn, Calls
    <2>16. CASE UNCHANGED vars
      BY <1>2, <2>16 DEF vars, tableVars, taskVars, handedIn
    <2> QED
      BY <2>1, <2>2, <2>3, <2>4, <2>5, <2>6, <2>7, <2>8, <2>9, <2>12, <2>13, <2>14, <2>15,
         <2>16 DEF Next, Deliver
  <1> QED
    BY <1>1, <1>3 DEF TypeInv, TypeOK, TableOK

\* The types of the outbox hold for every table, task and fault; a letter is
\* in the table once.
THEOREM OutboxTypeCorrect == Spec => []TypeOK
  <1>1. TypeInv => TypeOK
    BY DEF TypeInv
  <1> QED
    BY <1>1, TypeInit, TypeStep, PTL DEF Spec

-----------------------------------------------------------------------------
(* The cap                                                                 *)

\* outbox_put counts and inserts in one statement, and nothing else adds a
\* row: a destination never has more than OUTBOX_MAX_PER_DEST.
THEOREM OutboxWithinCap == Spec => []QueueWithinCap
  <1>1. Init => QueueWithinCap
    <2> SUFFICES ASSUME Init, NEW d \in Domain
                 PROVE  Cardinality(QueuedFor(d)) <= OUTBOX_MAX_PER_DEST
      BY DEF QueueWithinCap
    <2>1. QueuedFor(d) = {}
      BY DEF Init, QueuedFor, Queued, ToSet
    <2> QED
      BY <2>1, FS_EmptySet, FedOutboxAssumption
  <1>2. TypeInv /\ QueueWithinCap /\ [Next]_vars => QueueWithinCap'
    <2> SUFFICES ASSUME TypeInv, QueueWithinCap, [Next]_vars, NEW d \in Domain
                 PROVE  Cardinality(QueuedFor(d)') <= OUTBOX_MAX_PER_DEST
      BY DEF QueueWithinCap
    <2>1. IsFiniteSet(QueuedFor(d)) /\ Cardinality(QueuedFor(d)) \in Nat
      BY FS_Subset, FS_CardinalityType DEF TypeInv, QueuedFor
    <2>2. Cardinality(QueuedFor(d)) <= OUTBOX_MAX_PER_DEST /\ OUTBOX_MAX_PER_DEST \in Nat
      BY FedOutboxAssumption DEF QueueWithinCap
    <2>3. CASE QueuedFor(d)' \subseteq QueuedFor(d)
      <3>1. /\ Cardinality(QueuedFor(d)') <= Cardinality(QueuedFor(d))
            /\ IsFiniteSet(QueuedFor(d)')
        BY <2>1, <2>3, FS_Subset
      <3>2. Cardinality(QueuedFor(d)') \in Nat
        BY <3>1, FS_CardinalityType
      <3> QED
        BY <2>1, <2>2, <3>1, <3>2
    <2>4. CASE ~(QueuedFor(d)' \subseteq QueuedFor(d))
      <3>1. ~(Queued' \subseteq Queued)
        BY <2>4 DEF QueuedFor
      <3>2. PICK l \in Letter \ accepted : HasRoom(DestOf[l]) /\ Queued' = Queued \cup {l}
        BY <3>1, TableStep
      <3>3. DestOf[l] = d /\ QueuedFor(d)' = QueuedFor(d) \cup {l} /\ l \notin QueuedFor(d)
        BY <2>4, <3>2 DEF QueuedFor, TypeInv
      <3>4. Cardinality(QueuedFor(d) \cup {l}) = Cardinality(QueuedFor(d)) + 1
        BY <2>1, <3>3, FS_AddElement
      <3> QED
        BY <2>1, <2>2, <3>2, <3>3, <3>4 DEF HasRoom
    <2> QED
      BY <2>3, <2>4
  <1> QED
    BY <1>1, <1>2, TypeInit, TypeStep, PTL DEF Spec

-----------------------------------------------------------------------------
(* No accepted letter is lost                                              *)

\* What is true of the copies of rows that a tick has read or a task holds,
\* however stale: a letter read as old is old, and one whose call was handled
\* is on the other server.
Kept == /\ \A r \in rows : r.old => r.letter \in old
        /\ \A d \in Domain : \A r \in batch[d] : r.old => r.letter \in old
        /\ \A d \in Domain : call[d] # NoCall /\ call[d].old => call[d].letter \in old
        /\ \A d \in Domain : call[d].at = "handled" => copies[call[d].letter] > 0
        /\ AcceptedNotLost

\* A step that moves no row to a task and takes no row out of the table.
LEMMA KeptAlong ==
  ASSUME TypeOK, TypeOK', Kept,
         rows' \subseteq rows \/ (\A r \in rows' : r.old => r.letter \in old'),
         \A d \in Domain : batch'[d] \subseteq batch[d] /\ (call'[d] = call[d] \/ call'[d] = NoCall),
         old \subseteq old', \A l \in Letter : copies'[l] >= copies[l],
         accepted' \ Queued' \subseteq accepted \ Queued,
         accepted \subseteq Letter
  PROVE  Kept'
  <1>1. \A r \in rows' : r.old => r.letter \in old'
    BY DEF Kept
  <1>2. \A d \in Domain : \A r \in batch'[d] : r.old => r.letter \in old'
    BY DEF Kept
  <1>3. \A d \in Domain : call'[d] # NoCall /\ call'[d].old => call'[d].letter \in old'
    BY DEF Kept
  <1>4. copies \in [Letter -> 0..3] /\ copies' \in [Letter -> 0..3]
    BY DEF TypeOK, SeenTimes
  <1>5. ASSUME NEW d \in Domain, call'[d].at = "handled"
        PROVE  copies'[call'[d].letter] > 0
    <2>1. call'[d] = call[d] /\ call[d] # NoCall
      BY <1>5 DEF NoCall
    <2>2. call[d].letter \in Letter /\ copies[call[d].letter] > 0
      BY <1>5, <2>1, CallType DEF Kept
    <2> QED
      BY <1>4, <2>1, <2>2
  <1>6. ASSUME NEW l \in accepted' \ (Queued' \cup old')
        PROVE  copies'[l] > 0
    <2>1. l \in accepted \ (Queued \cup old) /\ l \in Letter
      BY <1>6
    <2>2. copies[l] > 0 /\ copies[l] \in 0..3 /\ copies'[l] \in 0..3 /\ copies'[l] >= copies[l]
      BY <1>4, <2>1 DEF Kept, AcceptedNotLost
    <2> QED
      BY <2>2
  <1> QED
    BY <1>1, <1>2, <1>3, <1>5, <1>6 DEF Kept, AcceptedNotLost

\* Every step keeps what is known of rows in hand, and loses no letter.
LEMMA KeptStep == TypeInv /\ TypeInv' /\ Kept /\ [Next]_vars => Kept'
  <1> SUFFICES ASSUME TypeInv, TypeInv', Kept, [Next]_vars PROVE Kept'
    OBVIOUS
  <1>0. TypeOK /\ TypeOK' /\ accepted \subseteq Letter
    BY DEF TypeInv, TypeOK
  <1>1. /\ batch \in [Domain -> SUBSET Rows] /\ call \in [Domain -> Calls]
        /\ copies \in [Letter -> 0..3]
    BY <1>0 DEF TypeOK, SeenTimes
  <1>2. \A l \in Letter : copies[l] >= copies[l]
    BY <1>1
  <1>3. ASSUME UNCHANGED <<rows, batch, call, copies>>, old \subseteq old',
               accepted' \ Queued' \subseteq accepted \ Queued
        PROVE  Kept'
    BY <1>0, <1>2, <1>3, KeptAlong
  <1>4. ASSUME NEW l \in Letter, Put(l) PROVE Kept'
    <2>1. UNCHANGED <<rows, batch, call, copies, old>>
      BY <1>4 DEF Put, taskVars
    <2>2. \/ accepted' = accepted /\ due' = due /\ waiting' = waiting
          \/ accepted' = accepted \cup {l} /\ due' = Append(due, l) /\ waiting' = waiting
      BY <1>4 DEF Put
    <2>3. accepted' \ Queued' \subseteq accepted \ Queued
      <3>1. CASE due' = Append(due, l) /\ waiting' = waiting /\ accepted' = accepted \cup {l}
        <4>1. l \notin ToSet(due)
          BY <1>4 DEF Put, TypeInv, Queued
        <4>2. ToSet(due') = ToSet(due) \cup {l}
          BY <1>0, <3>1, <4>1, AppendFacts DEF TypeOK
        <4> QED
          BY <3>1, <4>2 DEF Queued
      <3>2. CASE accepted' = accepted /\ due' = due /\ waiting' = waiting
        BY <3>2 DEF Queued
      <3> QED
        BY <2>2, <3>1, <3>2
    <2> QED
      BY <1>3, <2>1, <2>3
  <1>5. ASSUME NEW l \in Letter, DueAgain(l) PROVE Kept'
    <2>1. /\ UNCHANGED <<rows, batch, call, copies, old, accepted>>
          /\ due' = Append(due, l) /\ waiting' = waiting \ {l} /\ l \in waiting
      BY <1>5 DEF DueAgain, taskVars, handedIn
    <2>2. l \notin ToSet(due)
      BY <1>0, <2>1 DEF TypeOK
    <2>3. ToSet(due') = ToSet(due) \cup {l}
      BY <1>0, <2>1, <2>2, AppendFacts DEF TypeOK
    <2>4. Queued' = Queued
      BY <2>1, <2>3 DEF Queued
    <2> QED
      BY <1>3, <2>1, <2>4
  <1>6. ASSUME NEW l \in Letter, GrowOld(l) PROVE Kept'
    <2>1. /\ UNCHANGED <<rows, batch, call, copies, accepted, due, waiting>>
          /\ old \subseteq old'
      BY <1>6 DEF GrowOld, taskVars, handedIn
    <2>2. Queued' = Queued
      BY <2>1 DEF Queued
    <2> QED
      BY <1>3, <2>1, <2>2
  <1>7. ASSUME NEW l \in Letter, HandleLate(l) PROVE Kept'
    <2>1. /\ UNCHANGED <<rows, batch, call, accepted, due, waiting, old>>
      BY <1>7 DEF HandleLate, tableVars, taskVars, handedIn
    <2>2. Queued' = Queued
      BY <2>1 DEF Queued
    <2>3. \A k \in Letter : copies'[k] >= copies[k]
      BY <1>0, <1>2, <1>7, TakeInFacts DEF HandleLate
    <2> QED
      BY <1>0, <2>1, <2>2, <2>3, KeptAlong
  <1>8. CASE Tick
    <2>1. /\ UNCHANGED <<batch, call, copies, accepted, due, waiting, old>>
          /\ rows' = DueRows
      BY <1>8 DEF Tick, tableVars, handedIn
    <2>2. Queued' = Queued /\ \A r \in rows' : r.old => r.letter \in old'
      BY <1>0, <2>1, DueRowsFacts DEF Queued
    <2> QED
      BY <1>0, <1>2, <2>1, <2>2, KeptAlong
  <1>9. ASSUME NEW d \in Domain, HandOut(d) PROVE Kept'
    <2>1. /\ rows' \subseteq rows
          /\ batch' = batch \/ batch' = [batch EXCEPT ![d] = Share(d)]
          /\ UNCHANGED <<call, copies, accepted, due, waiting, old>>
      BY <1>9 DEF HandOut, tableVars, handedIn
    <2>2. Queued' = Queued
      BY <2>1 DEF Queued
    <2>3. \A x \in Share(d) : x.old => x.letter \in old
      BY ShareFacts DEF Kept
    <2>4. ASSUME NEW e \in Domain, NEW r \in batch'[e]
          PROVE  r.old => r.letter \in old
      <3>1. r \in batch[e] \/ r \in Share(d)
        BY <1>1, <2>1
      <3> QED
        BY <2>3, <3>1 DEF Kept
    <2> QED
      BY <2>1, <2>2, <2>4 DEF Kept, AcceptedNotLost
  <1>10. ASSUME NEW d \in Domain, NEW r \in batch[d], Send(d, r) PROVE Kept'
    <2>1. /\ batch' = [batch EXCEPT ![d] = @ \ {r}]
          /\ call' = [call EXCEPT ![d] = [at |-> "sent", letter |-> r.letter, old |-> r.old]]
          /\ UNCHANGED <<rows, copies, accepted, due, waiting, old>>
      BY <1>10 DEF Send, tableVars, handedIn
    <2>2. Queued' = Queued
      BY <2>1 DEF Queued
    <2>3. \A e \in Domain : batch'[e] \subseteq batch[e]
      BY <1>1, <2>1
    <2>4. /\ \A e \in Domain \ {d} : call'[e] = call[e]
          /\ call'[d].at = "sent" /\ call'[d].letter = r.letter /\ call'[d].old = r.old
      BY <1>1, <2>1
    <2>5. \A e \in Domain : call'[e] # NoCall /\ call'[e].old => call'[e].letter \in old'
      BY <2>1, <2>4 DEF Kept
    <2>6. \A e \in Domain : call'[e].at = "handled" => copies'[call'[e].letter] > 0
      BY <2>1, <2>4 DEF Kept
    <2> QED
      BY <2>1, <2>2, <2>3, <2>5, <2>6 DEF Kept, AcceptedNotLost
  <1>11. ASSUME NEW d \in Domain, Handle(d) PROVE Kept'
    <2>1. /\ call[d].at = "sent" /\ TakeIn(call[d].letter)
          /\ call' = [call EXCEPT ![d].at = "handled"]
          /\ UNCHANGED <<rows, batch, accepted, due, waiting, old>>
      BY <1>11 DEF Handle, tableVars, handedIn
    <2>2. call[d] \in [at : {"sent", "handled"}, letter : Letter, old : BOOLEAN]
      BY <1>0, <2>1, CallMade, CallType
    <2>3. /\ copies'[call[d].letter] > 0
          /\ \A k \in Letter : copies'[k] >= copies[k]
      BY <1>0, <2>1, <2>2, TakeInFacts
    <2>4. /\ \A e \in Domain \ {d} : call'[e] = call[e]
          /\ call'[d].letter = call[d].letter /\ call'[d].old = call[d].old
      BY <1>1, <2>1, <2>2
    <2>5. call[d] # NoCall
      BY <2>1, CallMade
    <2>6. \A e \in Domain : call'[e] # NoCall /\ call'[e].old => call'[e].letter \in old'
      BY <2>1, <2>4, <2>5 DEF Kept
    <2>7. copies' \in [Letter -> 0..3]
      BY <1>0 DEF TypeOK, SeenTimes
    <2>8. ASSUME NEW e \in Domain, call'[e].at = "handled"
          PROVE  copies'[call'[e].letter] > 0
      <3>1. CASE e = d
        BY <2>3, <2>4, <3>1
      <3>2. CASE e # d
        <4>1. call[e].at = "handled" /\ call'[e].letter = call[e].letter
          BY <2>4, <2>8, <3>2
        <4>2. call[e].letter \in Letter /\ copies[call[e].letter] > 0
          BY <1>0, <4>1, CallMade, CallType DEF Kept
        <4> QED
          BY <1>1, <2>3, <2>7, <4>1, <4>2
      <3> QED
        BY <3>1, <3>2
    <2>9. Queued' = Queued
      BY <2>1 DEF Queued
    <2>10. ASSUME NEW l \in accepted' \ (Queued' \cup old')
           PROVE  copies'[l] > 0
      <3>1. l \in Letter /\ copies[l] > 0 /\ copies'[l] >= copies[l]
        BY <1>0, <2>1, <2>3, <2>9 DEF Kept, AcceptedNotLost
      <3> QED
        BY <1>1, <2>7, <3>1
    <2> QED
      BY <2>1, <2>6, <2>8, <2>10 DEF Kept, AcceptedNotLost
  <1>12. ASSUME NEW d \in Domain, Release(d) PROVE Kept'
    <2>1. UNCHANGED <<rows, batch, call, copies, accepted, due, waiting, old>>
      BY <1>12 DEF Release, tableVars, handedIn
    <2>2. Queued' = Queued
      BY <2>1 DEF Queued
    <2> QED
      BY <1>3, <2>1, <2>2
  <1>13. ASSUME NEW d \in Domain, RowDone(d) PROVE Kept'
    <2> DEFINE l == call[d].letter
    <2>1. /\ call[d] # NoCall /\ l \in Letter
          /\ Queued \ {l} \subseteq Queued'
          /\ l \in Queued \ Queued' => Answer(d) \/ call[d].old
          /\ call' = [call EXCEPT ![d] = NoCall]
          /\ batch' = batch \/ batch' = [batch EXCEPT ![d] = {}]
          /\ UNCHANGED <<old, rows, copies, accepted>>
      BY <1>0, <1>13, RowDoneFacts
    <2>2. l \in Queued \ Queued' => l \in old \/ copies[l] > 0
      <3>1. Answer(d) => copies[l] > 0
        BY DEF Answer, Kept
      <3> QED
        BY <2>1, <3>1 DEF Kept
    <2> HIDE DEF l
    <2>3. \A k \in accepted' \ (Queued' \cup old') : copies'[k] > 0
      BY <2>1, <2>2 DEF Kept, AcceptedNotLost
    <2>4. \A e \in Domain : batch'[e] \subseteq batch[e]
      BY <1>1, <2>1
    <2>5. \A e \in Domain : call'[e] = call[e] \/ call'[e] = NoCall
      BY <1>1, <2>1
    <2>6. \A e \in Domain : call'[e].at = "handled" => copies'[call'[e].letter] > 0
      BY <2>1, <2>5 DEF Kept, NoCall
    <2> QED
      BY <2>1, <2>3, <2>4, <2>5, <2>6 DEF Kept, AcceptedNotLost
  <1>14. ASSUME NEW d \in Domain, Answer(d) \/ Unreachable(d) \/ CallFails(d)
         PROVE  RowDone(d)
    BY <1>14 DEF RowDone, Unreachable, CallFails, NoCall
  <1>15. CASE Crash
    <2>1. /\ rows' = {} /\ batch' = [d \in Domain |-> {}] /\ call' = [d \in Domain |-> NoCall]
          /\ UNCHANGED <<copies, accepted, due, waiting, old>>
      BY <1>15 DEF Crash, tableVars, handedIn
    <2>2. Queued' = Queued
      BY <2>1 DEF Queued
    <2> QED
      BY <1>0, <1>2, <2>1, <2>2, KeptAlong
  <1>16. CASE UNCHANGED vars
    <2>1. UNCHANGED <<rows, batch, call, copies, accepted, due, waiting, old>>
      BY <1>16 DEF vars, tableVars, taskVars, handedIn
    <2>2. Queued' = Queued
      BY <2>1 DEF Queued
    <2> QED
      BY <1>3, <2>1, <2>2
  <1> QED
    BY <1>4, <1>5, <1>6, <1>7, <1>8, <1>9, <1>10, <1>11, <1>12, <1>13, <1>14, <1>15, <1>16
       DEF Next, Deliver

\* deliver_batch for every table and every fault: an accepted letter is in the
\* table, or has grown old, or is on the other server.
THEOREM NoLetterLost == Spec => []AcceptedNotLost
  <1>1. Init => Kept
    BY DEF Init, Kept, AcceptedNotLost, NoCall
  <1>2. Kept => AcceptedNotLost
    BY DEF Kept
  <1> QED
    BY <1>1, <1>2, KeptStep, TypeInit, TypeStep, PTL DEF Spec

-----------------------------------------------------------------------------
(* How often a letter is sent                                              *)

\* Rows in hand are of accepted letters, a tick holds a letter once.
RowsTidy == /\ \A r \in rows : r.letter \in accepted
            /\ \A r, q \in rows : r.letter = q.letter => r = q
            /\ late \subseteq accepted
            /\ \A l \in Letter : l \notin accepted => copies[l] = 0

\* A task for destination e with rows b and call c holds letters to e, each
\* once; a destination that is not busy has no task.
TaskTidy(e, b, c, isBusy, A) ==
  /\ \A r \in b : r.letter \in A /\ DestOf[r.letter] = e
  /\ \A r, q \in b : r.letter = q.letter => r = q
  /\ c # NoCall => /\ c.letter \in A /\ DestOf[c.letter] = e
                   /\ \A r \in b : r.letter # c.letter
  /\ ~isBusy => b = {} /\ c = NoCall

Tidy == RowsTidy /\ \A d \in Domain : TaskTidy(d, batch[d], call[d], d \in busy, accepted)

\* Where a letter may be beside the table.
InRows(l) == \E r \in rows : r.letter = l
Pending(l) == \/ \E r \in batch[DestOf[l]] : r.letter = l
              \/ call[DestOf[l]].at = "sent" /\ call[DestOf[l]].letter = l
Handled(l) == call[DestOf[l]].at = "handled" /\ call[DestOf[l]].letter = l

\* While its row is in the table a letter has been taken in only if the task
\* is about to delete the row; afterwards one stale copy of the row is left,
\* with the tick or with the task.
LetterOnce(l) ==
  /\ l \in Queued => copies[l] <= 1 /\ (copies[l] = 1 => Handled(l))
  /\ l \notin Queued => /\ copies[l] <= 2
                        /\ InRows(l) => copies[l] <= 1 /\ ~Pending(l)
                        /\ Pending(l) => copies[l] <= 1

Once == faults = 0 => /\ late = {}
                      /\ \A l \in Letter : IF DestOf[l] \in Down THEN copies[l] = 0
                                           ELSE LetterOnce(l)

\* Every step keeps the rows in hand tidy.
LEMMA TidyStep == TypeInv /\ Tidy /\ [Next]_vars => Tidy'
  <1> SUFFICES ASSUME TypeInv, Tidy, [Next]_vars PROVE Tidy'
    OBVIOUS
  <1>0. TypeOK /\ Queued \subseteq accepted
    BY DEF TypeInv
  <1>1. /\ batch \in [Domain -> SUBSET Rows] /\ call \in [Domain -> Calls]
        /\ copies \in [Letter -> 0..3] /\ rows \subseteq Rows
    BY <1>0 DEF TypeOK, SeenTimes
  <1>2. RowsTidy /\ \A d \in Domain : TaskTidy(d, batch[d], call[d], d \in busy, accepted)
    BY DEF Tidy
  <1>3. accepted \subseteq accepted'
    BY TableStep
  <1>4. ASSUME UNCHANGED <<batch, call, busy>>, RowsTidy'
        PROVE  Tidy'
    BY <1>2, <1>3, <1>4 DEF Tidy, TaskTidy
  <1>5. ASSUME NEW d \in Domain, RowsTidy', busy' \ {d} = busy \ {d}, accepted' = accepted,
               TaskTidy(d, batch'[d], call'[d], d \in busy', accepted),
               \A e \in Domain \ {d} : batch'[e] = batch[e] /\ call'[e] = call[e]
        PROVE  Tidy'
    <2> SUFFICES ASSUME NEW e \in Domain
                 PROVE  TaskTidy(e, batch'[e], call'[e], e \in busy', accepted')
      BY <1>5 DEF Tidy
    <2>1. CASE e = d
      BY <1>5, <2>1
    <2>2. CASE e # d
      <3>1. batch'[e] = batch[e] /\ call'[e] = call[e] /\ (e \in busy' <=> e \in busy)
        BY <1>5, <2>2
      <3> QED
        BY <1>2, <1>5, <3>1 DEF TaskTidy
    <2> QED
      BY <2>1, <2>2
  <1>6. ASSUME UNCHANGED <<rows, late, copies>> PROVE RowsTidy'
    BY <1>2, <1>3, <1>6 DEF RowsTidy
  <1>7. ASSUME NEW l \in Letter, Put(l) \/ DueAgain(l) \/ GrowOld(l)
        PROVE  Tidy'
    <2>1. UNCHANGED <<rows, late, copies, batch, call, busy>>
      BY <1>7 DEF Put, DueAgain, GrowOld, taskVars
    <2> QED
      BY <1>4, <1>6, <2>1
  <1>8. ASSUME NEW l \in Letter, HandleLate(l) PROVE Tidy'
    <2>1. /\ UNCHANGED <<rows, batch, call, busy, accepted>> /\ late' \subseteq late
          /\ l \in late /\ (TakeIn(l) \/ copies' = copies)
      BY <1>8 DEF HandleLate, taskVars, handedIn
    <2>2. \A k \in Letter : k \notin accepted => copies'[k] = copies[k]
      BY <1>0, <1>2, <2>1, TakeInFacts DEF RowsTidy
    <2>3. RowsTidy'
      BY <1>2, <2>1, <2>2 DEF RowsTidy
    <2> QED
      BY <1>4, <2>1, <2>3
  <1>9. CASE Tick
    <2>1. UNCHANGED <<late, copies, batch, call, busy, accepted>> /\ rows' = DueRows
      BY <1>9 DEF Tick, handedIn
    <2>2. RowsTidy'
      BY <1>0, <1>2, <2>1, DueRowsFacts DEF RowsTidy
    <2> QED
      BY <1>4, <2>1, <2>2
  <1>10. ASSUME NEW d \in Domain, HandOut(d) PROVE Tidy'
    <2>1. rows' \subseteq rows /\ UNCHANGED <<call, late, copies, accepted>>
      BY <1>10 DEF HandOut, handedIn
    <2>2. RowsTidy'
      BY <1>2, <2>1 DEF RowsTidy
    <2>3. CASE d \in busy
      <3>1. UNCHANGED <<batch, call, busy>>
        BY <1>10, <2>3 DEF HandOut
      <3> QED
        BY <1>4, <2>2, <3>1
    <2>4. CASE d \notin busy
      <3>1. batch' = [batch EXCEPT ![d] = Share(d)] /\ busy' = busy \cup {d}
        BY <1>10, <2>4 DEF HandOut
      <3>2. call[d] = NoCall
        BY <1>2, <2>4 DEF TaskTidy
      <3>3. \A r \in Share(d) : r.letter \in accepted /\ DestOf[r.letter] = d
        BY <1>2, ShareFacts DEF RowsTidy
      <3>4. ASSUME NEW x \in Share(d), NEW y \in Share(d), x.letter = y.letter
            PROVE  x = y
        <4>1. PICK r \in rows : r.letter = x.letter /\ x = [r EXCEPT !.place = Ahead(d, r)]
          BY ShareFacts
        <4>2. PICK q \in rows : q.letter = y.letter /\ y = [q EXCEPT !.place = Ahead(d, q)]
          BY ShareFacts
        <4>3. r = q
          BY <1>2, <3>4, <4>1, <4>2 DEF RowsTidy
        <4> QED
          BY <4>1, <4>2, <4>3
      <3>5. batch'[d] = Share(d) /\ \A e \in Domain \ {d} : batch'[e] = batch[e]
        BY <1>1, <3>1
      <3>6. TaskTidy(d, batch'[d], call'[d], d \in busy', accepted)
        BY <2>1, <3>1, <3>2, <3>3, <3>4, <3>5 DEF TaskTidy
      <3> QED
        BY <1>5, <2>1, <2>2, <3>1, <3>5, <3>6
    <2> QED
      BY <2>3, <2>4
  <1>11. ASSUME NEW d \in Domain, NEW r \in batch[d], Send(d, r) PROVE Tidy'
    <2> DEFINE c == [at |-> "sent", letter |-> r.letter, old |-> r.old]
    <2>1. /\ batch' = [batch EXCEPT ![d] = @ \ {r}] /\ call' = [call EXCEPT ![d] = c]
          /\ UNCHANGED <<rows, late, copies, accepted, busy>>
      BY <1>11 DEF Send, handedIn
    <2>2. /\ batch'[d] = batch[d] \ {r} /\ call'[d] = c
          /\ \A e \in Domain \ {d} : batch'[e] = batch[e] /\ call'[e] = call[e]
      BY <1>1, <2>1
    <2>3. c.letter = r.letter
      OBVIOUS
    <2>4. TaskTidy(d, batch'[d], call'[d], d \in busy', accepted)
      BY <1>2, <2>1, <2>2, <2>3 DEF TaskTidy
    <2> QED
      BY <1>5, <1>6, <2>1, <2>2, <2>4
  <1>12. ASSUME NEW d \in Domain, Handle(d) PROVE Tidy'
    <2>1. /\ call[d].at = "sent" /\ TakeIn(call[d].letter)
          /\ call' = [call EXCEPT ![d].at = "handled"]
          /\ UNCHANGED <<rows, batch, late, accepted, busy>>
      BY <1>12 DEF Handle, handedIn
    <2>2. /\ call[d] \in [at : {"sent", "handled"}, letter : Letter, old : BOOLEAN]
          /\ call[d] # NoCall
      BY <1>0, <2>1, CallMade, CallType
    <2>3. /\ call'[d].letter = call[d].letter
          /\ \A e \in Domain \ {d} : batch'[e] = batch[e] /\ call'[e] = call[e]
      BY <1>1, <2>1, <2>2
    <2>4. call[d].letter \in accepted
      BY <1>2, <2>2 DEF TaskTidy
    <2>5. \A k \in Letter : k \notin accepted => copies'[k] = copies[k]
      BY <1>0, <2>1, <2>2, <2>4, TakeInFacts
    <2>6. RowsTidy'
      BY <1>2, <2>1, <2>5 DEF RowsTidy
    <2>7. TaskTidy(d, batch'[d], call'[d], d \in busy', accepted)
      BY <1>2, <2>1, <2>2, <2>3 DEF TaskTidy
    <2> QED
      BY <1>5, <2>1, <2>3, <2>6, <2>7
  <1>13. ASSUME NEW d \in Domain, Release(d) PROVE Tidy'
    <2>1. /\ batch[d] = {} /\ call[d] = NoCall /\ busy' = busy \ {d}
          /\ UNCHANGED <<rows, batch, call, late, copies, accepted>>
      BY <1>13 DEF Release, handedIn
    <2>2. TaskTidy(d, batch'[d], call'[d], d \in busy', accepted)
      BY <2>1 DEF TaskTidy
    <2> QED
      BY <1>5, <1>6, <2>1, <2>2
  <1>14. ASSUME NEW d \in Domain, RowDone(d), late' \subseteq accepted PROVE Tidy'
    <2>1. /\ call' = [call EXCEPT ![d] = NoCall]
          /\ batch' = batch \/ batch' = [batch EXCEPT ![d] = {}]
          /\ UNCHANGED <<rows, copies, accepted, busy>>
      BY <1>0, <1>14, RowDoneFacts
    <2>2. /\ call'[d] = NoCall /\ batch'[d] \subseteq batch[d]
          /\ \A e \in Domain \ {d} : batch'[e] = batch[e] /\ call'[e] = call[e]
      BY <1>1, <2>1
    <2>3. RowsTidy'
      BY <1>2, <1>14, <2>1 DEF RowsTidy
    <2>4. TaskTidy(d, batch'[d], call'[d], d \in busy', accepted)
      BY <1>2, <2>1, <2>2 DEF TaskTidy
    <2> QED
      BY <1>5, <2>1, <2>2, <2>3, <2>4
  <1>15. Underway \subseteq accepted /\ late \subseteq accepted
    <2>1. ASSUME NEW d \in Domain, call[d].at = "sent"
          PROVE  call[d].letter \in accepted
      BY <1>2, <2>1, CallMade DEF TaskTidy
    <2> QED
      BY <1>2, <2>1 DEF Underway, RowsTidy
  <1>16. ASSUME NEW d \in Domain, Answer(d) \/ Unreachable(d) \/ CallFails(d)
         PROVE  RowDone(d) /\ late' \subseteq accepted
    <2>1. RowDone(d)
      BY <1>16 DEF RowDone, Unreachable, CallFails, NoCall
    <2>2. late' = late \/ late' \subseteq late \cup Underway
      BY <1>16 DEF Answer, Unreachable, CallFails
    <2> QED
      BY <1>15, <2>1, <2>2
  <1>17. CASE Crash
    <2>1. /\ rows' = {} /\ batch' = [d \in Domain |-> {}] /\ call' = [d \in Domain |-> NoCall]
          /\ late' = late \cup Underway
          /\ UNCHANGED <<copies, accepted>>
      BY <1>17 DEF Crash, handedIn
    <2>2. RowsTidy'
      BY <1>2, <1>15, <2>1 DEF RowsTidy
    <2> QED
      BY <2>1, <2>2 DEF Tidy, TaskTidy
  <1>18. CASE UNCHANGED vars
    <2>1. UNCHANGED <<rows, late, copies, batch, call, busy>>
      BY <1>18 DEF vars, taskVars
    <2> QED
      BY <1>4, <1>6, <2>1
  <1> QED
    BY <1>7, <1>8, <1>9, <1>10, <1>11, <1>12, <1>13, <1>14, <1>16, <1>17, <1>18
       DEF Next, Deliver

\* A letter that a step does not send, take in or bring back is as it was.
LEMMA LetterSame ==
  ASSUME NEW k \in Letter, LetterOnce(k),
         k \in Queued' <=> k \in Queued, copies'[k] = copies[k],
         InRows(k)' => InRows(k), Pending(k)' => Pending(k), Handled(k) => Handled(k)'
  PROVE  LetterOnce(k)'
  BY DEF LetterOnce

\* The same for a step that only takes rows out of hands.
LEMMA LetterLeft ==
  ASSUME NEW k \in Letter, LetterOnce(k),
         k \in Queued' <=> k \in Queued, copies'[k] = copies[k],
         rows' \subseteq rows, batch'[DestOf[k]] \subseteq batch[DestOf[k]],
         call'[DestOf[k]] = call[DestOf[k]]
  PROVE  LetterOnce(k)'
  <1>1. /\ InRows(k)' => InRows(k)
        /\ Pending(k)' => Pending(k)
        /\ Handled(k) => Handled(k)'
    BY DEF InRows, Pending, Handled
  <1> QED
    BY <1>1, LetterSame

\* As long as no call fails, every step keeps a letter with one repeat to come
\* at most.
LEMMA OnceStep == TypeInv /\ TypeInv' /\ Tidy /\ Once /\ [Next]_vars => Once'
  <1> SUFFICES ASSUME TypeInv, TypeInv', Tidy, Once, [Next]_vars, faults' = 0
               PROVE  /\ late' = {}
                      /\ \A l \in Letter : IF DestOf[l] \in Down THEN copies'[l] = 0
                                           ELSE LetterOnce(l)'
    BY DEF Once
  <1>0. TypeOK /\ TypeOK' /\ Queued \subseteq accepted
    BY DEF TypeInv
  <1>1. /\ batch \in [Domain -> SUBSET Rows] /\ call \in [Domain -> Calls]
        /\ copies \in [Letter -> 0..3] /\ copies' \in [Letter -> 0..3]
        /\ faults \in Nat /\ DestOf \in [Letter -> Domain]
    BY <1>0, FedOutboxAssumption DEF TypeOK, SeenTimes
  <1>2. RowsTidy /\ \A d \in Domain : TaskTidy(d, batch[d], call[d], d \in busy, accepted)
    BY DEF Tidy
  <1>3. ~Crash /\ \A d \in Domain : ~CallFails(d)
    BY <1>1 DEF Crash, CallFails
  <1>4. faults = 0
    <2>1. CASE UNCHANGED vars
      BY <2>1 DEF vars
    <2>2. CASE Next
      <3>1. UNCHANGED faults
        BY <1>3, <2>2 DEF Next, Deliver, Put, DueAgain, GrowOld, HandleLate, Tick, HandOut,
                          Send, Handle, Answer, Unreachable, Release
      <3> QED
        BY <3>1
    <2> QED
      BY <2>1, <2>2
  <1>5. late = {} /\ \A l \in Letter : /\ DestOf[l] \in Down => copies[l] = 0
                                       /\ DestOf[l] \notin Down => LetterOnce(l)
    BY <1>4 DEF Once
  <1>6. ASSUME late' = late,
               \A k \in Letter : DestOf[k] \in Down => copies'[k] = copies[k],
               \A k \in Letter : DestOf[k] \notin Down => LetterOnce(k)'
        PROVE  /\ late' = {}
               /\ \A l \in Letter : IF DestOf[l] \in Down THEN copies'[l] = 0
                                    ELSE LetterOnce(l)'
    BY <1>5, <1>6
  <1>7. ASSUME UNCHANGED <<late, copies, rows, batch, call>>, Queued' = Queued
        PROVE  /\ late' = {}
               /\ \A l \in Letter : IF DestOf[l] \in Down THEN copies'[l] = 0
                                    ELSE LetterOnce(l)'
    BY <1>5, <1>6, <1>7, LetterLeft
  <1>8. ASSUME NEW l \in Letter, Put(l)
        PROVE  /\ late' = {}
               /\ \A k \in Letter : IF DestOf[k] \in Down THEN copies'[k] = 0
                                    ELSE LetterOnce(k)'
    <2>1. UNCHANGED <<late, copies, rows, batch, call, waiting>> /\ l \notin accepted
      BY <1>8 DEF Put, taskVars
    <2>2. due \in Seq(Letter) /\ IsInjective(due)
      BY <1>0 DEF TypeOK
    <2>3. l \notin Queued /\ (Queued' = Queued \/ Queued' = Queued \cup {l})
      <3>1. l \notin Queued
        BY <1>0, <2>1
      <3>2. due' = due \/ due' = Append(due, l)
        BY <1>8 DEF Put
      <3>3. l \notin ToSet(due) /\ ToSet(Append(due, l)) = ToSet(due) \cup {l}
        BY <2>2, <3>1, AppendFacts DEF Queued
      <3> QED
        BY <2>1, <3>1, <3>2, <3>3 DEF Queued
    <2>4. copies[l] = 0
      BY <1>2, <2>1 DEF RowsTidy
    <2>5. ASSUME NEW k \in Letter, DestOf[k] \notin Down PROVE LetterOnce(k)'
      <3>1. CASE k \in Queued' <=> k \in Queued
        BY <1>5, <2>1, <2>5, <3>1, LetterLeft
      <3>2. CASE ~(k \in Queued' <=> k \in Queued)
        <4>1. k = l /\ k \in Queued' /\ copies'[k] = 0
          BY <2>1, <2>3, <2>4, <3>2
        <4> QED
          BY <4>1 DEF LetterOnce
      <3> QED
        BY <3>1, <3>2
    <2> QED
      BY <1>6, <2>1, <2>5
  <1>9. ASSUME NEW l \in Letter, DueAgain(l) \/ GrowOld(l)
        PROVE  UNCHANGED <<late, copies, rows, batch, call>> /\ Queued' = Queued
    <2>1. CASE DueAgain(l)
      <3>1. /\ l \in waiting /\ due' = Append(due, l) /\ waiting' = waiting \ {l}
            /\ UNCHANGED <<late, copies, rows, batch, call>>
        BY <2>1 DEF DueAgain, taskVars
      <3>2. ToSet(Append(due, l)) = ToSet(due) \cup {l}
        BY <1>0, <3>1, AppendFacts DEF TypeOK
      <3> QED
        BY <3>1, <3>2 DEF Queued
    <2>2. CASE GrowOld(l)
      BY <2>2 DEF GrowOld, taskVars, Queued
    <2> QED
      BY <1>9, <2>1, <2>2
  <1>10. \A l \in Letter : ~HandleLate(l)
    BY <1>5 DEF HandleLate
  <1>11. CASE Tick
    <2>1. rows' = DueRows /\ UNCHANGED <<late, copies, batch, call, due, waiting>>
      BY <1>11 DEF Tick, tableVars
    <2>2. Queued' = Queued
      BY <2>1 DEF Queued
    <2>3. ASSUME NEW k \in Letter, DestOf[k] \notin Down PROVE LetterOnce(k)'
      <3>1. InRows(k)' => k \in Queued
        BY <1>0, <2>1, DueRowsFacts DEF InRows
      <3>2. /\ Pending(k)' => Pending(k)
            /\ Handled(k) => Handled(k)'
        BY <2>1 DEF Pending, Handled
      <3> QED
        BY <1>5, <2>1, <2>2, <2>3, <3>1, <3>2 DEF LetterOnce
    <2> QED
      BY <1>6, <2>1, <2>3
  <1>12. ASSUME NEW d \in Domain, HandOut(d)
         PROVE  /\ late' = {}
                /\ \A k \in Letter : IF DestOf[k] \in Down THEN copies'[k] = 0
                                     ELSE LetterOnce(k)'
    <2>1. /\ rows' = rows \ RowsFor(d) /\ rows' \subseteq rows
          /\ UNCHANGED <<late, copies, call, due, waiting>>
          /\ \/ batch' = batch
             \/ d \notin busy /\ batch' = [batch EXCEPT ![d] = Share(d)]
      BY <1>12 DEF HandOut, tableVars
    <2>2. Queued' = Queued
      BY <2>1 DEF Queued
    <2>3. ASSUME NEW k \in Letter, DestOf[k] \notin Down PROVE LetterOnce(k)'
      <3>0. LetterOnce(k) /\ DestOf[k] \in Domain
        BY <1>1, <1>5, <2>3
      <3>1. CASE batch'[DestOf[k]] = batch[DestOf[k]]
        BY <2>1, <2>2, <3>0, <3>1, LetterLeft
      <3>2. CASE batch'[DestOf[k]] # batch[DestOf[k]]
        <4>1. d = DestOf[k] /\ d \notin busy /\ batch'[d] = Share(d)
          BY <1>1, <2>1, <3>0, <3>2
        <4>2. ~InRows(k)'
          BY <2>1, <4>1 DEF InRows, RowsFor
        <4>3. call[d] = NoCall
          BY <1>2, <4>1 DEF TaskTidy
        <4>4. Pending(k)' => InRows(k)
          BY <2>1, <4>1, <4>3, ShareFacts DEF Pending, InRows, NoCall
        <4>5. ~Handled(k)
          BY <4>1, <4>3 DEF Handled, NoCall
        <4> QED
          BY <2>1, <2>2, <3>0, <4>2, <4>4, <4>5 DEF LetterOnce
      <3> QED
        BY <3>1, <3>2
    <2> QED
      BY <1>6, <2>1, <2>3
  <1>13. ASSUME NEW d \in Domain, NEW r \in batch[d], Send(d, r)
         PROVE  /\ late' = {}
                /\ \A k \in Letter : IF DestOf[k] \in Down THEN copies'[k] = 0
                                     ELSE LetterOnce(k)'
    <2> DEFINE c == [at |-> "sent", letter |-> r.letter, old |-> r.old]
    <2>1. /\ batch' = [batch EXCEPT ![d] = @ \ {r}] /\ call' = [call EXCEPT ![d] = c]
          /\ call[d] = NoCall
          /\ UNCHANGED <<rows, late, copies, due, waiting>>
      BY <1>13 DEF Send, tableVars
    <2>2. Queued' = Queued
      BY <2>1 DEF Queued
    <2>3. /\ batch'[d] = batch[d] \ {r} /\ call'[d] = c /\ c.letter = r.letter
          /\ \A e \in Domain \ {d} : batch'[e] = batch[e] /\ call'[e] = call[e]
      BY <1>1, <2>1
    <2> HIDE DEF c
    <2>4. ASSUME NEW k \in Letter, DestOf[k] \notin Down PROVE LetterOnce(k)'
      <3>0. LetterOnce(k) /\ DestOf[k] \in Domain
        BY <1>1, <1>5, <2>4
      <3>1. CASE DestOf[k] # d
        BY <2>1, <2>2, <2>3, <3>0, <3>1, LetterLeft
      <3>2. CASE DestOf[k] = d
        <4>1. Pending(k)' => Pending(k)
          BY <2>3, <3>2 DEF Pending
        <4>2. ~Handled(k) /\ (InRows(k)' => InRows(k))
          BY <2>1, <3>2 DEF Handled, NoCall, InRows
        <4> QED
          BY <2>1, <2>2, <3>0, <4>1, <4>2, LetterSame
      <3> QED
        BY <3>1, <3>2
    <2> QED
      BY <1>6, <2>1, <2>4
  <1>14. ASSUME NEW d \in Domain, Handle(d)
         PROVE  /\ late' = {}
                /\ \A k \in Letter : IF DestOf[k] \in Down THEN copies'[k] = 0
                                     ELSE LetterOnce(k)'
    <2> DEFINE l == call[d].letter
    <2>1. /\ call[d].at = "sent" /\ d \notin Down /\ TakeIn(l)
          /\ call' = [call EXCEPT ![d].at = "handled"]
          /\ UNCHANGED <<rows, batch, late, due, waiting>>
      BY <1>14 DEF Handle, tableVars
    <2>2. Queued' = Queued
      BY <2>1 DEF Queued
    <2>3. /\ call[d] \in [at : {"sent", "handled"}, letter : Letter, old : BOOLEAN]
          /\ call[d] # NoCall
      BY <1>0, <2>1, CallMade, CallType
    <2>4. /\ call'[d].letter = l /\ call'[d].at = "handled" /\ l \in Letter
          /\ \A e \in Domain \ {d} : call'[e] = call[e]
      BY <1>1, <2>1, <2>3
    <2>5. DestOf[l] = d /\ \A r \in batch[d] : r.letter # l
      BY <1>2, <2>3 DEF TaskTidy
    <2>6. /\ copies'[l] <= copies[l] + 1
          /\ \A k \in Letter \ {l} : copies'[k] = copies[k]
      BY <1>0, <2>1, <2>4, TakeInFacts
    <2>7. Pending(l) /\ ~Handled(l) /\ call[d].letter = l
      BY <2>1, <2>5 DEF Pending, Handled
    <2> HIDE DEF l
    <2>8. ASSUME NEW k \in Letter, DestOf[k] \notin Down PROVE LetterOnce(k)'
      <3>0. LetterOnce(k) /\ DestOf[k] \in Domain
        BY <1>1, <1>5, <2>8
      <3>1. CASE DestOf[k] # d
        BY <2>1, <2>2, <2>4, <2>5, <2>6, <3>0, <3>1, LetterLeft
      <3>2. CASE DestOf[k] = d /\ k # l
        <4>1. Pending(k)' => Pending(k)
          BY <2>1, <2>4, <3>2 DEF Pending
        <4>2. ~Handled(k) /\ (InRows(k)' => InRows(k))
          BY <2>1, <3>2 DEF Handled, InRows
        <4> QED
          BY <2>2, <2>6, <3>0, <3>2, <4>1, <4>2, LetterSame
      <3>3. CASE k = l
        <4>1. copies[l] \in 0..3 /\ copies'[l] \in 0..3
          BY <1>1, <2>4
        <4>2. Handled(k)' /\ ~Pending(k)'
          BY <2>1, <2>4, <2>5, <3>3 DEF Handled, Pending
        <4>3. InRows(k)' => InRows(k)
          BY <2>1 DEF InRows
        <4>4. CASE l \in Queued
          <5>1. copies[l] = 0
            BY <2>7, <3>0, <3>3, <4>1, <4>4 DEF LetterOnce
          <5> QED
            BY <2>2, <2>6, <3>3, <4>1, <4>2, <4>4, <5>1 DEF LetterOnce
        <4>5. CASE l \notin Queued
          <5>1. copies[l] <= 1 /\ ~InRows(k)
            BY <2>7, <3>0, <3>3, <4>5 DEF LetterOnce
          <5> QED
            BY <2>2, <2>6, <3>3, <4>1, <4>2, <4>3, <4>5, <5>1 DEF LetterOnce
        <4> QED
          BY <4>4, <4>5
      <3> QED
        BY <3>1, <3>2, <3>3
    <2>9. \A k \in Letter : DestOf[k] \in Down => copies'[k] = copies[k]
      BY <2>1, <2>5, <2>6
    <2> QED
      BY <1>6, <2>1, <2>8, <2>9
  <1>15. ASSUME NEW d \in Domain, Answer(d) \/ Unreachable(d)
         PROVE  /\ late' = {}
                /\ \A k \in Letter : IF DestOf[k] \in Down THEN copies'[k] = 0
                                     ELSE LetterOnce(k)'
    <2> DEFINE l == call[d].letter
    <2>0. RowDone(d) /\ late' = late
      BY <1>15 DEF RowDone, Answer, Unreachable, NoCall
    <2>1. /\ call[d] # NoCall /\ l \in Letter
          /\ Queued' \subseteq Queued /\ Queued \ {l} \subseteq Queued'
          /\ call' = [call EXCEPT ![d] = NoCall]
          /\ batch' = batch \/ batch' = [batch EXCEPT ![d] = {}]
          /\ UNCHANGED <<rows, copies>>
      BY <1>0, <2>0, RowDoneFacts
    <2>2. DestOf[l] = d /\ \A r \in batch[d] : r.letter # l
      BY <1>2, <2>1 DEF TaskTidy
    <2>3. /\ call'[d] = NoCall /\ batch'[d] \subseteq batch[d]
          /\ \A e \in Domain \ {d} : batch'[e] = batch[e] /\ call'[e] = call[e]
      BY <1>1, <2>1
    <2>4. d \notin Down => l \notin Queued'
      <3> SUFFICES ASSUME d \notin Down PROVE l \notin Queued'
        OBVIOUS
      <3>1. Delete(l)
        BY <1>15 DEF Answer, Unreachable
      <3>2. ToSet(RemoveFirst(due, l)) = ToSet(due) \ {l}
        BY <1>0, <2>1, RemoveFacts DEF TypeOK
      <3> QED
        BY <3>1, <3>2 DEF Delete, Queued
    <2>5. call[d].letter = l
      OBVIOUS
    <2> HIDE DEF l
    <2>6. ASSUME NEW k \in Letter, DestOf[k] \notin Down PROVE LetterOnce(k)'
      <3>0. LetterOnce(k) /\ DestOf[k] \in Domain
        BY <1>1, <1>5, <2>6
      <3>1. CASE DestOf[k] # d
        BY <2>1, <2>2, <2>3, <3>0, <3>1, LetterLeft
      <3>2. CASE DestOf[k] = d /\ k # l
        <4>1. Pending(k)' => Pending(k)
          BY <2>3, <3>2 DEF Pending, NoCall
        <4>2. ~Handled(k) /\ (InRows(k)' => InRows(k))
          BY <2>1, <2>5, <3>2 DEF Handled, InRows
        <4> QED
          BY <2>1, <3>0, <3>2, <4>1, <4>2, LetterSame
      <3>3. CASE k = l
        <4>1. ~Pending(k)'
          BY <2>2, <2>3, <3>3 DEF Pending, NoCall
        <4>2. InRows(k)' => InRows(k)
          BY <2>1 DEF InRows
        <4>3. k \notin Queued' /\ copies'[k] = copies[k] /\ copies[k] \in 0..3
          BY <1>1, <2>1, <2>2, <2>4, <2>6, <3>3
        <4> QED
          BY <3>0, <3>3, <4>1, <4>2, <4>3 DEF LetterOnce
      <3> QED
        BY <3>1, <3>2, <3>3
    <2> QED
      BY <1>6, <2>0, <2>1, <2>6
  <1>16. ASSUME NEW d \in Domain, Release(d)
         PROVE  UNCHANGED <<late, copies, rows, batch, call>> /\ Queued' = Queued
    BY <1>16 DEF Release, tableVars, Queued
  <1>17. CASE UNCHANGED vars
    <2>1. UNCHANGED <<late, copies, rows, batch, call>> /\ Queued' = Queued
      BY <1>17 DEF vars, tableVars, taskVars, Queued
    <2> QED
      BY <1>7, <2>1
  <1> QED
    BY <1>3, <1>7, <1>8, <1>9, <1>10, <1>11, <1>12, <1>13, <1>14, <1>15, <1>16, <1>17
       DEF Next, Deliver

\* outbox_loop for every table: as long as every call to a server that answers
\* is answered, no letter is taken in a third time.
THEOREM OneRepeatAtMost == Spec => []AtMostOneRepeat
  <1>1. Init => Tidy /\ Once
    <2> SUFFICES ASSUME Init PROVE Tidy /\ Once
      OBVIOUS
    <2>1. Queued = {}
      BY DEF Init, Queued, ToSet
    <2>2. Tidy
      BY DEF Init, Tidy, RowsTidy, TaskTidy
    <2>3. \A l \in Letter : LetterOnce(l)
      BY <2>1, FedOutboxAssumption DEF Init, LetterOnce, InRows, Pending, NoCall
    <2> QED
      BY <2>2, <2>3 DEF Init, Once
  <1>2. TypeInv /\ Once => AtMostOneRepeat
    <2> SUFFICES ASSUME TypeInv, Once, faults = 0, NEW l \in Letter
                 PROVE  copies[l] <= 2
      BY DEF AtMostOneRepeat
    <2>1. copies[l] \in 0..3
      BY DEF TypeInv, TypeOK, SeenTimes
    <2> QED
      BY <2>1 DEF Once, LetterOnce
  <1> QED
    BY <1>1, <1>2, OnceStep, TidyStep, TypeInit, TypeStep, PTL DEF Spec
=============================================================================
