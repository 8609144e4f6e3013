----------------------------- MODULE MCHistory ------------------------------
(* Instances of HistorySync: two devices and what happens to the account.  *)
EXTENDS HistorySync, TLC

CONSTANTS d1, d2, a, b, m1, m2

Own(d, o) == [dev |-> d, op |-> o, own |-> TRUE]
In(d, o) == [dev |-> d, op |-> o, own |-> FALSE]

\* A deletion and a row, of one message or of two.
Kinds == (a :> "gone") @@ (b :> "row")
Together == [o \in Op |-> m1]
Apart == (a :> m1) @@ (b :> m2)

\* The user acts on one device, something arrives at the other.
Mixed == {Own(d2, a), In(d1, b)}

\* The user acts on one device only, or on both.
One == {Own(d2, a), Own(d2, b)}
Both == {Own(d1, a), Own(d2, b)}

\* What happens in some scene of Troubles.
Happenings == Mixed \cup One

\* No device fails or is unable to open records, and nothing is old.
Calm(inputs, target, compactors) ==
  [inputs |-> inputs, target |-> target, compactors |-> compactors, unreliable |-> {},
   blind |-> {}, ages |-> {}]

\* One device builds checkpoints, and it fails while the other has two things
\* to write, or either fails while one has something; or it is unable to open
\* records; or the deletion grows old.  Or both devices build checkpoints.
Troubles == {[Calm(One, Apart, {d1}) EXCEPT !.unreliable = {d1}],
             [Calm({Own(d2, a)}, Apart, {d1}) EXCEPT !.unreliable = Device],
             [Calm({In(d1, b)}, Apart, {d1}) EXCEPT !.unreliable = Device],
             [Calm(Mixed, Together, {d1}) EXCEPT !.blind = {d1}],
             [Calm(Mixed, Together, {d1}) EXCEPT !.ages = {a}],
             Calm({Own(d2, a)}, Apart, Device)}

OneCompactor == {Calm(Both, Apart, {d1})}
OneMessage == {Calm(Mixed, Together, {d1})}
=============================================================================
