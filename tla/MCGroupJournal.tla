--------------------------- MODULE MCGroupJournal ---------------------------
(* Instances of GroupJournal for TLC: what users sign and send.            *)
EXTENDS GroupJournal, TLC

CONSTANTS owner, friend, guest, link1

Change(k, u, x) == [kind |-> k, by |-> u, on |-> x]

FirstEpoch == {[nonce |-> 1, epoch |-> 1]}

\* Members come and go and epochs begin.
MemberChanges == {Change("add", owner, guest), Change("ban", owner, friend),
                  Change("epoch", owner, owner)}

\* Links are announced, revoked and announced again.
LinkChanges == {Change(k, owner, l) : k \in {"invite", "revoke"}, l \in Links}

\* A member changes his address, and says so in the journal; the group is
\* deleted.
NewAddress == {Change("rename", guest, friend), Change("epoch", owner, owner),
               Change("delete", owner, owner)}

\* A message is handed in twice, or once while more entries are written.
Deliveries(versions, deliveries) ==
  [changes |-> MemberChanges, messages |-> Messages, forgets |-> {}, renames |-> {},
   entries |-> versions, requests |-> deliveries, crashes |-> 1]

\* Messages race with changes of the members; links come and go; an address
\* changes.
RacesAndLinks == {Deliveries(3, 2), Deliveries(4, 1),
                  [changes |-> LinkChanges, messages |-> {},
                   forgets |-> {[by |-> owner, link |-> link1]}, renames |-> {},
                   entries |-> 5, requests |-> 1, crashes |-> 0],
                  [changes |-> NewAddress, messages |-> {}, forgets |-> {},
                   renames |-> {[old |-> friend, new |-> guest]},
                   entries |-> 4, requests |-> 0, crashes |-> 1]}

\* Two changes race.
RacesOnly == {[changes |-> MemberChanges, messages |-> {}, forgets |-> {}, renames |-> {},
               entries |-> 3, requests |-> 0, crashes |-> 0]}

TaskSymmetry == Permutations(Handlers)
=============================================================================
