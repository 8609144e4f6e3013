------------------------- MODULE GroupJournalProofs -------------------------
(***************************************************************************)
(* The journal of a group under concurrent requests (GroupJournal), for    *)
(* any number of tasks, users, links, messages, entries and restarts.      *)
(*                                                                         *)
(* The primary key of the journal is the only thing that orders the tasks: *)
(* a task inserts an entry it has checked against a state it loaded before *)
(* it last waited.  The argument is that what a task holds is a state the  *)
(* journal had (TaskOK), so that an insertion that finds its version free  *)
(* was checked against the last of them.  A message is counted: copies     *)
(* given and owed never exceed the times its nonce was spent (Spending).   *)
(***************************************************************************)
EXTENDS GroupJournal, GroupRulesProofs, SequenceTheorems, FiniteSetTheorems

\* The changes users sign.
Changes == UNION {b.changes : b \in Scenes}

\* Versions of the group's state, rows of the journal and requests.
Versioned == [version : Nat, id : Nat, group : GroupStates]
Row == [ver : Nat, prev : Nat, id : Nat]
         \cup [ver : Nat, prev : Nat, id : Nat, change : Changes]
EntryRequest == [kind : {"entry"}, change : Changes, ver : Nat, prev : Nat, id : Nat]
MessageRequest == [kind : {"message"}, message : Messages]
ForgetRequest == [kind : {"forget"}, by : Users, link : Links]
Request == {NoRequest} \cup EntryRequest \cup MessageRequest \cup ForgetRequest

Places == {"idle", "load", "fill", "check", "insert", "put", "nonce", "fan"}

\* The states the journal had.
Committed == {states[v] : v \in 1..Len(states)}

JournalTyped == /\ states \in Seq(Versioned) /\ log \in Seq(Row)
                /\ Len(states) = Len(log) /\ Len(log) >= 1
                /\ linkRows \subseteq Links
                /\ rowOf \in [Users -> Users]
                /\ scene \in Scenes
                /\ signed \in Nat

TasksTyped == /\ pc \in [Handlers -> Places]
              /\ req \in [Handlers -> Request]
              /\ st \in [Handlers -> Versioned \cup {NoState}]
              /\ todo \in [Handlers -> SUBSET Users]
              /\ nonces \subseteq Messages
              /\ forgotten \in [Messages -> Nat]
              /\ copies \in [Messages -> [Users -> Nat]]

\* What a task that waits in place p with request r, state x and members t
\* still to be served knows, when C are the states the journal had.
TaskOK(C, p, r, x, t) ==
  /\ p \notin {"idle", "load"} => x \in C
  /\ p = "insert" => r \in EntryRequest /\ Accepts(x, r)
  /\ p = "put" => r \in EntryRequest /\ After(x, r) \in C
  /\ p \in {"nonce", "fan"} => r \in MessageRequest /\ Takes(x, r.message.epoch)
  /\ p = "fan" => t \subseteq Members(x.group)

Tasks == \A h \in Handlers : TaskOK(Committed, pc[h], req[h], st[h], todo[h])

\* The tasks that still owe user u a copy of message m.
Owed(m, u) == {h \in Handlers : pc[h] = "fan" /\ req[h].message = m /\ u \in todo[h]}

\* How often the nonce of a message was spent.
Spent(m) == forgotten[m] + (IF m \in nonces THEN 1 ELSE 0)

\* Copies given and owed are covered by the times the nonce was spent.
Spending == \A m \in Messages, u \in Users :
              copies[m][u] + Cardinality(Owed(m, u)) <= Spent(m)

CacheOK == cache = NoState \/ cache \in Committed

JournalInv == /\ JournalTyped /\ TasksTyped
              /\ ChainUnbroken /\ TablesMatchJournal
              /\ CacheOK /\ Tasks
              /\ Spending /\ OnlyMembersGet

-----------------------------------------------------------------------------
(* Entries                                                                 *)

\* What the assumption on the scenes says of a change.
LEMMA ChangeKinds ==
  ASSUME NEW c \in Changes
  PROVE  /\ c.by \in Users
         /\ \/ c.kind \in {"add", "ban", "rename"} /\ c.on \in Users
            \/ c.kind \in {"invite", "revoke"} /\ c.on \in Links
            \/ c.kind \in {"epoch", "delete"}
  BY JournalAssumption DEF Changes

\* An accepted change leads to a state of a group, and no revoked link is
\* forgotten by it.
LEMMA AppliedShape ==
  ASSUME NEW g \in GroupStates, NEW c \in Changes, MayApply(g, c)
  PROVE  Applied(g, c) \in GroupStates /\ Revoked(g) \subseteq Revoked(Applied(g, c))
  <1>0. c.by \in Users
    BY ChangeKinds
  <1>1. CASE c.kind = "add" /\ c.on \in Users
    <2>1. Applied(g, c) = AddMember(g, c.by, c.on, {})
      BY <1>1 DEF Applied
    <2>2. AddMember(g, c.by, c.on, {}) \in GroupStates
      BY <1>0, <1>1, JoinType
    <2>3. SameLinks(g, AddMember(g, c.by, c.on, {}))
      BY <1>0, <1>1, OneComes
    <2> QED
      BY <2>1, <2>2, <2>3 DEF SameLinks
  <1>2. CASE c.kind = "ban" /\ c.on \in Users
    <2>1. Applied(g, c) = Ban(g, c.on)
      BY <1>2 DEF Applied
    <2>2. Ban(g, c.on) \in GroupStates
      BY <1>2, MemberChangesType
    <2>3. SameLinks(g, Ban(g, c.on))
      BY <1>2, NobodyComes
    <2> QED
      BY <2>1, <2>2, <2>3 DEF SameLinks
  <1>7. CASE c.kind = "rename" /\ c.on \in Users
    <2>1. Applied(g, c) = RenameMember(g, c.by, c.on) /\ MayRenameMember(g, c.by, c.on)
      BY <1>7 DEF Applied, MayApply
    <2>2. RenameMember(g, c.by, c.on) \in GroupStates
      BY <1>0, <1>7, RenameType
    <2>3. SameLinks(g, RenameMember(g, c.by, c.on))
      BY <1>0, <1>7, <2>1, OneReplaced
    <2> QED
      BY <2>1, <2>2, <2>3 DEF SameLinks
  <1>3. CASE c.kind = "invite" /\ c.on \in Links
    <2>0. 0 \in 0..MaxLimit /\ FALSE \in BOOLEAN
      BY RulesAssumption
    <2>1. Applied(g, c) = InviteKey(g, c.by, c.on, FALSE, 0)
      BY <1>3 DEF Applied
    <2>2. InviteKey(g, c.by, c.on, FALSE, 0) \in GroupStates
      BY <1>0, <1>3, <2>0, LinkChangesType
    <2>3. Revoked(InviteKey(g, c.by, c.on, FALSE, 0)) = Revoked(g) \ {c.on}
      <3>1. \A a \in Users, l \in Links, b \in BOOLEAN, n \in 0..MaxLimit :
              Revoked(InviteKey(g, a, l, b, n)) = Revoked(g) \ {l}
        BY InviteShape
      <3> QED
        BY <1>0, <1>3, <2>0, <3>1
    <2>4. c.on \notin Revoked(g)
      BY <1>3 DEF MayApply, MayInviteKey
    <2> QED
      BY <2>1, <2>2, <2>3, <2>4
  <1>4. CASE c.kind = "revoke" /\ c.on \in Links
    <2>1. Applied(g, c) = RevokeLink(g, c.on) /\ c.on \in Active(g)
      BY <1>4 DEF Applied, MayApply, MayEditLink
    <2>0. 0 \in 0..MaxLimit /\ FALSE \in BOOLEAN
      BY RulesAssumption
    <2>2. RevokeLink(g, c.on) \in GroupStates
      BY <1>0, <1>4, <2>0, <2>1, LinkChangesType
    <2>3. Revoked(g) \subseteq Revoked(RevokeLink(g, c.on))
      BY <1>4, <2>1, RevokeShape
    <2> QED
      BY <2>1, <2>2, <2>3
  <1>5. CASE c.kind = "epoch"
    BY <1>0, <1>5, GroupChangesType, MembersStay DEF Applied, SameLinks
  <1>6. CASE c.kind = "delete"
    BY <1>0, <1>6, GroupChangesType, MembersStay DEF Applied, SameLinks
  <1> QED
    BY <1>1, <1>2, <1>3, <1>4, <1>5, <1>6, <1>7, ChangeKinds

\* The state after an accepted entry is one of the journal's.
LEMMA AfterType ==
  ASSUME NEW x \in Versioned, NEW r \in EntryRequest, Accepts(x, r)
  PROVE  /\ After(x, r) \in Versioned
         /\ Revoked(x.group) \subseteq Revoked(After(x, r).group)
         /\ After(x, r).version = r.ver /\ After(x, r).id = r.id
  <1>1. x.group \in GroupStates /\ r.change \in Changes /\ MayApply(x.group, r.change)
    BY DEF Versioned, EntryRequest, Accepts
  <1>2. /\ Applied(x.group, r.change) \in GroupStates
        /\ Revoked(x.group) \subseteq Revoked(Applied(x.group, r.change))
    BY <1>1, AppliedShape
  <1> QED
    BY <1>2 DEF After, Versioned, EntryRequest

\* What a task knows stays true while the journal grows.
LEMMA TaskKept ==
  ASSUME NEW C, NEW D, C \subseteq D,
         NEW p, NEW r, NEW x, NEW t, TaskOK(C, p, r, x, t)
  PROVE  TaskOK(D, p, r, x, t)
  BY DEF TaskOK

\* Finitely many tasks owe a copy.
LEMMA OwedFinite ==
  ASSUME NEW m, NEW u
  PROVE  IsFiniteSet(Owed(m, u)) /\ Cardinality(Owed(m, u)) \in Nat
  <1>1. Owed(m, u) \subseteq Handlers /\ IsFiniteSet(Handlers)
    BY JournalAssumption DEF Owed
  <1> QED
    BY <1>1, FS_Subset, FS_CardinalityType

\* Where no more is given or owed than before, Spending stays.
LEMMA SpendingKept ==
  ASSUME JournalInv, UNCHANGED <<spent, copies>>,
         \A m \in Messages, u \in Users : Owed(m, u)' \subseteq Owed(m, u)
  PROVE  Spending'
  <1> SUFFICES ASSUME NEW m \in Messages, NEW u \in Users
               PROVE  copies'[m][u] + Cardinality(Owed(m, u)') <= Spent(m)'
    BY DEF Spending
  <1>1. copies' = copies /\ Spent(m)' = Spent(m) /\ Spent(m) \in Nat /\ copies[m][u] \in Nat
    BY DEF spent, Spent, JournalInv, TasksTyped
  <1>2. /\ Cardinality(Owed(m, u)') <= Cardinality(Owed(m, u))
        /\ Cardinality(Owed(m, u)) \in Nat /\ Cardinality(Owed(m, u)') \in Nat
    <2>1. IsFiniteSet(Owed(m, u)) /\ Owed(m, u)' \subseteq Owed(m, u)
      BY OwedFinite
    <2> QED
      BY <2>1, FS_Subset, FS_CardinalityType
  <1>3. copies[m][u] + Cardinality(Owed(m, u)) <= Spent(m)
    BY DEF JournalInv, Spending
  <1> QED
    BY <1>1, <1>2, <1>3

\* The last state is one the journal had, and so is the one that is read.
LEMMA LastCommitted ==
  ASSUME JournalInv
  PROVE  /\ Last \in Committed /\ Last \in Versioned /\ Last = states[Len(log)]
         /\ Len(log) \in Nat /\ Committed \subseteq Versioned
         /\ \A x \in Committed : \E v \in 1..Len(log) : x = states[v]
         /\ Last.version = Len(log) /\ Last.id = log[Len(log)].id
  BY DEF JournalInv, JournalTyped, ChainUnbroken, Last, Committed

-----------------------------------------------------------------------------
(* Steps of a task                                                         *)

\* A step of one task that writes no table, spends no nonce and hands out no
\* copy: what has to be shown is what that task knows after it, and that what
\* it put into the cache is a state the journal had.
LEMMA QuietStep ==
  ASSUME JournalInv, NEW h \in Handlers,
         UNCHANGED <<tables, spent, copies, scene>>, signed' \in Nat,
         cache' = NoState \/ cache' \in Committed,
         TasksTyped',
         \A k \in Handlers \ {h} : /\ pc'[k] = pc[k] /\ req'[k] = req[k]
                                   /\ st'[k] = st[k] /\ todo'[k] = todo[k],
         pc'[h] # "fan",
         TaskOK(Committed, pc'[h], req'[h], st'[h], todo'[h])
  PROVE  JournalInv'
  <1>1. /\ log' = log /\ states' = states /\ memberRows' = memberRows
        /\ linkRows' = linkRows /\ rowOf' = rowOf /\ dropped' = dropped /\ scene' = scene
        /\ nonces' = nonces /\ forgotten' = forgotten /\ copies' = copies
    BY DEF tables, spent
  <1>2. Committed' = Committed /\ Last' = Last
    BY <1>1 DEF Committed, Last
  <1>3. JournalTyped'
    BY <1>1 DEF JournalInv, JournalTyped
  <1>4. ChainUnbroken' /\ TablesMatchJournal'
    <2>1. ChainUnbroken'
      BY <1>1 DEF JournalInv, ChainUnbroken
    <2>2. TablesMatchJournal'
      BY <1>1, <1>2 DEF JournalInv, TablesMatchJournal
    <2> QED
      BY <2>1, <2>2
  <1>5. CacheOK'
    BY <1>2 DEF CacheOK
  <1>6. Tasks'
    BY <1>2 DEF JournalInv, Tasks
  <1>7. Spending'
    <2>1. \A m \in Messages, u \in Users : Owed(m, u)' \subseteq Owed(m, u)
      BY DEF Owed
    <2> QED
      BY <2>1, SpendingKept
  <1>8. OnlyMembersGet'
    BY <1>1 DEF JournalInv, OnlyMembersGet
  <1> QED
    BY <1>3, <1>4, <1>5, <1>6, <1>7, <1>8 DEF JournalInv

\* A task that ends knows nothing.
LEMMA EndsStep ==
  ASSUME JournalInv, NEW h \in Handlers, Ends(h),
         UNCHANGED <<tables, spent, copies, scene>>, signed' \in Nat,
         cache' = NoState \/ cache' \in Committed
  PROVE  JournalInv'
  <1>1. TasksTyped'
    BY DEF Ends, JournalInv, TasksTyped, Places, Request, spent
  <1>2. \A k \in Handlers \ {h} : /\ pc'[k] = pc[k] /\ req'[k] = req[k]
                                  /\ st'[k] = st[k] /\ todo'[k] = todo[k]
    BY DEF Ends, JournalInv, TasksTyped
  <1>3. pc'[h] = "idle" /\ req'[h] = NoRequest
    BY DEF Ends, JournalInv, TasksTyped
  <1>4. TaskOK(Committed, pc'[h], req'[h], st'[h], todo'[h])
    BY <1>3 DEF TaskOK, NoRequest
  <1> QED
    BY <1>1, <1>2, <1>3, <1>4, QuietStep

\* A task goes to a place with a request and a state.
LEMMA MoveStep ==
  ASSUME JournalInv, NEW h \in Handlers,
         NEW p \in Places \ {"fan"}, NEW r \in Request, NEW x \in Versioned \cup {NoState},
         pc' = [pc EXCEPT ![h] = p], req' = [req EXCEPT ![h] = r],
         st' = [st EXCEPT ![h] = x], todo' = todo,
         UNCHANGED <<tables, spent, copies, scene>>, signed' \in Nat,
         cache' = NoState \/ cache' \in Committed,
         TaskOK(Committed, p, r, x, todo[h])
  PROVE  JournalInv'
  <1>1. TasksTyped'
    BY DEF JournalInv, TasksTyped, spent
  <1>2. \A k \in Handlers \ {h} : /\ pc'[k] = pc[k] /\ req'[k] = req[k]
                                  /\ st'[k] = st[k] /\ todo'[k] = todo[k]
    BY DEF JournalInv, TasksTyped
  <1>3. pc'[h] = p /\ req'[h] = r /\ st'[h] = x /\ todo'[h] = todo[h]
    BY DEF JournalInv, TasksTyped
  <1>4. TaskOK(Committed, pc'[h], req'[h], st'[h], todo'[h])
    BY <1>3
  <1> QED
    BY <1>1, <1>2, <1>3, <1>4, QuietStep

\* What is known of a task before its step.
LEMMA TaskFacts ==
  ASSUME JournalInv, NEW h \in Handlers
  PROVE  /\ TaskOK(Committed, pc[h], req[h], st[h], todo[h])
         /\ pc[h] \in Places /\ req[h] \in Request /\ st[h] \in Versioned \cup {NoState}
         /\ todo[h] \in SUBSET Users
         /\ pc = [pc EXCEPT ![h] = pc[h]] /\ req = [req EXCEPT ![h] = req[h]]
         /\ st = [st EXCEPT ![h] = st[h]]
         /\ cache = NoState \/ cache \in Committed
         /\ signed \in Nat
  BY DEF JournalInv, Tasks, TasksTyped, CacheOK, JournalTyped

\* A request comes in.
LEMMA SubmitSteps ==
  ASSUME JournalInv, NEW h \in Handlers, UNCHANGED scene,
         \/ \E c \in scene.changes, v \in 1..scene.entries : SubmitEntry(h, c, v)
         \/ \E m \in scene.messages : SubmitMessage(h, m)
         \/ \E f \in scene.forgets : SubmitForget(h, f.by, f.link)
  PROVE  JournalInv'
  <1>0. scene \in Scenes
    BY DEF JournalInv, JournalTyped
  <1>1. ASSUME NEW c \in scene.changes, NEW v \in 1..scene.entries, SubmitEntry(h, c, v)
        PROVE  JournalInv'
    <2> DEFINE r == [kind |-> "entry", change |-> c, ver |-> v + 1,
                     prev |-> log[v].id, id |-> signed + 1]
    <2>1. c \in Changes
      BY <1>0 DEF Changes
    <2>2. log[v].id \in Nat
      <3>1. v \in 1..Len(log) /\ log \in Seq(Row)
        BY <1>1 DEF SubmitEntry, JournalInv, JournalTyped
      <3>2. log[v] \in Row
        BY <3>1, ElementOfSeq
      <3> QED
        BY <3>2 DEF Row
    <2>3. v \in Nat /\ signed \in Nat /\ signed' \in Nat
      BY <1>1 DEF SubmitEntry, JournalInv, JournalTyped
    <2>4. r \in EntryRequest /\ r.kind = "entry"
      BY <2>1, <2>2, <2>3 DEF EntryRequest
    <2>5. req' = [req EXCEPT ![h] = r] /\ pc' = [pc EXCEPT ![h] = "load"]
      BY <1>1 DEF SubmitEntry, GoesTo
    <2> HIDE DEF r
    <2>6. TaskOK(Committed, "load", r, st[h], todo[h])
      BY <2>4 DEF TaskOK
    <2>7. r \in Request /\ "load" \in Places \ {"fan"}
      BY <2>4 DEF Request, Places
    <2>8. UNCHANGED <<tables, spent, cache, st, todo, copies>>
      BY <1>1 DEF SubmitEntry
    <2> QED
      BY <2>3, <2>5, <2>6, <2>7, <2>8, TaskFacts, MoveStep
  <1>2. ASSUME NEW m \in scene.messages, SubmitMessage(h, m)
        PROVE  JournalInv'
    <2> DEFINE r == [kind |-> "message", message |-> m]
    <2>1. m \in Messages
      BY <1>0, JournalAssumption
    <2>4. r \in MessageRequest /\ r.kind = "message"
      BY <2>1 DEF MessageRequest
    <2>5. /\ req' = [req EXCEPT ![h] = r] /\ pc' = [pc EXCEPT ![h] = "load"]
          /\ signed' = signed
      BY <1>2 DEF SubmitMessage, GoesTo
    <2> HIDE DEF r
    <2>6. TaskOK(Committed, "load", r, st[h], todo[h])
      BY <2>4 DEF TaskOK
    <2>7. r \in Request /\ "load" \in Places \ {"fan"}
      BY <2>4 DEF Request, Places
    <2>8. UNCHANGED <<tables, spent, cache, st, todo, copies>>
      BY <1>2 DEF SubmitMessage
    <2> QED
      BY <2>5, <2>6, <2>7, <2>8, TaskFacts, MoveStep
  <1>3. ASSUME NEW f \in scene.forgets, SubmitForget(h, f.by, f.link)
        PROVE  JournalInv'
    <2> DEFINE r == [kind |-> "forget", by |-> f.by, link |-> f.link]
    <2>1. f.by \in Users /\ f.link \in Links
      BY <1>0, JournalAssumption
    <2>4. r \in ForgetRequest
      BY <2>1 DEF ForgetRequest
    <2>5. /\ req' = [req EXCEPT ![h] = r] /\ pc' = [pc EXCEPT ![h] = "load"]
          /\ signed' = signed
      BY <1>3 DEF SubmitForget, GoesTo
    <2> HIDE DEF r
    <2>6. TaskOK(Committed, "load", r, st[h], todo[h])
      BY DEF TaskOK
    <2>7. r \in Request /\ "load" \in Places \ {"fan"}
      BY <2>4 DEF Request, Places
    <2>8. UNCHANGED <<tables, spent, cache, st, todo, copies>>
      BY <1>3 DEF SubmitForget
    <2> QED
      BY <2>5, <2>6, <2>7, <2>8, TaskFacts, MoveStep
  <1> QED
    BY <1>1, <1>2, <1>3

\* The state is read from the cache or from the rows, and cached.
LEMMA LoadSteps ==
  ASSUME JournalInv, NEW h \in Handlers, UNCHANGED scene,
         LoadCached(h) \/ LoadRows(h) \/ FillCache(h)
  PROVE  JournalInv'
  <1>0. /\ TaskOK(Committed, pc[h], req[h], st[h], todo[h])
        /\ req[h] \in Request /\ req = [req EXCEPT ![h] = req[h]]
        /\ st = [st EXCEPT ![h] = st[h]] /\ st[h] \in Versioned \cup {NoState}
        /\ signed \in Nat /\ (cache = NoState \/ cache \in Committed)
        /\ Committed \subseteq Versioned /\ Last \in Committed /\ Last = states[Len(log)]
    BY TaskFacts, LastCommitted
  <1>1. {"fill", "check"} \subseteq Places \ {"fan"}
    BY DEF Places
  <1>2. CASE LoadCached(h)
    <2>1. /\ pc[h] = "load" /\ cache \in Committed
          /\ st' = [st EXCEPT ![h] = cache] /\ pc' = [pc EXCEPT ![h] = "check"]
          /\ UNCHANGED <<tables, spent, cache, req, todo, copies, bounds>>
      BY <1>0, <1>2 DEF LoadCached, GoesTo
    <2>2. TaskOK(Committed, "check", req[h], cache, todo[h])
      BY <1>0, <2>1 DEF TaskOK
    <2> QED
      BY <1>0, <1>1, <2>1, <2>2, MoveStep DEF bounds
  <1>3. CASE LoadRows(h)
    <2>1. /\ pc[h] = "load"
          /\ st' = [st EXCEPT ![h] = Last] /\ pc' = [pc EXCEPT ![h] = "fill"]
          /\ UNCHANGED <<tables, spent, cache, req, todo, copies, bounds>>
      BY <1>0, <1>3 DEF LoadRows, GoesTo
    <2>2. TaskOK(Committed, "fill", req[h], Last, todo[h])
      BY <1>0, <2>1 DEF TaskOK
    <2> QED
      BY <1>0, <1>1, <2>1, <2>2, MoveStep DEF bounds
  <1>4. CASE FillCache(h)
    <2>1. /\ pc[h] = "fill" /\ cache' = st[h] /\ pc' = [pc EXCEPT ![h] = "check"]
          /\ UNCHANGED <<tables, spent, req, st, todo, copies, bounds>>
      BY <1>4 DEF FillCache, GoesTo
    <2>2. st[h] \in Committed
      BY <1>0, <2>1 DEF TaskOK
    <2>3. TaskOK(Committed, "check", req[h], st[h], todo[h])
      BY <1>0, <2>1, <2>2 DEF TaskOK
    <2> QED
      BY <1>0, <1>1, <2>1, <2>2, <2>3, MoveStep DEF bounds
  <1> QED
    BY <1>2, <1>3, <1>4

\* A request is checked against the loaded state.
LEMMA CheckSteps ==
  ASSUME JournalInv, NEW h \in Handlers, UNCHANGED scene,
         CheckEntry(h) \/ CheckMessage(h)
  PROVE  JournalInv'
  <1>0. /\ TaskOK(Committed, pc[h], req[h], st[h], todo[h])
        /\ req[h] \in Request /\ req = [req EXCEPT ![h] = req[h]]
        /\ st = [st EXCEPT ![h] = st[h]] /\ st[h] \in Versioned \cup {NoState}
        /\ signed \in Nat /\ (cache = NoState \/ cache \in Committed)
    BY TaskFacts
  <1>1. {"insert", "nonce"} \subseteq Places \ {"fan"}
    BY DEF Places
  <1>2. CASE CheckEntry(h)
    <2>1. /\ pc[h] = "check" /\ req[h].kind = "entry" /\ Accepts(st[h], req[h])
          /\ pc' = [pc EXCEPT ![h] = "insert"]
          /\ UNCHANGED <<tables, spent, cache, req, st, todo, copies, bounds>>
      BY <1>2 DEF CheckEntry, GoesTo
    <2>2. req[h] \in EntryRequest
      BY <1>0, <2>1 DEF Request, NoRequest, MessageRequest, ForgetRequest
    <2>3. TaskOK(Committed, "insert", req[h], st[h], todo[h])
      BY <1>0, <2>1, <2>2 DEF TaskOK
    <2> QED
      BY <1>0, <1>1, <2>1, <2>3, MoveStep DEF bounds
  <1>3. CASE CheckMessage(h) /\ Takes(st[h], req[h].message.epoch)
    <2>1. /\ pc[h] = "check" /\ req[h].kind = "message"
          /\ pc' = [pc EXCEPT ![h] = "nonce"]
          /\ UNCHANGED <<tables, spent, cache, req, st, todo, copies, bounds>>
      BY <1>3 DEF CheckMessage, GoesTo
    <2>2. req[h] \in MessageRequest
      BY <1>0, <2>1 DEF Request, NoRequest, EntryRequest, ForgetRequest
    <2>3. TaskOK(Committed, "nonce", req[h], st[h], todo[h])
      BY <1>0, <1>3, <2>1, <2>2 DEF TaskOK
    <2> QED
      BY <1>0, <1>1, <2>1, <2>3, MoveStep DEF bounds
  <1>4. CASE CheckMessage(h) /\ ~Takes(st[h], req[h].message.epoch)
    <2>1. Ends(h) /\ UNCHANGED <<tables, spent, cache, copies, bounds>>
      BY <1>4 DEF CheckMessage
    <2> QED
      BY <1>0, <2>1, EndsStep DEF bounds
  <1> QED
    BY <1>2, <1>3, <1>4

\* A request ends without an entry or a copy written by this step.
LEMMA EndSteps ==
  ASSUME JournalInv, NEW h \in Handlers, UNCHANGED scene,
         \/ RefuseEntry(h) \/ InsertDuplicate(h) \/ PutCache(h)
         \/ NonceDuplicate(h) \/ MessageDone(h)
  PROVE  JournalInv'
  <1>0. /\ TaskOK(Committed, pc[h], req[h], st[h], todo[h])
        /\ signed \in Nat /\ (cache = NoState \/ cache \in Committed)
    BY TaskFacts
  <1>1. CASE PutCache(h)
    <2>1. /\ pc[h] = "put" /\ cache' = After(st[h], req[h]) /\ Ends(h)
          /\ UNCHANGED <<tables, spent, copies, bounds>>
      BY <1>1 DEF PutCache
    <2>2. After(st[h], req[h]) \in Committed
      BY <1>0, <2>1 DEF TaskOK
    <2> QED
      BY <1>0, <2>1, <2>2, EndsStep DEF bounds
  <1>2. CASE RefuseEntry(h) \/ InsertDuplicate(h) \/ NonceDuplicate(h) \/ MessageDone(h)
    <2>1. Ends(h) /\ UNCHANGED <<tables, spent, cache, copies, bounds>>
      BY <1>2 DEF RefuseEntry, InsertDuplicate, NonceDuplicate, MessageDone
    <2> QED
      BY <1>0, <2>1, EndsStep DEF bounds
  <1> QED
    BY <1>1, <1>2

-----------------------------------------------------------------------------
(* Steps that write                                                        *)

\* The version is free: the state the entry was checked against is the last.
LEMMA FreeVersion ==
  ASSUME JournalInv, NEW h \in Handlers, pc[h] = "insert", req[h].ver > Len(log)
  PROVE  /\ st[h] = Last /\ req[h] \in EntryRequest /\ Accepts(Last, req[h])
         /\ req[h].ver = Len(log) + 1
  <1>1. /\ st[h] \in Committed /\ req[h] \in EntryRequest /\ Accepts(st[h], req[h])
    BY TaskFacts DEF TaskOK
  <1>2. PICK v \in 1..Len(log) : st[h] = states[v]
    BY <1>1, LastCommitted
  <1>3. st[h].version = v
    BY <1>2 DEF JournalInv, ChainUnbroken
  <1>4. Len(log) \in Nat /\ Last = states[Len(log)]
    BY LastCommitted
  <1>5. v = Len(log)
    BY <1>1, <1>3, <1>4 DEF Accepts
  <1> QED
    BY <1>1, <1>2, <1>3, <1>4, <1>5 DEF Accepts

\* The row, the state it leads to and the tables derived from it.
LEMMA InsertStep ==
  ASSUME JournalInv, NEW h \in Handlers, UNCHANGED scene, InsertEntry(h)
  PROVE  JournalInv'
  <1> DEFINE r == req[h]
             next == After(Last, r)
             row == [ver |-> r.ver, prev |-> r.prev, id |-> r.id, change |-> r.change]
             n == Len(log)
  <1>0. /\ pc[h] = "insert" /\ WriteEntry(h) /\ pc' = [pc EXCEPT ![h] = "put"]
        /\ UNCHANGED <<spent, cache, recent, req, st, todo, copies, bounds>>
    BY DEF InsertEntry, GoesTo
  <1>1. st[h] = Last /\ r \in EntryRequest /\ Accepts(Last, r) /\ r.ver = n + 1
    BY FreeVersion DEF InsertEntry
  <1>2. /\ n \in Nat /\ n >= 1 /\ Len(states) = n /\ states \in Seq(Versioned)
        /\ log \in Seq(Row) /\ Last \in Versioned /\ Last = states[n]
        /\ Last.version = n /\ Last.id = log[n].id
    BY LastCommitted DEF JournalInv, JournalTyped
  <1>3. /\ next \in Versioned /\ Revoked(Last.group) \subseteq Revoked(next.group)
        /\ next.version = n + 1 /\ next.id = r.id
    BY <1>1, <1>2, AfterType
  <1>4. row \in Row /\ row.ver = n + 1 /\ row.id = r.id
    BY <1>1 DEF Row, EntryRequest
  <1>5. Accepts(Last, row) /\ After(Last, row) = next
    BY <1>1 DEF Accepts, After, EntryRequest
  <1>6. /\ log' = Append(log, row) /\ states' = Append(states, next)
        /\ memberRows' = Members(next.group) /\ rowOf' = SameRow
        /\ dropped' = dropped \ (Active(next.group) \ Active(Last.group))
        /\ linkRows' = (linkRows \cup (Active(next.group) \ Active(Last.group)))
                         \ ((Active(Last.group) \ Active(next.group)) \ Revoked(next.group))
    BY <1>0, <1>1 DEF WriteEntry
  <1> HIDE DEF next, row, n
  <1>7. /\ Len(log') = n + 1 /\ Len(states') = n + 1
        /\ log' \in Seq(Row) /\ states' \in Seq(Versioned)
        /\ \A v \in 1..n : log'[v] = log[v] /\ states'[v] = states[v]
        /\ log'[n + 1] = row /\ states'[n + 1] = next
    <2>1. /\ Len(log') = n + 1 /\ log' \in Seq(Row)
          /\ \A v \in 1..n : log'[v] = log[v]
          /\ log'[n + 1] = row
      BY <1>2, <1>4, <1>6, AppendProperties DEF n
    <2>2. /\ Len(states') = n + 1 /\ states' \in Seq(Versioned)
          /\ \A v \in 1..n : states'[v] = states[v]
          /\ states'[n + 1] = next
      BY <1>2, <1>3, <1>6, AppendProperties
    <2> QED
      BY <2>1, <2>2
  <1>8. Last' = next
    BY <1>7 DEF Last
  <1>9. Committed \subseteq Committed' /\ next \in Committed'
    <2>1. ASSUME NEW v \in 1..n
          PROVE  states[v] \in Committed'
      BY <1>2, <1>7 DEF Committed
    <2>2. n + 1 \in 1..Len(states')
      BY <1>2, <1>7
    <2>3. next \in Committed'
      BY <1>7, <2>2 DEF Committed
    <2> QED
      BY <1>2, <2>1, <2>3 DEF Committed
  <1>10. JournalTyped'
    <2>1. linkRows' \subseteq Links
      BY <1>6 DEF JournalInv, JournalTyped, Active
    <2> QED
      BY <1>0, <1>2, <1>6, <1>7, <2>1 DEF JournalInv, JournalTyped, bounds, SameRow
  <1>11. TasksTyped'
    BY <1>0 DEF JournalInv, TasksTyped, Places, spent
  <1>12. ChainUnbroken'
    <2>1. /\ \A v \in 1..n : /\ log[v].ver = v /\ states[v].version = v
                             /\ states[v].id = log[v].id
          /\ \A v \in 2..n : /\ Accepts(states[v - 1], log[v])
                             /\ states[v] = After(states[v - 1], log[v])
      BY DEF JournalInv, ChainUnbroken, n
    <2>2. ASSUME NEW v \in 1..(n + 1)
          PROVE  /\ log'[v].ver = v /\ states'[v].version = v
                 /\ states'[v].id = log'[v].id
      <3>1. v \in 1..n \/ v = n + 1
        BY <1>2
      <3> QED
        BY <1>3, <1>4, <1>7, <2>1, <3>1
    <2>3. ASSUME NEW v \in 2..(n + 1)
          PROVE  /\ Accepts(states'[v - 1], log'[v])
                 /\ states'[v] = After(states'[v - 1], log'[v])
      <3>1. CASE v \in 2..n
        <4>1. v \in 1..n /\ v - 1 \in 1..n
          BY <1>2, <3>1
        <4> QED
          BY <1>7, <2>1, <3>1, <4>1
      <3>2. CASE v = n + 1
        <4>1. v - 1 = n /\ n \in 1..n
          BY <1>2, <3>2
        <4> QED
          BY <1>2, <1>5, <1>7, <3>2, <4>1
      <3> QED
        BY <1>2, <3>1, <3>2
    <2> QED
      BY <1>7, <2>2, <2>3 DEF ChainUnbroken
  <1>13. TablesMatchJournal'
    <2>1. /\ Active(Last.group) \ linkRows \subseteq dropped
          /\ linkRows \subseteq Active(Last.group) \cup Revoked(Last.group)
      BY DEF JournalInv, TablesMatchJournal
    <2> DEFINE A == Active(Last.group)
               B == Active(next.group)
               Q == Revoked(Last.group)
               S == Revoked(next.group)
    <2>2. /\ A \ linkRows \subseteq dropped /\ linkRows \subseteq A \cup Q /\ Q \subseteq S
          /\ linkRows' = (linkRows \cup (B \ A)) \ ((A \ B) \ S)
          /\ dropped' = dropped \ (B \ A)
      BY <1>3, <1>6, <2>1
    <2> HIDE DEF A, B, Q, S
    <2>3. B \ linkRows' \subseteq dropped' /\ linkRows' \subseteq B \cup S
      BY <2>2
    <2>4. Members(next.group) = {SameRow[u] : u \in Members(next.group)}
      BY DEF SameRow, Members
    <2> QED
      BY <1>6, <1>8, <2>3, <2>4 DEF TablesMatchJournal, B, S
  <1>14. CacheOK'
    BY <1>0, <1>9 DEF JournalInv, CacheOK
  <1>15. Tasks'
    <2> SUFFICES ASSUME NEW k \in Handlers
                 PROVE  TaskOK(Committed', pc'[k], req'[k], st'[k], todo'[k])
      BY <1>8 DEF Tasks
    <2>1. CASE k = h
      <3>1. pc'[k] = "put" /\ req'[k] = r /\ st'[k] = Last
        BY <1>0, <1>1, <2>1 DEF JournalInv, TasksTyped
      <3>2. r.kind = "entry"
        BY <1>1 DEF EntryRequest
      <3>3. Last \in Committed'
        BY <1>9, LastCommitted
      <3> QED
        BY <1>1, <1>9, <3>1, <3>2, <3>3 DEF TaskOK, next
    <2>2. CASE k # h
      <3>1. pc'[k] = pc[k] /\ req'[k] = req[k] /\ st'[k] = st[k] /\ todo'[k] = todo[k]
        BY <1>0, <2>2 DEF JournalInv, TasksTyped
      <3>2. TaskOK(Committed, pc[k], req[k], st[k], todo[k])
        BY TaskFacts
      <3> QED
        BY <1>9, <3>1, <3>2, TaskKept
    <2> QED
      BY <2>1, <2>2
  <1>16. Spending'
    <2>1. \A m \in Messages, u \in Users : Owed(m, u)' \subseteq Owed(m, u)
      BY <1>0 DEF Owed, JournalInv, TasksTyped
    <2> QED
      BY <1>0, <2>1, SpendingKept
  <1>17. OnlyMembersGet'
    <2>2. ASSUME NEW m \in Messages, NEW u \in Users, copies'[m][u] > 0
          PROVE  \E v \in 1..Len(states') : /\ Takes(states'[v], m.epoch)
                                            /\ u \in Members(states'[v].group)
      <3>1. PICK v \in 1..n : Takes(states[v], m.epoch) /\ u \in Members(states[v].group)
        BY <1>0, <1>2, <2>2 DEF JournalInv, OnlyMembersGet
      <3>2. v \in 1..Len(states') /\ states'[v] = states[v]
        BY <1>2, <1>7
      <3> QED
        BY <3>1, <3>2
    <2> QED
      BY <2>2 DEF OnlyMembersGet
  <1> QED
    BY <1>10, <1>11, <1>12, <1>13, <1>14, <1>15, <1>16, <1>17 DEF JournalInv

\* Forgetting a link: by a task with the last state, it is not active; by one
\* with an older state, it counts as dropped.
LEMMA ForgetStep ==
  ASSUME JournalInv, NEW h \in Handlers, UNCHANGED scene, ForgetLink(h)
  PROVE  JournalInv'
  <1> DEFINE l == req[h].link
  <1>0. /\ pc[h] = "check" /\ req[h].kind = "forget" /\ Ends(h)
        /\ UNCHANGED <<log, states, memberRows, rowOf, spent, cache, copies, bounds>>
        /\ linkRows' \subseteq linkRows
    BY DEF ForgetLink
  <1>1. \/ linkRows' = linkRows /\ dropped' = dropped
        \/ linkRows' = linkRows \ {l} /\ dropped' = dropped /\ l \notin Active(Last.group)
        \/ linkRows' = linkRows \ {l} /\ dropped' = dropped \cup {l}
    BY DEF ForgetLink, MayForget, Last
  <1>3. Committed' = Committed /\ Last' = Last
    BY <1>0 DEF Committed, Last
  <1>4. JournalTyped'
    BY <1>0 DEF JournalInv, JournalTyped, bounds
  <1>5. TablesMatchJournal'
    BY <1>0, <1>1, <1>3 DEF JournalInv, TablesMatchJournal
  <1>6. ChainUnbroken' /\ CacheOK' /\ OnlyMembersGet'
    <2>1. ChainUnbroken'
      BY <1>0 DEF JournalInv, ChainUnbroken
    <2>2. CacheOK' /\ OnlyMembersGet'
      BY <1>0, <1>3 DEF JournalInv, CacheOK, OnlyMembersGet
    <2> QED
      BY <2>1, <2>2
  <1>7. TasksTyped'
    BY <1>0 DEF Ends, JournalInv, TasksTyped, Places, Request, spent
  <1>8. /\ pc'[h] = "idle" /\ req'[h] = NoRequest
        /\ \A k \in Handlers \ {h} : /\ pc'[k] = pc[k] /\ req'[k] = req[k]
                                     /\ st'[k] = st[k] /\ todo'[k] = todo[k]
    BY <1>0 DEF Ends, JournalInv, TasksTyped
  <1>9. Tasks'
    <2>1. TaskOK(Committed, pc'[h], req'[h], st'[h], todo'[h])
      BY <1>8 DEF TaskOK, NoRequest
    <2> QED
      BY <1>3, <1>8, <2>1 DEF JournalInv, Tasks
  <1>10. Spending'
    <2>1. \A m \in Messages, u \in Users : Owed(m, u)' \subseteq Owed(m, u)
      BY <1>8 DEF Owed
    <2> QED
      BY <1>0, <2>1, SpendingKept
  <1> QED
    BY <1>4, <1>5, <1>6, <1>7, <1>9, <1>10 DEF JournalInv

\* A step that leaves the journal, its tables and the cache alone.
LEMMA JournalKept ==
  ASSUME JournalInv, UNCHANGED <<tables, cache, bounds, scene>>
  PROVE  /\ Committed' = Committed /\ Last' = Last
         /\ JournalTyped' /\ ChainUnbroken' /\ TablesMatchJournal' /\ CacheOK'
  <1>1. /\ log' = log /\ states' = states /\ memberRows' = memberRows
        /\ linkRows' = linkRows /\ rowOf' = rowOf /\ dropped' = dropped
        /\ scene' = scene /\ signed' = signed /\ cache' = cache
    BY DEF tables, bounds
  <1>2. Committed' = Committed /\ Last' = Last
    BY <1>1 DEF Committed, Last
  <1>3. ChainUnbroken'
    BY <1>1 DEF JournalInv, ChainUnbroken
  <1> QED
    BY <1>1, <1>2, <1>3 DEF JournalInv, JournalTyped, TablesMatchJournal, CacheOK

\* One task spends a nonce, and from then on owes every member a copy.
LEMMA SpendStep ==
  ASSUME JournalInv, NEW h \in Handlers, UNCHANGED scene, SpendNonce(h)
  PROVE  JournalInv'
  <1> DEFINE m == req[h].message
  <1>0. /\ pc[h] = "nonce" /\ m \notin nonces /\ nonces' = nonces \cup {m}
        /\ todo' = [todo EXCEPT ![h] = Members(st[h].group)]
        /\ pc' = [pc EXCEPT ![h] = "fan"]
        /\ UNCHANGED <<tables, forgotten, cache, recent, req, st, copies, bounds>>
    BY DEF SpendNonce, GoesTo
  <1>1. /\ st[h] \in Committed /\ req[h] \in MessageRequest
        /\ Takes(st[h], req[h].message.epoch)
    BY <1>0, TaskFacts DEF TaskOK
  <1>2. m \in Messages
    BY <1>1 DEF MessageRequest
  <1>3. /\ Committed' = Committed /\ Last' = Last
        /\ JournalTyped' /\ ChainUnbroken' /\ TablesMatchJournal' /\ CacheOK'
    BY <1>0, JournalKept
  <1>4. TasksTyped'
    BY <1>0, <1>2 DEF JournalInv, TasksTyped, Places, Members
  <1>5. /\ pc'[h] = "fan" /\ todo'[h] = Members(st[h].group)
        /\ req' = req /\ st' = st /\ copies' = copies
        /\ \A k \in Handlers \ {h} : pc'[k] = pc[k] /\ todo'[k] = todo[k]
    BY <1>0 DEF JournalInv, TasksTyped
  <1>6. Tasks'
    <2>1. req[h].kind = "message"
      BY <1>1 DEF MessageRequest
    <2>2. TaskOK(Committed, pc'[h], req'[h], st'[h], todo'[h])
      BY <1>1, <1>5, <2>1 DEF TaskOK
    <2> QED
      BY <1>3, <1>5, <2>2 DEF JournalInv, Tasks
  <1>7. Spending'
    <2> SUFFICES ASSUME NEW k \in Messages, NEW u \in Users
                 PROVE  copies'[k][u] + Cardinality(Owed(k, u)') <= Spent(k)'
      BY DEF Spending
    <2>1. /\ copies[k][u] + Cardinality(Owed(k, u)) <= Spent(k) /\ copies' = copies
          /\ copies[k][u] \in Nat /\ forgotten[k] \in Nat /\ forgotten' = forgotten
      BY <1>0 DEF JournalInv, Spending, TasksTyped
    <2>2. IsFiniteSet(Owed(k, u)) /\ Cardinality(Owed(k, u)) \in Nat
      BY OwedFinite
    <2>5. h \notin Owed(k, u)
      BY <1>0 DEF Owed
    <2>3. CASE k = m
      <3>1. Spent(k) = forgotten[k] /\ Spent(k)' = forgotten[k] + 1
        BY <1>0, <2>1, <2>3 DEF Spent
      <3>2. Owed(k, u)' \subseteq Owed(k, u) \cup {h}
        BY <1>5 DEF Owed
      <3>3. /\ Cardinality(Owed(k, u) \cup {h}) = Cardinality(Owed(k, u)) + 1
            /\ IsFiniteSet(Owed(k, u) \cup {h})
        BY <2>2, <2>5, FS_AddElement
      <3>4. /\ Cardinality(Owed(k, u)') <= Cardinality(Owed(k, u)) + 1
            /\ Cardinality(Owed(k, u)') \in Nat
        BY <3>2, <3>3, FS_Subset, FS_CardinalityType
      <3> QED
        BY <2>1, <2>2, <3>1, <3>4
    <2>4. CASE k # m
      <3>1. Spent(k)' = Spent(k)
        BY <1>0, <2>4 DEF Spent
      <3>2. Owed(k, u)' = Owed(k, u)
        BY <1>0, <1>5, <2>4 DEF Owed
      <3> QED
        BY <2>1, <3>1, <3>2
    <2> QED
      BY <2>3, <2>4
  <1>8. OnlyMembersGet'
    BY <1>0, <1>5 DEF JournalInv, OnlyMembersGet, tables
  <1> QED
    BY <1>3, <1>4, <1>6, <1>7, <1>8 DEF JournalInv

\* A copy for one of the members who were still to get it.
LEMMA HandOutStep ==
  ASSUME JournalInv, NEW h \in Handlers, UNCHANGED scene,
         NEW u \in Users, NEW arrives \in BOOLEAN, HandOut(h, u, arrives)
  PROVE  JournalInv'
  <1> DEFINE m == req[h].message
  <1>0. /\ pc[h] = "fan" /\ u \in todo[h] /\ todo' = [todo EXCEPT ![h] = @ \ {u}]
        /\ copies' = copies \/ copies' = [copies EXCEPT ![m][u] = @ + 1]
        /\ UNCHANGED <<tables, spent, cache, recent, pc, req, st, bounds>>
    BY DEF HandOut
  <1>1. /\ st[h] \in Committed /\ req[h] \in MessageRequest /\ Takes(st[h], m.epoch)
        /\ todo[h] \subseteq Members(st[h].group)
    BY <1>0, TaskFacts DEF TaskOK
  <1>2. m \in Messages
    BY <1>1 DEF MessageRequest
  <1>3. /\ Committed' = Committed /\ Last' = Last
        /\ JournalTyped' /\ ChainUnbroken' /\ TablesMatchJournal' /\ CacheOK'
    BY <1>0, JournalKept
  <1>4. copies \in [Messages -> [Users -> Nat]]
    BY DEF JournalInv, TasksTyped
  <1>6. /\ copies' \in [Messages -> [Users -> Nat]]
        /\ \A k \in Messages, w \in Users :
             k # m \/ w # u => copies'[k][w] = copies[k][w]
        /\ copies'[m][u] \in {copies[m][u], copies[m][u] + 1}
    BY <1>0, <1>2, <1>4
  <1>7. /\ todo'[h] = todo[h] \ {u} /\ pc' = pc /\ req' = req /\ st' = st
        /\ nonces' = nonces /\ forgotten' = forgotten
        /\ \A k \in Handlers \ {h} : todo'[k] = todo[k]
    BY <1>0 DEF JournalInv, TasksTyped, spent
  <1>8. TasksTyped'
    BY <1>0, <1>6, <1>7 DEF JournalInv, TasksTyped
  <1>9. Tasks'
    <2>1. req[h].kind = "message"
      BY <1>1 DEF MessageRequest
    <2>2. TaskOK(Committed, pc'[h], req'[h], st'[h], todo'[h])
      BY <1>0, <1>1, <1>7, <2>1 DEF TaskOK
    <2> QED
      BY <1>3, <1>7, <2>2 DEF JournalInv, Tasks
  <1>10. Spending'
    <2> SUFFICES ASSUME NEW k \in Messages, NEW w \in Users
                 PROVE  copies'[k][w] + Cardinality(Owed(k, w)') <= Spent(k)'
      BY DEF Spending
    <2>1. /\ copies[k][w] + Cardinality(Owed(k, w)) <= Spent(k) /\ Spent(k)' = Spent(k)
          /\ copies[k][w] \in Nat /\ Spent(k) \in Nat
      BY <1>4, <1>7 DEF JournalInv, Spending, Spent, TasksTyped
    <2>2. IsFiniteSet(Owed(k, w)) /\ Cardinality(Owed(k, w)) \in Nat
      BY OwedFinite
    <2>3. CASE k = m /\ w = u
      <3>1. h \in Owed(k, w) /\ Owed(k, w)' = Owed(k, w) \ {h}
        BY <1>0, <1>7, <2>3 DEF Owed
      <3>2. Cardinality(Owed(k, w)') = Cardinality(Owed(k, w)) - 1
        BY <2>2, <3>1, FS_RemoveElement
      <3> QED
        BY <1>6, <2>1, <2>2, <2>3, <3>2
    <2>4. CASE ~(k = m /\ w = u)
      <3>1. Owed(k, w)' = Owed(k, w)
        BY <1>7, <2>4 DEF Owed
      <3> QED
        BY <1>6, <2>1, <2>4, <3>1
    <2> QED
      BY <2>3, <2>4
  <1>12. OnlyMembersGet'
    <2> SUFFICES ASSUME NEW k \in Messages, NEW w \in Users, copies'[k][w] > 0
                 PROVE  \E v \in 1..Len(states) : /\ Takes(states[v], k.epoch)
                                                  /\ w \in Members(states[v].group)
      BY <1>0 DEF OnlyMembersGet, tables
    <2>1. CASE k = m /\ w = u
      BY <1>0, <1>1, <2>1 DEF Committed
    <2>2. CASE ~(k = m /\ w = u)
      BY <1>6, <2>2 DEF JournalInv, OnlyMembersGet
    <2> QED
      BY <2>1, <2>2
  <1> QED
    BY <1>3, <1>8, <1>9, <1>10, <1>12 DEF JournalInv

-----------------------------------------------------------------------------
(* Around the tasks                                                        *)

\* The cache is dropped, an interval passes, or all tasks are lost.
LEMMA AroundSteps ==
  ASSUME JournalInv, UNCHANGED scene, CacheCleared \/ IntervalPasses \/ Crash
  PROVE  JournalInv'
  <1>1. /\ log' = log /\ states' = states /\ memberRows' = memberRows
        /\ linkRows' = linkRows /\ rowOf' = rowOf /\ dropped' = dropped /\ scene' = scene
        /\ nonces' = nonces /\ forgotten' = forgotten /\ copies' = copies
        /\ signed' = signed /\ (cache' = cache \/ cache' = NoState)
    BY DEF CacheCleared, IntervalPasses, Crash, tables, bounds, spent
  <1>2. Committed' = Committed /\ Last' = Last
    BY <1>1 DEF Committed, Last
  <1>3. JournalTyped' /\ TablesMatchJournal' /\ CacheOK'
    BY <1>1, <1>2 DEF JournalInv, JournalTyped, TablesMatchJournal, CacheOK
  <1>4. ChainUnbroken'
    BY <1>1 DEF JournalInv, ChainUnbroken
  <1>5. OnlyMembersGet'
    BY <1>1 DEF JournalInv, OnlyMembersGet
  <1>6. TasksTyped' /\ Tasks' /\ Spending'
    <2>1. CASE UNCHANGED task
      <3>1. pc' = pc /\ req' = req /\ st' = st /\ todo' = todo
        BY <2>1 DEF task
      <3> QED
        BY <1>1, <1>2, <3>1 DEF JournalInv, TasksTyped, Tasks, Spending, Owed, Spent
    <2>2. CASE Crash
      <3>1. /\ pc' = [h \in Handlers |-> "idle"] /\ req' = [h \in Handlers |-> NoRequest]
            /\ st' = [h \in Handlers |-> NoState] /\ todo' = [h \in Handlers |-> {}]
        BY <2>2 DEF Crash
      <3>2. TasksTyped'
        BY <1>1, <3>1 DEF JournalInv, TasksTyped, Places, Request
      <3>3. Tasks'
        BY <3>1 DEF Tasks, TaskOK, NoRequest
      <3>4. Spending'
        <4>1. \A m \in Messages, u \in Users : Owed(m, u)' \subseteq Owed(m, u)
          BY <3>1 DEF Owed
        <4> QED
          BY <1>1, <4>1, SpendingKept DEF spent
      <3> QED
        BY <3>2, <3>3, <3>4
    <2> QED
      BY <2>1, <2>2 DEF CacheCleared, IntervalPasses
  <1> QED
    BY <1>3, <1>4, <1>5, <1>6 DEF JournalInv

\* A nonce is forgotten: that it was spent still counts.
LEMMA SweepStep ==
  ASSUME JournalInv, UNCHANGED scene, NEW m \in Messages, NonceSwept(m)
  PROVE  JournalInv'
  <1>0. /\ m \in nonces /\ nonces' = nonces \ {m}
        /\ forgotten' = [forgotten EXCEPT ![m] = @ + 1]
        /\ UNCHANGED <<tables, cache, recent, task, copies, bounds>>
    BY DEF NonceSwept
  <1>1. /\ Committed' = Committed /\ Last' = Last
        /\ JournalTyped' /\ ChainUnbroken' /\ TablesMatchJournal' /\ CacheOK'
    BY <1>0, JournalKept
  <1>2. /\ pc' = pc /\ req' = req /\ st' = st /\ todo' = todo /\ copies' = copies
        /\ states' = states
    BY <1>0 DEF task, tables
  <1>3. TasksTyped'
    BY <1>0, <1>2 DEF JournalInv, TasksTyped
  <1>4. Tasks' /\ OnlyMembersGet'
    BY <1>1, <1>2 DEF JournalInv, Tasks, OnlyMembersGet
  <1>5. \A k \in Messages : Spent(k)' = Spent(k)
    BY <1>0 DEF Spent, JournalInv, TasksTyped
  <1>6. \A k \in Messages, u \in Users : Owed(k, u)' = Owed(k, u)
    BY <1>2 DEF Owed
  <1>7. Spending'
    BY <1>2, <1>5, <1>6 DEF JournalInv, Spending
  <1> QED
    BY <1>1, <1>3, <1>4, <1>7 DEF JournalInv

\* A row moves to another address, and the member it stands for with it.
LEMMA RenameStep ==
  ASSUME JournalInv, UNCHANGED scene, NEW old \in Users, NEW new \in Users,
         MemberRenamed(old, new)
  PROVE  JournalInv'
  <1>0. /\ old \in memberRows /\ memberRows' = (memberRows \ {old}) \cup {new}
        /\ rowOf' = [u \in Users |-> IF rowOf[u] = old THEN new ELSE rowOf[u]]
        /\ UNCHANGED <<log, states, linkRows, dropped, spent, cache, recent, task, copies,
                       bounds>>
    BY DEF MemberRenamed
  <1>1. Committed' = Committed /\ Last' = Last
    BY <1>0 DEF Committed, Last
  <1>2. JournalTyped' /\ CacheOK'
    BY <1>0, <1>1 DEF JournalInv, JournalTyped, CacheOK, bounds
  <1>3. ChainUnbroken'
    BY <1>0 DEF JournalInv, ChainUnbroken
  <1>4. TablesMatchJournal'
    <2>1. /\ memberRows = {rowOf[u] : u \in Members(Last.group)}
          /\ Members(Last.group) \subseteq Users
      BY DEF JournalInv, TablesMatchJournal, Members
    <2>2. memberRows' = {rowOf'[u] : u \in Members(Last.group)}
      BY <1>0, <2>1
    <2> QED
      BY <1>0, <1>1, <2>2 DEF JournalInv, TablesMatchJournal
  <1>5. pc' = pc /\ req' = req /\ st' = st /\ todo' = todo /\ copies' = copies
    BY <1>0 DEF task
  <1>6. TasksTyped' /\ Tasks' /\ OnlyMembersGet'
    BY <1>0, <1>1, <1>5 DEF JournalInv, TasksTyped, Tasks, OnlyMembersGet, spent
  <1>7. Spending'
    BY <1>0, <1>5 DEF JournalInv, Spending, Owed, Spent, spent
  <1> QED
    BY <1>2, <1>3, <1>4, <1>6, <1>7 DEF JournalInv

-----------------------------------------------------------------------------
(* The invariant                                                           *)

\* A group with its first entry, its members and no task at work.
LEMMA JournalInit == Init => JournalInv
  <1> SUFFICES ASSUME Init PROVE JournalInv
    OBVIOUS
  <1> DEFINE g == Genesis(Founder, Invited, "group", Permissions, 0)
             row == [ver |-> 1, prev |-> 0, id |-> 1]
  <1>1. g \in GroupStates
    BY JournalAssumption, RulesAssumption, GenesisType DEF LogVersions
  <1>2. Genesis1 \in Versioned /\ Genesis1.version = 1 /\ Genesis1.id = 1 /\ Genesis1.group = g
    BY <1>1 DEF Genesis1, Versioned
  <1>3. \A l \in Links : g.link[l].status = "gone"
    BY DEF Genesis, NoLink
  <1> HIDE DEF g
  <1>4. Active(g) = {} /\ Revoked(g) = {}
    BY <1>3 DEF Active, Revoked
  <1>5. row \in Row
    BY DEF Row
  <1>6. /\ log = <<row>> /\ states = <<Genesis1>> /\ memberRows = Members(Genesis1.group)
        /\ linkRows = {} /\ rowOf = SameRow /\ nonces = {}
        /\ forgotten = [m \in Messages |-> 0] /\ cache = NoState /\ signed = 1 /\ scene \in Scenes
        /\ pc = [h \in Handlers |-> "idle"] /\ req = [h \in Handlers |-> NoRequest]
        /\ st = [h \in Handlers |-> NoState] /\ todo = [h \in Handlers |-> {}]
        /\ copies = [m \in Messages |-> [u \in Users |-> 0]]
    BY DEF Init
  <1>7. /\ Len(log) = 1 /\ Len(states) = 1 /\ log[1] = row /\ states[1] = Genesis1
        /\ log \in Seq(Row) /\ states \in Seq(Versioned)
    BY <1>2, <1>5, <1>6
  <1>8. Last = Genesis1
    BY <1>7 DEF Last
  <1>9. JournalTyped
    BY <1>6, <1>7 DEF JournalTyped, SameRow
  <1>10. TasksTyped
    BY <1>6 DEF TasksTyped, Places, Request
  <1>11. ChainUnbroken
    BY <1>2, <1>7 DEF ChainUnbroken
  <1>12. TablesMatchJournal
    BY <1>2, <1>4, <1>6, <1>8 DEF TablesMatchJournal, SameRow, Members
  <1>13. Tasks
    BY <1>6 DEF Tasks, TaskOK, NoRequest
  <1>14. Spending /\ OnlyMembersGet
    <2>1. \A m, u : Owed(m, u) = {}
      BY <1>6 DEF Owed
    <2>2. Spending
      <3> SUFFICES ASSUME NEW m \in Messages, NEW u \in Users
                   PROVE  copies[m][u] + Cardinality(Owed(m, u)) <= Spent(m)
        BY DEF Spending
      <3>1. copies[m][u] = 0 /\ Spent(m) = 0
        BY <1>6 DEF Spent
      <3>2. Cardinality(Owed(m, u)) = 0
        BY <2>1, FS_EmptySet
      <3> QED
        BY <3>1, <3>2
    <2>3. OnlyMembersGet
      BY <1>6 DEF OnlyMembersGet
    <2> QED
      BY <2>2, <2>3
  <1> QED
    BY <1>6, <1>9, <1>10, <1>11, <1>12, <1>13, <1>14 DEF JournalInv, CacheOK

\* Every step keeps the invariant.
LEMMA JournalStep == JournalInv /\ [Next]_vars => JournalInv'
  <1> SUFFICES ASSUME JournalInv, [Next]_vars PROVE JournalInv'
    OBVIOUS
  <1>1. ASSUME NEW h \in Handlers, TaskStep(h), UNCHANGED scene
        PROVE  JournalInv'
    <2>1. CASE \E u \in Users, arrives \in BOOLEAN : HandOut(h, u, arrives)
      BY <1>1, <2>1, HandOutStep
    <2>2. CASE \/ \E c \in scene.changes, v \in 1..scene.entries : SubmitEntry(h, c, v)
               \/ \E m \in scene.messages : SubmitMessage(h, m)
               \/ \E f \in scene.forgets : SubmitForget(h, f.by, f.link)
      BY <1>1, <2>2, SubmitSteps
    <2>3. CASE LoadCached(h) \/ LoadRows(h) \/ FillCache(h)
      BY <1>1, <2>3, LoadSteps
    <2>4. CASE CheckEntry(h) \/ CheckMessage(h)
      BY <1>1, <2>4, CheckSteps
    <2>5. CASE \/ RefuseEntry(h) \/ InsertDuplicate(h) \/ PutCache(h)
               \/ NonceDuplicate(h) \/ MessageDone(h)
      BY <1>1, <2>5, EndSteps
    <2>6. CASE InsertEntry(h)
      BY <1>1, <2>6, InsertStep
    <2>7. CASE SpendNonce(h)
      BY <1>1, <2>7, SpendStep
    <2>8. CASE ForgetLink(h)
      BY <1>1, <2>8, ForgetStep
    <2> QED
      BY <1>1, <2>1, <2>2, <2>3, <2>4, <2>5, <2>6, <2>7, <2>8 DEF TaskStep
  <1>2. CASE UNCHANGED scene /\ (CacheCleared \/ IntervalPasses \/ Crash)
    BY <1>2, AroundSteps
  <1>4. ASSUME NEW m \in scene.messages, NonceSwept(m), UNCHANGED scene
        PROVE  JournalInv'
    <2>1. m \in Messages
      BY JournalAssumption DEF JournalInv, JournalTyped
    <2> QED
      BY <1>4, <2>1, SweepStep
  <1>5. ASSUME NEW r \in scene.renames, MemberRenamed(r.old, r.new), UNCHANGED scene
        PROVE  JournalInv'
    <2>1. r.old \in Users /\ r.new \in Users
      BY JournalAssumption DEF JournalInv, JournalTyped
    <2> QED
      BY <1>5, <2>1, RenameStep
  <1>3. CASE UNCHANGED vars
    <2>1. UNCHANGED <<tables, cache, bounds, scene, nonces, forgotten, copies, task>>
      BY <1>3 DEF vars, spent
    <2>2. /\ pc' = pc /\ req' = req /\ st' = st /\ todo' = todo /\ nonces' = nonces
          /\ copies' = copies /\ states' = states /\ forgotten' = forgotten
      BY <2>1 DEF task, tables
    <2>3. /\ Committed' = Committed /\ Last' = Last
          /\ JournalTyped' /\ ChainUnbroken' /\ TablesMatchJournal' /\ CacheOK'
      BY <2>1, JournalKept
    <2> QED
      BY <2>2, <2>3 DEF JournalInv, TasksTyped, Tasks, Spending, Owed, Spent, OnlyMembersGet
  <1> QED
    BY <1>1, <1>2, <1>3, <1>4, <1>5 DEF Next

\* The invariant of the journal.
THEOREM JournalInvariant == Spec => []JournalInv
  BY JournalInit, JournalStep, PTL DEF Spec

\* D-02: append of v2_groups.rs, whose only lock is the primary key, never
\* breaks the chain, however many tasks load, check and insert at the same
\* time and wherever the shard stops.
THEOREM JournalUnbroken == Spec => []ChainUnbroken
  <1>1. JournalInv => ChainUnbroken
    BY DEF JournalInv
  <1> QED
    BY <1>1, JournalInvariant, PTL

\* The cache that load and append fill without a lock holds, and every task
\* works with, states the journal really had.
THEOREM CacheCommitted == Spec => []CacheIsCommitted
  <1>1. JournalInv => CacheIsCommitted
    <2> SUFFICES ASSUME JournalInv PROVE CacheIsCommitted
      OBVIOUS
    <2>1. cache # NoState => cache \in Committed
      BY DEF JournalInv, CacheOK
    <2>2. \A h \in Handlers : pc[h] \notin {"idle", "load"} => st[h] \in Committed
      BY DEF JournalInv, Tasks, TaskOK
    <2> QED
      BY <2>1, <2>2 DEF CacheIsCommitted, Committed
  <1> QED
    BY <1>1, JournalInvariant, PTL

\* C1-14: the tables of members and links that append, group.invite.delete and
\* a change of address write follow the last entry, but for a link that a
\* deletion checked against an older state took.
THEOREM TablesFollowJournal == Spec => []TablesMatchJournal
  <1>1. JournalInv => TablesMatchJournal
    BY DEF JournalInv
  <1> QED
    BY <1>1, JournalInvariant, PTL

\* deliver_group: a message is handed to a member at most once for each time its
\* nonce is remembered.
THEOREM MessageOncePerMember == Spec => []OncePerMember
  <1>1. JournalInv => OncePerMember
    <2> SUFFICES ASSUME JournalInv, NEW m \in Messages, NEW u \in Users
                 PROVE  copies[m][u] <= 1 + forgotten[m]
      BY DEF OncePerMember
    <2>1. /\ copies[m][u] + Cardinality(Owed(m, u)) <= Spent(m)
          /\ copies[m][u] \in Nat /\ forgotten[m] \in Nat
      BY DEF JournalInv, Spending, TasksTyped
    <2> QED
      BY <2>1, OwedFinite DEF Spent
  <1> QED
    BY <1>1, JournalInvariant, PTL

\* deliver_group: a message goes to nobody but members of its epoch.
THEOREM MessageToMembersOnly == Spec => []OnlyMembersGet
  <1>1. JournalInv => OnlyMembersGet
    BY DEF JournalInv
  <1> QED
    BY <1>1, JournalInvariant, PTL
=============================================================================
