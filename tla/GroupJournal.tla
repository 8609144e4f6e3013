---------------------------- MODULE GroupJournal ----------------------------
(***************************************************************************)
(* How the messenger shard keeps the journal of one group                  *)
(* (backend/shards/messenger/src/v2_groups.rs): requests are handled by    *)
(* concurrent tasks that share the database and a cache of the group's     *)
(* state and wait (await) between their steps.  One task appends an entry: *)
(* load, check, insert, put into the cache, notify; another takes a group  *)
(* message: load, check, spend the nonce, hand a copy to every member; a   *)
(* third forgets a link.  Two more tasks write the same tables: the sweep  *)
(* of old nonces (gc of v2.rs) and the change of a user's address, which   *)
(* identity announces (v2_rename.rs).                                      *)
(*                                                                         *)
(* The state of the group is a value of module GroupRules with the number  *)
(* and the id (hash) of its last entry.  The shard may stop at any point;  *)
(* the cache may be dropped at any time (it is full).  The notices that an *)
(* appended entry sends to the members, and the catalogue of public        *)
(* groups, do not act back on the journal and are left out; so is the      *)
(* filling of an empty index of links from journals older than the index.  *)
(***************************************************************************)
EXTENDS GroupRules, Sequences

CONSTANTS Handlers,      \* tasks that run at the same time
          Messages,      \* envelopes: [nonce, epoch] of each
          Founder,       \* who created the group
          Invited,       \* and with whom
          Scenes         \* what users do, within which bounds: the changes they
                         \* sign ([kind, by, on]), the envelopes they send, the
                         \* links they want forgotten ([by, link]) and the
                         \* addresses they change ([old, new]); how many entries
                         \* are signed, how many deliveries asked for, and how
                         \* often the shard stops

ASSUME JournalAssumption ==
  /\ IsFiniteSet(Handlers)
  /\ Founder \in Users /\ Invited \subseteq Users
  /\ \A m \in Messages : m.epoch \in Nat
  /\ \A b \in Scenes : /\ \A c \in b.changes :
                            /\ c.by \in Users
                            /\ \/ c.kind \in {"add", "ban", "rename"} /\ c.on \in Users
                               \/ c.kind \in {"invite", "revoke"} /\ c.on \in Links
                               \/ c.kind \in {"epoch", "delete"}
                       /\ b.messages \subseteq Messages
                       /\ \A f \in b.forgets : f.by \in Users /\ f.link \in Links
                       /\ \A r \in b.renames : r.old \in Users /\ r.new \in Users
                       /\ b.entries \in Nat \ {0} /\ b.requests \in Nat /\ b.crashes \in Nat

VARIABLES log,        \* group_state_log: the entries in the order of versions
          states,     \* history: the state each committed entry led to
          memberRows, \* group_members_v2
          linkRows,   \* group_links_v2
          rowOf,      \* history: the address under which the row of each member
                      \* of the last entry is
          dropped,    \* history: links whose row a task with an old state took
          nonces,     \* group_envelope_nonce: the envelopes that were spent
          forgotten,  \* history: how often the nonce of each was swept
          cache,      \* GroupCache.states of this group, or NoState
          recent,     \* last_epoch: an epoch began less than 10 s ago
          pc,         \* where each task is
          req,        \* its request: an entry, an envelope or a link
          st,         \* the state it has loaded
          todo,       \* the members it has still to hand a copy to
          copies,     \* copies of each message in the inboxes of each user
          signed,     \* number of entries signed so far
          requests, crashes,
          scene       \* the one of Scenes that this is

NoState == [version |-> 0]

Genesis1 == [version |-> 1, id |-> 1,
             group |-> Genesis(Founder, Invited, "group", Permissions, 0)]

SameRow == [u \in Users |-> u]

tables == <<log, states, memberRows, linkRows, rowOf, dropped>>
spent == <<nonces, forgotten>>
task == <<pc, req, st, todo>>
bounds == <<signed, requests, crashes>>
vars == <<tables, spent, cache, recent, task, copies, bounds, scene>>

NoRequest == [kind |-> "none"]

Init == /\ log = <<[ver |-> 1, prev |-> 0, id |-> 1]>>
        /\ states = <<Genesis1>>
        /\ memberRows = Members(Genesis1.group)
        /\ linkRows = {}
        /\ rowOf = SameRow
        /\ dropped = {}
        /\ nonces = {}
        /\ forgotten = [m \in Messages |-> 0]
        /\ cache = NoState
        /\ recent = FALSE
        /\ pc = [h \in Handlers |-> "idle"]
        /\ req = [h \in Handlers |-> NoRequest]
        /\ st = [h \in Handlers |-> NoState]
        /\ todo = [h \in Handlers |-> {}]
        /\ copies = [m \in Messages |-> [u \in Users |-> 0]]
        /\ signed = 1
        /\ requests = 0
        /\ crashes = 0
        /\ scene \in Scenes

-----------------------------------------------------------------------------
(* Entries                                                                 *)

\* apply_with for the changes of this model.
MayApply(g, c) ==
  /\ MaySign(g, c.by, 0)
  /\ CASE c.kind = "add"    -> MayAddMember(g, c.by, c.on)
       [] c.kind = "ban"    -> MayBan(g, c.by, c.on)
       [] c.kind = "rename" -> MayRenameMember(g, c.by, c.on)
       [] c.kind = "epoch"  -> MayNewEpoch(g, c.by)
       [] c.kind = "invite" -> MayInviteKey(g, c.by, c.on)
       [] c.kind = "revoke" -> MayEditLink(g, c.by, c.on)
       [] c.kind = "delete" -> MayDeleteGroup(g, c.by)

Applied(g, c) ==
  CASE c.kind = "add"    -> AddMember(g, c.by, c.on, {})
    [] c.kind = "ban"    -> Ban(g, c.on)
    [] c.kind = "rename" -> RenameMember(g, c.by, c.on)
    [] c.kind = "epoch"  -> NewEpoch(g)
    [] c.kind = "invite" -> InviteKey(g, c.by, c.on, FALSE, 0)
    [] c.kind = "revoke" -> RevokeLink(g, c.on)
    [] c.kind = "delete" -> DeleteGroup(g)

\* The position of the entry in the chain (D-02) and the rules of the group.
Accepts(s, e) == /\ e.ver = s.version + 1
                 /\ e.prev = s.id
                 /\ MayApply(s.group, e.change)

After(s, e) == [version |-> e.ver, id |-> e.id,
                group |-> Applied(s.group, e.change)]

\* The task ends, with an answer or with an error.
Ends(h) == /\ pc' = [pc EXCEPT ![h] = "idle"]
           /\ req' = [req EXCEPT ![h] = NoRequest]
           /\ st' = [st EXCEPT ![h] = NoState]
           /\ todo' = [todo EXCEPT ![h] = {}]

GoesTo(h, place) == pc' = [pc EXCEPT ![h] = place]

\* A user signs a change over a version of the journal he has seen, the newest
\* or an older one, and sends it.
SubmitEntry(h, c, v) ==
  /\ pc[h] = "idle"
  /\ signed < scene.entries
  /\ v \in 1..Len(log)
  /\ signed' = signed + 1
  /\ req' = [req EXCEPT ![h] = [kind |-> "entry", change |-> c, ver |-> v + 1,
                                prev |-> log[v].id, id |-> signed + 1]]
  /\ GoesTo(h, "load")
  /\ UNCHANGED <<tables, spent, cache, recent, st, todo, copies, requests,
                 crashes>>

\* An envelope signed with the send key of an epoch is handed in, for the
\* first time or again.
SubmitMessage(h, m) ==
  /\ pc[h] = "idle"
  /\ requests < scene.requests
  /\ \E v \in 1..Len(states) : states[v].group.epoch = m.epoch
  /\ requests' = requests + 1
  /\ req' = [req EXCEPT ![h] = [kind |-> "message", message |-> m]]
  /\ GoesTo(h, "load")
  /\ UNCHANGED <<tables, spent, cache, recent, st, todo, copies, signed,
                 crashes>>

\* group.invite.delete: a user wants a link forgotten; that it is revoked is
\* not asked for, only (MayForget) that it is not active.
SubmitForget(h, a, l) ==
  /\ pc[h] = "idle"
  /\ requests < scene.requests
  /\ requests' = requests + 1
  /\ req' = [req EXCEPT ![h] = [kind |-> "forget", by |-> a, link |-> l]]
  /\ GoesTo(h, "load")
  /\ UNCHANGED <<tables, spent, cache, recent, st, todo, copies, signed,
                 crashes>>

-----------------------------------------------------------------------------
(* load                                                                    *)

LoadCached(h) ==
  /\ pc[h] = "load"
  /\ cache # NoState
  /\ st' = [st EXCEPT ![h] = cache]
  /\ GoesTo(h, "check")
  /\ UNCHANGED <<tables, spent, cache, recent, req, todo, copies, bounds>>

\* The rows are read and applied one after the other: that gives the state of
\* the last of them (ChainUnbroken).
LoadRows(h) ==
  /\ pc[h] = "load"
  /\ cache = NoState
  /\ st' = [st EXCEPT ![h] = states[Len(log)]]
  /\ GoesTo(h, "fill")
  /\ UNCHANGED <<tables, spent, cache, recent, req, todo, copies, bounds>>

\* What was read goes to the cache, whatever is there by now.
FillCache(h) ==
  /\ pc[h] = "fill"
  /\ cache' = st[h]
  /\ GoesTo(h, "check")
  /\ UNCHANGED <<tables, spent, recent, req, st, todo, copies, bounds>>

-----------------------------------------------------------------------------
(* append                                                                  *)

IsEpoch(c) == c.kind = "epoch"

\* A slip: the cache is given the new state before there is a row for it.
CheckEntryCaches(h) ==
  /\ pc[h] = "check"
  /\ req[h].kind = "entry"
  /\ Accepts(st[h], req[h])
  /\ IsEpoch(req[h].change) => ~recent
  /\ recent' = (recent \/ IsEpoch(req[h].change))
  /\ cache' = After(st[h], req[h])
  /\ GoesTo(h, "insert")
  /\ UNCHANGED <<tables, spent, req, st, todo, copies, bounds>>

\* apply_one, the limits and the privacy of new members, and the interval of
\* epochs, which is noted before the entry is written.
CheckEntry(h) ==
  /\ pc[h] = "check"
  /\ req[h].kind = "entry"
  /\ Accepts(st[h], req[h])
  /\ IsEpoch(req[h].change) => ~recent
  /\ recent' = (recent \/ IsEpoch(req[h].change))
  /\ GoesTo(h, "insert")
  /\ UNCHANGED <<tables, spent, cache, req, st, todo, copies, bounds>>

\* Refused: by the rules, the rate, or what identity says of a new member.
RefuseEntry(h) ==
  /\ pc[h] = "check"
  /\ req[h].kind = "entry"
  /\ \/ ~Accepts(st[h], req[h])
     \/ IsEpoch(req[h].change) /\ recent
     \/ req[h].change.kind = "add"
  /\ Ends(h)
  /\ UNCHANGED <<tables, spent, cache, recent, copies, bounds>>

\* A slip: a link that is no longer remembered stays in the index.
WriteEntryKeepsGone(h) ==
  LET next   == After(st[h], req[h])
      before == Active(st[h].group)
      after  == Active(next.group)
  IN  /\ log' = Append(log, [ver |-> req[h].ver, prev |-> req[h].prev,
                             id |-> req[h].id, change |-> req[h].change])
      /\ states' = Append(states, next)
      /\ linkRows' = linkRows \cup (after \ before)
      /\ dropped' = dropped \ (after \ before)
      /\ memberRows' = Members(next.group)
      /\ rowOf' = SameRow

\* The transaction of append: the row, the index of links and the members.
WriteEntry(h) ==
  LET next   == After(st[h], req[h])
      before == Active(st[h].group)
      after  == Active(next.group)
  IN  /\ log' = Append(log, [ver |-> req[h].ver, prev |-> req[h].prev,
                             id |-> req[h].id, change |-> req[h].change])
      /\ states' = Append(states, next)
      /\ linkRows' = (linkRows \cup (after \ before))
                       \ ((before \ after) \ Revoked(next.group))
      /\ dropped' = dropped \ (after \ before)
      /\ memberRows' = Members(next.group)
      /\ rowOf' = SameRow

\* A slip: the version of a row is not unique.
InsertEntryAnyway(h) ==
  /\ pc[h] = "insert"
  /\ WriteEntry(h)
  /\ GoesTo(h, "put")
  /\ UNCHANGED <<spent, cache, recent, req, st, todo, copies, bounds>>

\* The version is still free (primary key of group_state_log).
InsertEntry(h) ==
  /\ pc[h] = "insert"
  /\ req[h].ver > Len(log)
  /\ WriteEntry(h)
  /\ GoesTo(h, "put")
  /\ UNCHANGED <<spent, cache, recent, req, st, todo, copies, bounds>>

InsertDuplicate(h) ==
  /\ pc[h] = "insert"
  /\ req[h].ver <= Len(log)
  /\ Ends(h)
  /\ UNCHANGED <<tables, spent, cache, recent, copies, bounds>>

\* The new state goes to the cache, whatever is there by now.
PutCache(h) ==
  /\ pc[h] = "put"
  /\ cache' = After(st[h], req[h])
  /\ Ends(h)
  /\ UNCHANGED <<tables, spent, recent, copies, bounds>>

-----------------------------------------------------------------------------
(* deliver_group                                                           *)

\* SC-003a: the current epoch only, and not once it is stale.
Takes(s, epoch) == /\ ~s.group.deleted
                   /\ ~s.group.stale
                   /\ s.group.epoch = epoch

\* A slip: that the epoch is stale is not looked at.
CheckMessageStale(h) ==
  /\ pc[h] = "check"
  /\ req[h].kind = "message"
  /\ IF ~st[h].group.deleted /\ st[h].group.epoch = req[h].message.epoch
     THEN /\ GoesTo(h, "nonce")
          /\ UNCHANGED <<req, st, todo>>
     ELSE Ends(h)
  /\ UNCHANGED <<tables, spent, cache, recent, copies, bounds>>

CheckMessage(h) ==
  /\ pc[h] = "check"
  /\ req[h].kind = "message"
  /\ IF Takes(st[h], req[h].message.epoch)
     THEN /\ GoesTo(h, "nonce")
          /\ UNCHANGED <<req, st, todo>>
     ELSE Ends(h)
  /\ UNCHANGED <<tables, spent, cache, recent, copies, bounds>>

\* A slip: the nonce is noted, but whether it was there is not looked at.
SpendNonceAnyway(h) ==
  /\ pc[h] = "nonce"
  /\ nonces' = nonces \cup {req[h].message}
  /\ todo' = [todo EXCEPT ![h] = Members(st[h].group)]
  /\ GoesTo(h, "fan")
  /\ UNCHANGED <<tables, forgotten, cache, recent, req, st, copies, bounds>>

SpendNonce(h) ==
  /\ pc[h] = "nonce"
  /\ req[h].message \notin nonces
  /\ nonces' = nonces \cup {req[h].message}
  /\ todo' = [todo EXCEPT ![h] = Members(st[h].group)]
  /\ GoesTo(h, "fan")
  /\ UNCHANGED <<tables, forgotten, cache, recent, req, st, copies, bounds>>

NonceDuplicate(h) ==
  /\ pc[h] = "nonce"
  /\ req[h].message \in nonces
  /\ Ends(h)
  /\ UNCHANGED <<tables, spent, cache, recent, copies, bounds>>

\* A copy for one member; when his devices are unknown or the inbox refuses,
\* there is none, and the task goes on.
HandOut(h, u, arrives) ==
  /\ pc[h] = "fan"
  /\ u \in todo[h]
  /\ todo' = [todo EXCEPT ![h] = @ \ {u}]
  /\ copies' = IF arrives
               THEN [copies EXCEPT ![req[h].message][u] = @ + 1]
               ELSE copies
  /\ UNCHANGED <<tables, spent, cache, recent, pc, req, st, bounds>>

MessageDone(h) ==
  /\ pc[h] = "fan"
  /\ todo[h] = {}
  /\ Ends(h)
  /\ UNCHANGED <<tables, spent, cache, recent, copies, bounds>>

-----------------------------------------------------------------------------
(* group.invite.delete                                                     *)

\* invite_admin
InviteAdmin(s, u) == \/ s.owner = u
                     \/ s.role[u] = "admin" /\ "invite_users" \in s.rights[u]

MayForget(s, a, l) == InviteAdmin(s, a) /\ l \notin Active(s)

\* The row goes by the state that was loaded, which entries may have left
\* behind since.
ForgetLink(h) ==
  /\ pc[h] = "check"
  /\ req[h].kind = "forget"
  /\ IF MayForget(st[h].group, req[h].by, req[h].link)
     THEN /\ linkRows' = linkRows \ {req[h].link}
          /\ dropped' = IF st[h] = states[Len(states)] THEN dropped
                        ELSE dropped \cup {req[h].link}
     ELSE UNCHANGED <<linkRows, dropped>>
  /\ Ends(h)
  /\ UNCHANGED <<log, states, memberRows, rowOf, spent, cache, recent, copies, bounds>>

-----------------------------------------------------------------------------
(* Around the tasks                                                        *)

\* gc, once an hour: a nonce INBOX_TTL_SECS old is deleted, whatever becomes of
\* its envelope, which carries no time.
NonceSwept(m) == /\ m \in nonces
                 /\ nonces' = nonces \ {m}
                 /\ forgotten' = [forgotten EXCEPT ![m] = @ + 1]
                 /\ UNCHANGED <<tables, cache, recent, task, copies, bounds>>

\* v2.internal.rename.messenger: the row of the old address becomes that of the
\* new one, or goes if that has one; no entry says so.  Identity repeats the
\* notice until it is answered.
MemberRenamed(old, new) ==
  /\ old \in memberRows
  /\ memberRows' = (memberRows \ {old}) \cup {new}
  /\ rowOf' = [u \in Users |-> IF rowOf[u] = old THEN new ELSE rowOf[u]]
  /\ UNCHANGED <<log, states, linkRows, dropped, spent, cache, recent, task, copies,
                 bounds>>

\* The cache has reached CACHE_MAX groups and is cleared.
CacheCleared == /\ cache # NoState
                /\ cache' = NoState
                /\ UNCHANGED <<tables, spent, recent, task, copies, bounds>>

\* EPOCH_MIN_INTERVAL_MS have passed.
IntervalPasses == /\ recent
                  /\ recent' = FALSE
                  /\ UNCHANGED <<tables, spent, cache, task, copies, bounds>>

\* The shard stops and starts again: the tables are what is left.
Crash == /\ crashes < scene.crashes
         /\ crashes' = crashes + 1
         /\ cache' = NoState
         /\ recent' = FALSE
         /\ pc' = [h \in Handlers |-> "idle"]
         /\ req' = [h \in Handlers |-> NoRequest]
         /\ st' = [h \in Handlers |-> NoState]
         /\ todo' = [h \in Handlers |-> {}]
         /\ UNCHANGED <<tables, spent, copies, signed, requests>>

TaskStep(h) ==
  \/ \E c \in scene.changes, v \in 1..scene.entries : SubmitEntry(h, c, v)
  \/ \E m \in scene.messages : SubmitMessage(h, m)
  \/ \E f \in scene.forgets : SubmitForget(h, f.by, f.link)
  \/ LoadCached(h) \/ LoadRows(h) \/ FillCache(h)
  \/ CheckEntry(h) \/ RefuseEntry(h)
  \/ InsertEntry(h) \/ InsertDuplicate(h) \/ PutCache(h)
  \/ CheckMessage(h) \/ SpendNonce(h) \/ NonceDuplicate(h) \/ MessageDone(h)
  \/ ForgetLink(h)
  \/ \E u \in Users, arrives \in BOOLEAN : HandOut(h, u, arrives)

Next == /\ \/ \E h \in Handlers : TaskStep(h)
           \/ \E m \in scene.messages : NonceSwept(m)
           \/ \E r \in scene.renames : MemberRenamed(r.old, r.new)
           \/ CacheCleared \/ IntervalPasses \/ Crash
        /\ UNCHANGED scene

Spec == Init /\ [][Next]_vars

-----------------------------------------------------------------------------
(* Properties                                                              *)

Last == states[Len(states)]
Idle == \A h \in Handlers : pc[h] = "idle"

\* D-02: whatever tasks race for a version, each row continues the row before
\* it and was allowed in the state that row led to: a journal that is read
\* from the beginning, by a client or after a restart, applies to its end.
ChainUnbroken ==
  /\ Len(states) = Len(log)
  /\ \A v \in 1..Len(log) : /\ log[v].ver = v
                            /\ states[v].version = v
                            /\ states[v].id = log[v].id
  /\ \A v \in 2..Len(log) : /\ Accepts(states[v - 1], log[v])
                            /\ states[v] = After(states[v - 1], log[v])

\* The cache, and every state a task works with, is one the journal really had
\* at that version: never one of an entry that lost the race.
CacheIsCommitted ==
  /\ cache # NoState => \E v \in 1..Len(states) : cache = states[v]
  /\ \A h \in Handlers : pc[h] \notin {"idle", "load"} =>
       \E v \in 1..Len(states) : st[h] = states[v]

\* C1-14: whatever tasks race, the table of members has the members of the last
\* entry, each under his address there or the one he changed it to since; the
\* index of links knows none that the group does not know, and misses an active
\* one only when group.invite.delete, checked against a state from before later
\* entries, took its row.
TablesMatchJournal ==
  /\ memberRows = {rowOf[u] : u \in Members(Last.group)}
  /\ Active(Last.group) \ linkRows \subseteq dropped
  /\ linkRows \subseteq Active(Last.group) \cup Revoked(Last.group)

\* A message reaches a member once for each time its nonce is remembered,
\* however often and by however many tasks at the same time it is handed in,
\* through restarts too: once, unless gc has forgotten it.
OncePerMember ==
  \A m \in Messages, u \in Users : copies[m][u] <= 1 + forgotten[m]

\* A message reaches only users who were members while its epoch was the
\* current one and not stale: who is added later does not get it.
OnlyMembersGet ==
  \A m \in Messages, u \in Users : copies[m][u] > 0 =>
    \E v \in 1..Len(states) : /\ Takes(states[v], m.epoch)
                              /\ u \in Members(states[v].group)

\* v2_groups.rs on load: a group is not served by a truncated state (a ban
\* undone, DUPLICATE for ever).  So once no task is at work the cache is not
\* behind the journal.
CacheNotBehind == Idle /\ cache # NoState => cache.version = Len(log)
=============================================================================
