----------------------------- MODULE GroupRules -----------------------------
(***************************************************************************)
(* The rules of a group, translated from apply_with of                     *)
(* backend/protocol/src/group.rs.  Clients and the messenger shard run the *)
(* same code over the entries of the group's journal, so the state of a    *)
(* group is a value and each change a pair of operators: may a sign it in  *)
(* state s, and the state after it.                                        *)
(*                                                                         *)
(* Names, pictures and the L2 mode have no influence on what is accepted   *)
(* and are left out; of the times only their effect is kept: an expired    *)
(* link, an early epoch or an entry out of the time window is refused, and *)
(* a refused entry changes nothing.                                        *)
(***************************************************************************)
EXTENDS Integers, FiniteSets

CONSTANTS Users,              \* addresses
          Links,              \* invite links, by their id
          Secrets,            \* secrets of public groups
          Rights,             \* the AdminRights a model tells apart
          Permissions,        \* the default Permissions a model tells apart
          MaxLimit,           \* bound: usage limits of links
          MaxLogVersion,      \* bound: versions of a signer's device log
          MAX_MEMBERS,        \* 1000, or less on a server
          MAX_REVOKED_LINKS   \* 200

ASSUME RulesAssumption ==
  /\ IsFiniteSet(Users) /\ Users # {}
  /\ Rights \subseteq {"change_info", "delete_messages", "ban_users",
                       "invite_users", "pin_messages", "add_admins"}
  /\ Permissions \subseteq {"send_messages", "invite_users", "change_info"}
  /\ "private" \notin Secrets
  /\ MaxLimit \in Nat /\ MaxLogVersion \in Nat
  /\ MAX_MEMBERS \in Nat \ {0} /\ MAX_REVOKED_LINKS \in Nat

Roles == {"none", "member", "admin", "owner"}
LogVersions == 0..MaxLogVersion

\* InviteLink; limit 0 is no limit.  "gone" is a link the group does not know:
\* never announced, or revoked and not remembered.
NoLink == [status |-> "gone"]
LinkInfo == [status : {"active", "revoked"}, creator : Users,
             approval : BOOLEAN, limit : 0..MaxLimit, uses : Nat]

\* struct GroupState.
GroupStates == [kind    : {"group", "channel"},
                perms   : SUBSET Permissions,
                owner   : Users,
                role    : [Users -> Roles],
                rights  : [Users -> SUBSET Rights],
                muted   : SUBSET Users,
                banned  : SUBSET Users,
                epoch   : Nat,
                stale   : BOOLEAN,
                link    : [Links -> LinkInfo \cup {NoLink}],
                public  : Secrets \cup {"private"},
                deleted : BOOLEAN,
                logs    : [Users -> LogVersions]]

-----------------------------------------------------------------------------
(* Who may do what                                                         *)

Members(s) == {u \in Users : s.role[u] # "none"}

IsOwner(s, u) == s.owner = u /\ s.role[u] # "none"

AdminCan(s, u, right) == \/ IsOwner(s, u)
                         \/ s.role[u] = "admin" /\ right \in s.rights[u]

IsAdmin(s, u) == IsOwner(s, u) \/ s.role[u] = "admin"

\* A plain member may, because the group's permissions let every member.
MemberCan(s, u, permission) == /\ s.role[u] # "none"
                               /\ s.kind = "group"
                               /\ permission \in s.perms

\* can_write
CanWrite(s, u) ==
  /\ s.role[u] # "none"
  /\ u \notin s.banned
  /\ u \notin s.muted
  /\ ~s.deleted
  /\ IsAdmin(s, u) \/ (s.kind = "group" /\ "send_messages" \in s.perms)

\* writers: who is given the private send key of an epoch.
Writers(s) == {u \in Users : CanWrite(s, u)}

\* An admin may act on plain members, the owner on everyone but himself.
Outranks(s, a, m) ==
  /\ \/ IsOwner(s, a)
     \/ AdminCan(s, a, "ban_users") /\ s.role[m] \in {"none", "member"}
  /\ m # s.owner

-----------------------------------------------------------------------------
(* Members and roles                                                       *)

Comes(s, m) == [s EXCEPT !.role[m] = "member",
                         !.rights[m] = {},
                         !.muted = @ \ {m}]

Goes(s, m) == [s EXCEPT !.role[m] = "none",
                        !.rights[m] = {},
                        !.muted = @ \ {m}]

Stale(s) == [s EXCEPT !.stale = TRUE]

\* A slip: the link counts down what is left of it.
CountJoinDown(s, l) == [s EXCEPT !.link[l].uses = @ - 1]

\* note_join
CountJoin(s, l) == [s EXCEPT !.link[l].uses = @ + 1]

\* Create: the genesis of the journal.
Genesis(a, invited, kind, perms, log) ==
  [kind    |-> kind,
   perms   |-> perms,
   owner   |-> a,
   role    |-> [u \in Users |-> IF u = a THEN "owner"
                                ELSE IF u \in invited THEN "member" ELSE "none"],
   rights  |-> [u \in Users |-> IF u = a THEN Rights ELSE {}],
   muted   |-> {},
   banned  |-> {},
   epoch   |-> 0,
   stale   |-> TRUE,
   link    |-> [l \in Links |-> NoLink],
   public  |-> "private",
   deleted |-> FALSE,
   logs    |-> [u \in Users |-> IF u = a THEN log ELSE 0]]

\* A slip: whether the newcomer is banned is not looked at.
MayAddMemberBanned(s, a, m) ==
  /\ AdminCan(s, a, "invite_users") \/ MemberCan(s, a, "invite_users")
  /\ m \notin Members(s)
  /\ Cardinality(Members(s)) < MAX_MEMBERS

\* A slip: the limit lets one too many in.
MayAddMemberFull(s, a, m) ==
  /\ AdminCan(s, a, "invite_users") \/ MemberCan(s, a, "invite_users")
  /\ m \notin Members(s)
  /\ m \notin s.banned
  /\ Cardinality(Members(s)) <= MAX_MEMBERS

MayAddMember(s, a, m) ==
  /\ AdminCan(s, a, "invite_users") \/ MemberCan(s, a, "invite_users")
  /\ m \notin Members(s)
  /\ m \notin s.banned
  /\ Cardinality(Members(s)) < MAX_MEMBERS

\* via: the link of an approved request; it is counted when an admin with the
\* right says so and the link asks for approval.
CountsVia(s, a, via) == \E l \in via : /\ s.link[l].status = "active"
                                       /\ s.link[l].approval
                                       /\ AdminCan(s, a, "invite_users")

AddMember(s, a, m, via) ==
  LET t == IF CountsVia(s, a, via)
           THEN CountJoin(s, CHOOSE l \in via : TRUE) ELSE s
  IN  Stale(Comes(t, m))

MayRemoveMember(s, a, m) == m \in Members(s) /\ Outranks(s, a, m)
RemoveMember(s, m) == Stale(Goes(s, m))

\* A slip: the old owner keeps his role.
TransferOwnershipKeepsRole(s, a, m) ==
  [s EXCEPT !.role[m] = "owner", !.rights[m] = Rights, !.owner = m]

\* SetRole to Owner: the group changes hands, the old owner stays an admin.
MayTransferOwnership(s, a, m) == m \in Members(s) /\ IsOwner(s, a) /\ m # a
TransferOwnership(s, a, m) ==
  [s EXCEPT !.role[a] = "admin",
            !.role[m] = "owner",
            !.rights[a] = Rights,
            !.rights[m] = Rights,
            !.owner = m]

\* A slip: the rights handed out are not compared with the signer's own.
MaySetRoleUnbounded(s, a, m, role, rights) ==
  /\ m \in Members(s)
  /\ m # s.owner
  /\ \/ IsOwner(s, a)
     \/ AdminCan(s, a, "add_admins") /\ s.role[m] = "member" /\ role = "admin"

\* SetRole to Admin or Member: an admin only promotes members, within his own
\* rights.
MaySetRole(s, a, m, role, rights) ==
  /\ m \in Members(s)
  /\ m # s.owner
  /\ \/ IsOwner(s, a)
     \/ /\ AdminCan(s, a, "add_admins")
        /\ s.role[m] = "member"
        /\ role = "admin"
        /\ rights \subseteq s.rights[a]

SetRole(s, m, role, rights) ==
  [s EXCEPT !.role[m] = role,
            !.rights[m] = IF role = "admin" THEN rights ELSE {},
            !.stale = @ \/ (s.role[m] = "admin" /\ role = "member")]

MayBan(s, a, m) == Outranks(s, a, m)
Ban(s, m) == Stale([Goes(s, m) EXCEPT !.banned = @ \cup {m}])

MayUnban(s, a) == AdminCan(s, a, "ban_users")
Unban(s, m) == [s EXCEPT !.banned = @ \ {m}]

\* A slip: a member is muted, the epoch goes on.
MuteSameEpoch(s, m, on) == [s EXCEPT !.muted = IF on THEN @ \cup {m} ELSE @ \ {m}]

MayMute(s, a, m) == m \in Members(s) /\ Outranks(s, a, m)
Mute(s, m, on) ==
  Stale([s EXCEPT !.muted = IF on THEN @ \cup {m} ELSE @ \ {m}])

MayLeave(s, a) == a \in Members(s) /\ a # s.owner
Leave(s, a) == Stale(Goes(s, a))

\* RenameMember: old signs on under the new address a (the proof of the change
\* of address is external).  The membership moves, with the ownership and the
\* links the member announced.
MayRenameMember(s, a, old) == /\ a \notin Members(s)
                              /\ a \notin s.banned
                              /\ old \in Members(s)

MoveLinks(s, a, old) ==
  [l \in Links |-> IF s.link[l].status = "active" /\ s.link[l].creator = old
                   THEN [s.link[l] EXCEPT !.creator = a] ELSE s.link[l]]

RenameMember(s, a, old) ==
  [s EXCEPT !.role[a] = s.role[old],
            !.role[old] = "none",
            !.rights[a] = s.rights[old],
            !.rights[old] = {},
            !.muted = IF old \in @ THEN (@ \ {old}) \cup {a} ELSE @,
            !.owner = IF @ = old THEN a ELSE @,
            !.link = MoveLinks(s, a, old)]

-----------------------------------------------------------------------------
(* The group itself                                                        *)

\* SetInfo and SetPrivacyMode: what they set is left out.
MaySetInfo(s, a) == \/ AdminCan(s, a, "change_info")
                    \/ MemberCan(s, a, "change_info")

MaySetPublic(s, a) == AdminCan(s, a, "change_info")
SetPublic(s, secret) == [s EXCEPT !.public = secret,
                                  !.stale = @ \/ s.public # secret]

MaySetPrivate(s, a) == AdminCan(s, a, "change_info") /\ s.public # "private"
SetPrivate(s) == Stale([s EXCEPT !.public = "private"])

MaySetPermissions(s, a) == AdminCan(s, a, "ban_users")
SetPermissions(s, perms) == Stale([s EXCEPT !.perms = perms])

MayDeleteGroup(s, a) == IsOwner(s, a)
DeleteGroup(s) == [s EXCEPT !.deleted = TRUE]

\* NewEpoch: the next epoch, with a send key of its own.
MayNewEpoch(s, a) == IsAdmin(s, a)
NewEpoch(s) == [s EXCEPT !.epoch = @ + 1, !.stale = FALSE]

-----------------------------------------------------------------------------
(* Invite links                                                            *)

Active(s) == {l \in Links : s.link[l].status = "active"}
Revoked(s) == {l \in Links : s.link[l].status = "revoked"}

\* A slip: only active links are known.
MayInviteKeyAgain(s, a, l) ==
  /\ AdminCan(s, a, "invite_users") \/ MemberCan(s, a, "invite_users")
  /\ l \notin Active(s)

MayInviteKey(s, a, l) ==
  /\ AdminCan(s, a, "invite_users") \/ MemberCan(s, a, "invite_users")
  /\ l \notin Active(s) \cup Revoked(s)

InviteKey(s, a, l, approval, limit) ==
  [s EXCEPT !.link[l] = [status |-> "active", creator |-> a,
                         approval |-> approval, limit |-> limit, uses |-> 0]]

\* Revoking and editing: an admin with the right, or who announced the link.
MayEditLink(s, a, l) ==
  /\ l \in Active(s)
  /\ AdminCan(s, a, "invite_users") \/ s.link[l].creator = a

\* InviteKeyRevoke: remembered while there is room.
RevokeLink(s, l) ==
  IF Cardinality(Revoked(s)) < MAX_REVOKED_LINKS
  THEN [s EXCEPT !.link[l].status = "revoked"]
  ELSE [s EXCEPT !.link[l] = NoLink]

EditLink(s, l, limit) == [s EXCEPT !.link[l].limit = limit]

\* JoinByInvite through a link; a link that asks for approval is not enough.
MayJoin(s, a, l) ==
  /\ l \in Active(s)
  /\ ~s.link[l].approval
  /\ s.link[l].limit = 0 \/ s.link[l].uses < s.link[l].limit
  /\ a \notin Members(s)
  /\ a \notin s.banned
  /\ Cardinality(Members(s)) < MAX_MEMBERS

Join(s, a, l) == Stale(Comes(CountJoin(s, l), a))

\* JoinByInvite through the public link: the epoch stays.
MayJoinPublic(s, a) ==
  /\ s.public # "private"
  /\ a \notin Members(s)
  /\ a \notin s.banned
  /\ Cardinality(Members(s)) < MAX_MEMBERS

JoinPublic(s, a) == Comes(s, a)

-----------------------------------------------------------------------------
(* The frame of every entry                                                *)

\* An entry after the genesis: the group is not deleted, and the signer does
\* not refer to an older version of his device log than before (ENG-08).
MaySign(s, a, log) == ~s.deleted /\ log >= s.logs[a]

MaxLog(i, j) == IF i >= j THEN i ELSE j

\* A slip: a mark that is sent along replaces the one that was there.
MarksReplaced(s, t, a, log, floors) ==
  [u \in Users |->
     LET floor == IF /\ u = a \/ AdminCan(s, a, "ban_users")
                     /\ u \in Members(t)
                  THEN floors[u] ELSE s.logs[u]
     IN  MaxLog(floor, IF u = a THEN log ELSE 0)]

\* The marks of the device logs after the entry that takes s to t: the
\* signer's own, and those he set (floors) for himself or, as an admin of s,
\* for members of t.
Marks(s, t, a, log, floors) ==
  [u \in Users |->
     LET floor == IF /\ u = a \/ AdminCan(s, a, "ban_users")
                     /\ u \in Members(t)
                  THEN floors[u] ELSE 0
         own   == IF u = a THEN log ELSE 0
     IN  MaxLog(s.logs[u], MaxLog(floor, own))]

Signed(s, t, a, log, floors) == [t EXCEPT !.logs = Marks(s, t, a, log, floors)]
=============================================================================
