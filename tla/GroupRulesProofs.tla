-------------------------- MODULE GroupRulesProofs --------------------------
(***************************************************************************)
(* What the changes of module GroupRules do to the state of a group, as    *)
(* facts about values: each change leads from a state with a type to a     *)
(* state with a type, and from a sound group to a sound group.             *)
(***************************************************************************)
EXTENDS GroupRules, TLAPS

\* One owner, and it is the one the group names.
Owned(g) == \A u \in Users : g.role[u] = "owner" <=> u = g.owner

\* Nobody who is banned is a member, and only members are muted.
Apart(g) ==
  \A u \in Users : /\ u \in g.banned => g.role[u] = "none"
                   /\ u \in g.muted => g.role[u] # "none"

\* Rights are those handed out by owners, R; plain members have none.
Ranked(g, R) ==
  \A u \in Users : /\ g.role[u] = "admin" => g.rights[u] \subseteq R
                   /\ g.role[u] \in {"none", "member"} => g.rights[u] = {}

\* While the send key of the epoch is good, those who hold it, H, may write.
Keyed(g, H) ==
  ~g.stale /\ ~g.deleted /\ g.public = "private" => \A u \in H : CanWrite(g, u)

Sound(g, R, H) == Owned(g) /\ Apart(g) /\ Ranked(g, R) /\ Keyed(g, H)

-----------------------------------------------------------------------------
(* Types                                                                   *)

\* A member comes or goes: the record keeps its type.
LEMMA ComesGoesType ==
  ASSUME NEW g \in GroupStates, NEW m \in Users
  PROVE  Comes(g, m) \in GroupStates /\ Goes(g, m) \in GroupStates
  BY DEF Comes, Goes, GroupStates, Roles

\* An epoch may become stale in any state.
LEMMA StaleType ==
  ASSUME NEW g \in GroupStates
  PROVE  Stale(g) \in GroupStates
  BY DEF Stale, GroupStates

\* A link of the group is replaced.
LEMMA LinkType ==
  ASSUME NEW g \in GroupStates, NEW l \in Links,
         NEW x \in LinkInfo \cup {NoLink}
  PROVE  [g EXCEPT !.link = [g.link EXCEPT ![l] = x]] \in GroupStates
  <1>1. g.link \in [Links -> LinkInfo \cup {NoLink}]
    BY DEF GroupStates
  <1> DEFINE f == [g.link EXCEPT ![l] = x]
  <1>2. f \in [Links -> LinkInfo \cup {NoLink}]
    BY <1>1
  <1> HIDE DEF f
  <1>3. [g EXCEPT !.link = f] \in GroupStates
    BY <1>2 DEF GroupStates
  <1> QED
    BY <1>3 DEF f

\* An active link has the fields of InviteLink.
LEMMA ActiveLink ==
  ASSUME NEW g \in GroupStates, NEW l \in Links, g.link[l].status = "active"
  PROVE  g.link[l] \in LinkInfo
  BY DEF GroupStates, NoLink

\* note_join keeps the type of a state when the link is active.
LEMMA CountJoinType ==
  ASSUME NEW g \in GroupStates, NEW l \in Links, g.link[l].status = "active"
  PROVE  CountJoin(g, l) \in GroupStates
  <1> DEFINE x == [g.link[l] EXCEPT !.uses = @ + 1]
  <1>1. x \in LinkInfo
    BY ActiveLink DEF LinkInfo
  <1>2. CountJoin(g, l) = [g EXCEPT !.link = [g.link EXCEPT ![l] = x]]
    BY DEF CountJoin, GroupStates
  <1> HIDE DEF x
  <1> QED
    BY <1>1, <1>2, LinkType

\* Announcing, revoking and editing a link keep the type.
LEMMA LinkChangesType ==
  ASSUME NEW g \in GroupStates, NEW l \in Links, NEW a \in Users,
         NEW approval \in BOOLEAN, NEW limit \in 0..MaxLimit
  PROVE  /\ InviteKey(g, a, l, approval, limit) \in GroupStates
         /\ l \in Active(g) => /\ RevokeLink(g, l) \in GroupStates
                               /\ EditLink(g, l, limit) \in GroupStates
  <1>1. InviteKey(g, a, l, approval, limit) \in GroupStates
    <2> DEFINE x == [status |-> "active", creator |-> a, approval |-> approval,
                     limit |-> limit, uses |-> 0]
    <2>1. x \in LinkInfo
      BY DEF LinkInfo
    <2>2. InviteKey(g, a, l, approval, limit)
            = [g EXCEPT !.link = [g.link EXCEPT ![l] = x]]
      BY DEF InviteKey, GroupStates
    <2> HIDE DEF x
    <2> QED
      BY <2>1, <2>2, LinkType
  <1>2. ASSUME l \in Active(g)
        PROVE  RevokeLink(g, l) \in GroupStates
    <2>1. g.link[l] \in LinkInfo
      BY <1>2, ActiveLink DEF Active
    <2> DEFINE x == [g.link[l] EXCEPT !.status = "revoked"]
    <2>2. x \in LinkInfo
      BY <2>1 DEF LinkInfo
    <2>3. \/ RevokeLink(g, l) = [g EXCEPT !.link = [g.link EXCEPT ![l] = x]]
          \/ RevokeLink(g, l) = [g EXCEPT !.link = [g.link EXCEPT ![l] = NoLink]]
      BY DEF RevokeLink, GroupStates
    <2> HIDE DEF x
    <2> QED
      BY <2>2, <2>3, LinkType
  <1>3. ASSUME l \in Active(g)
        PROVE  EditLink(g, l, limit) \in GroupStates
    <2>1. g.link[l] \in LinkInfo
      BY <1>3, ActiveLink DEF Active
    <2> DEFINE x == [g.link[l] EXCEPT !.limit = limit]
    <2>2. x \in LinkInfo
      BY <2>1 DEF LinkInfo
    <2>3. EditLink(g, l, limit) = [g EXCEPT !.link = [g.link EXCEPT ![l] = x]]
      BY DEF EditLink, GroupStates
    <2> HIDE DEF x
    <2> QED
      BY <2>2, <2>3, LinkType
  <1> QED
    BY <1>1, <1>2, <1>3

\* Members and roles: every change keeps the type.
LEMMA MemberChangesType ==
  ASSUME NEW g \in GroupStates, NEW a \in Users, NEW m \in Users
  PROVE  /\ RemoveMember(g, m) \in GroupStates
         /\ TransferOwnership(g, a, m) \in GroupStates
         /\ Ban(g, m) \in GroupStates
         /\ Unban(g, m) \in GroupStates
         /\ \A on \in BOOLEAN : Mute(g, m, on) \in GroupStates
         /\ Leave(g, a) \in GroupStates
         /\ JoinPublic(g, a) \in GroupStates
         /\ \A role \in {"admin", "member"}, rights \in SUBSET Rights :
              SetRole(g, m, role, rights) \in GroupStates
  <1>1. RemoveMember(g, m) \in GroupStates /\ Leave(g, a) \in GroupStates
    BY ComesGoesType, StaleType DEF RemoveMember, Leave
  <1>2. TransferOwnership(g, a, m) \in GroupStates
    BY DEF TransferOwnership, GroupStates, Roles
  <1>3. Ban(g, m) \in GroupStates /\ Unban(g, m) \in GroupStates
    BY DEF Ban, Unban, Goes, Stale, GroupStates, Roles
  <1>4. \A on \in BOOLEAN : Mute(g, m, on) \in GroupStates
    BY DEF Mute, Stale, GroupStates
  <1>5. JoinPublic(g, a) \in GroupStates
    BY ComesGoesType DEF JoinPublic
  <1>6. \A role \in {"admin", "member"}, rights \in SUBSET Rights :
          SetRole(g, m, role, rights) \in GroupStates
    BY DEF SetRole, GroupStates, Roles
  <1> QED
    BY <1>1, <1>2, <1>3, <1>4, <1>5, <1>6

\* Changes of the group itself keep the type.
LEMMA GroupChangesType ==
  ASSUME NEW g \in GroupStates
  PROVE  /\ \A secret \in Secrets : SetPublic(g, secret) \in GroupStates
         /\ SetPrivate(g) \in GroupStates
         /\ \A perms \in SUBSET Permissions : SetPermissions(g, perms) \in GroupStates
         /\ DeleteGroup(g) \in GroupStates
         /\ NewEpoch(g) \in GroupStates
  <1>1. \A secret \in Secrets : SetPublic(g, secret) \in GroupStates
    BY DEF SetPublic, GroupStates
  <1>2. SetPrivate(g) \in GroupStates
    BY DEF SetPrivate, Stale, GroupStates
  <1>3. \A perms \in SUBSET Permissions : SetPermissions(g, perms) \in GroupStates
    BY DEF SetPermissions, Stale, GroupStates
  <1>4. DeleteGroup(g) \in GroupStates /\ NewEpoch(g) \in GroupStates
    <2>1. DeleteGroup(g) \in GroupStates
      BY DEF DeleteGroup, GroupStates
    <2>2. NewEpoch(g) \in GroupStates
      <3> DEFINE n == g.epoch + 1
      <3>1. n \in Nat
        BY DEF GroupStates
      <3>2. NewEpoch(g) = [g EXCEPT !.epoch = n, !.stale = FALSE]
        BY DEF NewEpoch, GroupStates
      <3> HIDE DEF n
      <3> QED
        BY <3>1, <3>2 DEF GroupStates
    <2> QED
      BY <2>1, <2>2
  <1> QED
    BY <1>1, <1>2, <1>3, <1>4

\* Joining through a link and being added, counted in a link or not.
LEMMA JoinType ==
  ASSUME NEW g \in GroupStates, NEW a \in Users, NEW m \in Users
  PROVE  /\ \A l \in Links : l \in Active(g) => Join(g, a, l) \in GroupStates
         /\ \A via \in {{}} \cup {{l} : l \in Links} :
              AddMember(g, a, m, via) \in GroupStates
  <1>1. ASSUME NEW l \in Links, l \in Active(g)
        PROVE  Join(g, a, l) \in GroupStates
    BY <1>1, CountJoinType, ComesGoesType, StaleType DEF Join, Active
  <1>2. ASSUME NEW via \in {{}} \cup {{l} : l \in Links}
        PROVE  AddMember(g, a, m, via) \in GroupStates
    <2>1. CASE CountsVia(g, a, via)
      <3>1. PICK l \in Links : via = {l}
        BY <1>2, <2>1 DEF CountsVia
      <3>2. (CHOOSE k \in via : TRUE) = l /\ g.link[l].status = "active"
        BY <2>1, <3>1 DEF CountsVia
      <3> QED
        BY <2>1, <3>2, CountJoinType, ComesGoesType, StaleType DEF AddMember
    <2>2. CASE ~CountsVia(g, a, via)
      BY <2>2, ComesGoesType, StaleType DEF AddMember
    <2> QED
      BY <2>1, <2>2
  <1> QED
    BY <1>1, <1>2

\* A change of address keeps the type.
LEMMA RenameType ==
  ASSUME NEW g \in GroupStates, NEW a \in Users, NEW old \in Users
  PROVE  RenameMember(g, a, old) \in GroupStates
  <1> DEFINE f == MoveLinks(g, a, old)
  <1>1. ASSUME NEW l \in Links
        PROVE  f[l] \in LinkInfo \cup {NoLink}
    <2>1. g.link[l] \in LinkInfo \cup {NoLink}
      BY DEF GroupStates
    <2>2. g.link[l].status = "active" =>
            [g.link[l] EXCEPT !.creator = a] \in LinkInfo
      BY ActiveLink DEF LinkInfo
    <2> QED
      BY <2>1, <2>2 DEF MoveLinks
  <1>2. f \in [Links -> LinkInfo \cup {NoLink}]
    BY <1>1 DEF MoveLinks
  <1> DEFINE q == [[g.role EXCEPT ![a] = g.role[old]] EXCEPT ![old] = "none"]
             r == [[g.rights EXCEPT ![a] = g.rights[old]] EXCEPT ![old] = {}]
             x == IF old \in g.muted THEN (g.muted \ {old}) \cup {a} ELSE g.muted
             o == IF g.owner = old THEN a ELSE g.owner
  <1>3. RenameMember(g, a, old) = [g EXCEPT !.role = q, !.rights = r,
                                            !.muted = x, !.owner = o, !.link = f]
    BY DEF RenameMember, GroupStates
  <1>4. /\ q \in [Users -> Roles]
        /\ r \in [Users -> SUBSET Rights]
        /\ x \in SUBSET Users
        /\ o \in Users
    BY DEF GroupStates, Roles
  <1> HIDE DEF f, q, r, x, o
  <1> QED
    BY <1>2, <1>3, <1>4 DEF GroupStates

\* The genesis has the type of a state.
LEMMA GenesisType ==
  ASSUME NEW a \in Users, NEW invited \in SUBSET Users,
         NEW kind \in {"group", "channel"}, NEW perms \in SUBSET Permissions,
         NEW log \in LogVersions
  PROVE  Genesis(a, invited, kind, perms, log) \in GroupStates
  BY RulesAssumption DEF Genesis, GroupStates, Roles, LogVersions

-----------------------------------------------------------------------------
(* Soundness                                                               *)

\* RemoveMember.
LEMMA RemoveSound ==
  ASSUME NEW g \in GroupStates, NEW R \in SUBSET Rights, NEW H \in SUBSET Users,
         Sound(g, R, H),
         NEW a \in Users, NEW m \in Users,
         MayRemoveMember(g, a, m)
  PROVE  Sound(RemoveMember(g, m), R, H)
  <1> DEFINE t == RemoveMember(g, m)
  <1>1. Owned(t)
    BY DEF Sound, Owned, RemoveMember, Goes, Stale, MayRemoveMember, Outranks,
           GroupStates, Roles
  <1>2. Apart(t)
    BY DEF Sound, Apart, RemoveMember, Goes, Stale, MayRemoveMember, Outranks,
           GroupStates, Roles
  <1>3. Ranked(t, R)
    BY DEF Sound, Ranked, RemoveMember, Goes, Stale, MayRemoveMember,
           Outranks, GroupStates, Roles
  <1>4. Keyed(t, H)
    BY DEF Sound, Keyed, RemoveMember, Goes, Stale, CanWrite, IsAdmin,
           IsOwner, MayRemoveMember, Outranks, GroupStates, Roles
  <1> QED
    BY <1>1, <1>2, <1>3, <1>4 DEF Sound

\* Leave.
LEMMA LeaveSound ==
  ASSUME NEW g \in GroupStates, NEW R \in SUBSET Rights, NEW H \in SUBSET Users,
         Sound(g, R, H),
         NEW a \in Users,
         MayLeave(g, a)
  PROVE  Sound(Leave(g, a), R, H)
  <1> DEFINE t == Leave(g, a)
  <1>1. Owned(t)
    BY DEF Sound, Owned, Leave, Goes, Stale, MayLeave, GroupStates, Roles
  <1>2. Apart(t)
    BY DEF Sound, Apart, Leave, Goes, Stale, MayLeave, GroupStates, Roles
  <1>3. Ranked(t, R)
    BY DEF Sound, Ranked, Leave, Goes, Stale, MayLeave, GroupStates, Roles
  <1>4. Keyed(t, H)
    BY DEF Sound, Keyed, Leave, Goes, Stale, CanWrite, IsAdmin, IsOwner,
           MayLeave, GroupStates, Roles
  <1> QED
    BY <1>1, <1>2, <1>3, <1>4 DEF Sound

\* Ban.
LEMMA BanSound ==
  ASSUME NEW g \in GroupStates, NEW R \in SUBSET Rights, NEW H \in SUBSET Users,
         Sound(g, R, H),
         NEW a \in Users, NEW m \in Users,
         MayBan(g, a, m)
  PROVE  Sound(Ban(g, m), R, H)
  <1> DEFINE t == Ban(g, m)
  <1>1. Owned(t)
    BY DEF Sound, Owned, Ban, Goes, Stale, MayBan, Outranks, GroupStates, Roles
  <1>2. Apart(t)
    BY DEF Sound, Apart, Ban, Goes, Stale, MayBan, Outranks, GroupStates, Roles
  <1>3. Ranked(t, R)
    BY DEF Sound, Ranked, Ban, Goes, Stale, MayBan, Outranks, GroupStates,
           Roles
  <1>4. Keyed(t, H)
    BY DEF Sound, Keyed, Ban, Goes, Stale, CanWrite, IsAdmin, IsOwner, MayBan,
           Outranks, GroupStates, Roles
  <1> QED
    BY <1>1, <1>2, <1>3, <1>4 DEF Sound

\* Unban.
LEMMA UnbanSound ==
  ASSUME NEW g \in GroupStates, NEW R \in SUBSET Rights, NEW H \in SUBSET Users,
         Sound(g, R, H),
         NEW m \in Users
  PROVE  Sound(Unban(g, m), R, H)
  <1> DEFINE t == Unban(g, m)
  <1>1. Owned(t)
    BY DEF Sound, Owned, Unban, GroupStates, Roles
  <1>2. Apart(t)
    BY DEF Sound, Apart, Unban, GroupStates, Roles
  <1>3. Ranked(t, R)
    BY DEF Sound, Ranked, Unban, GroupStates, Roles
  <1>4. Keyed(t, H)
    BY DEF Sound, Keyed, Unban, CanWrite, IsAdmin, IsOwner, GroupStates, Roles
  <1> QED
    BY <1>1, <1>2, <1>3, <1>4 DEF Sound

\* Mute.
LEMMA MuteSound ==
  ASSUME NEW g \in GroupStates, NEW R \in SUBSET Rights, NEW H \in SUBSET Users,
         Sound(g, R, H),
         NEW a \in Users, NEW m \in Users, NEW on \in BOOLEAN,
         MayMute(g, a, m)
  PROVE  Sound(Mute(g, m, on), R, H)
  <1> DEFINE t == Mute(g, m, on)
  <1>1. Owned(t)
    BY DEF Sound, Owned, Mute, Stale, MayMute, Members, GroupStates, Roles
  <1>2. Apart(t)
    BY DEF Sound, Apart, Mute, Stale, MayMute, Members, GroupStates, Roles
  <1>3. Ranked(t, R)
    BY DEF Sound, Ranked, Mute, Stale, MayMute, Members, GroupStates, Roles
  <1>4. Keyed(t, H)
    BY DEF Sound, Keyed, Mute, Stale, CanWrite, IsAdmin, IsOwner, MayMute,
           Members, GroupStates, Roles
  <1> QED
    BY <1>1, <1>2, <1>3, <1>4 DEF Sound

\* The group changes hands.
LEMMA TransferSound ==
  ASSUME NEW g \in GroupStates, NEW R \in SUBSET Rights, NEW H \in SUBSET Users,
         Sound(g, R, H),
         NEW a \in Users, NEW m \in Users,
         MayTransferOwnership(g, a, m)
  PROVE  Sound(TransferOwnership(g, a, m), Rights, H)
  <1> DEFINE t == TransferOwnership(g, a, m)
  <1>1. Owned(t)
    BY DEF Sound, Owned, TransferOwnership, MayTransferOwnership, Members,
           IsOwner, GroupStates, Roles
  <1>2. Apart(t)
    BY DEF Sound, Apart, TransferOwnership, MayTransferOwnership, Members,
           IsOwner, GroupStates, Roles
  <1>3. Ranked(t, Rights)
    BY DEF Sound, Ranked, TransferOwnership, MayTransferOwnership, Members,
           IsOwner, GroupStates, Roles
  <1>4. Keyed(t, H)
    BY DEF Sound, Keyed, TransferOwnership, CanWrite, IsAdmin, IsOwner,
           MayTransferOwnership, Members, GroupStates, Roles
  <1> QED
    BY <1>1, <1>2, <1>3, <1>4 DEF Sound

\* SetRole: an owner adds to what was handed out, an admin stays within it.
LEMMA SetRoleSound ==
  ASSUME NEW g \in GroupStates, NEW R \in SUBSET Rights, NEW H \in SUBSET Users,
         Sound(g, R, H),
         NEW a \in Users, NEW m \in Users,
         NEW role \in {"admin", "member"}, NEW rights \in SUBSET Rights, NEW R2 \in SUBSET Rights,
         R \subseteq R2, IsOwner(g, a) /\ role = "admin" => rights \subseteq R2,
         MaySetRole(g, a, m, role, rights)
  PROVE  Sound(SetRole(g, m, role, rights), R2, H)
  <1> DEFINE t == SetRole(g, m, role, rights)
  <1>1. Owned(t)
    BY DEF Sound, Owned, SetRole, MaySetRole, Members, AdminCan, IsOwner,
           GroupStates, Roles
  <1>2. Apart(t)
    BY DEF Sound, Apart, SetRole, MaySetRole, Members, AdminCan, IsOwner,
           GroupStates, Roles
  <1>3. Ranked(t, R2)
    BY DEF Sound, Ranked, SetRole, MaySetRole, Members, AdminCan, IsOwner,
           GroupStates, Roles
  <1>4. Keyed(t, H)
    BY DEF Sound, Keyed, SetRole, CanWrite, IsAdmin, IsOwner, MaySetRole,
           Members, AdminCan, GroupStates, Roles
  <1> QED
    BY <1>1, <1>2, <1>3, <1>4 DEF Sound

\* A change of address; whoever held the key holds it under the new one.
LEMMA RenameSound ==
  ASSUME NEW g \in GroupStates, NEW R \in SUBSET Rights, NEW H \in SUBSET Users,
         Sound(g, R, H),
         NEW a \in Users, NEW old \in Users,
         MayRenameMember(g, a, old)
  PROVE  Sound(RenameMember(g, a, old), R, IF old \in H THEN (H \ {old}) \cup {a} ELSE H)
  <1> DEFINE t == RenameMember(g, a, old)
  <1>1. Owned(t)
    BY DEF Sound, Owned, RenameMember, MayRenameMember, Members, GroupStates,
           Roles
  <1>2. Apart(t)
    BY DEF Sound, Apart, RenameMember, MayRenameMember, Members, GroupStates,
           Roles
  <1>3. Ranked(t, R)
    BY DEF Sound, Ranked, RenameMember, MayRenameMember, Members, GroupStates,
           Roles
  <1>4. Keyed(t, IF old \in H THEN (H \ {old}) \cup {a} ELSE H)
    <2> SUFFICES ASSUME ~t.stale, ~t.deleted, t.public = "private",
                        NEW u \in IF old \in H THEN (H \ {old}) \cup {a} ELSE H
                 PROVE  CanWrite(t, u)
      BY DEF Keyed
    <2>1. /\ g.role[a] = "none" /\ a \notin g.banned /\ a \notin g.muted
          /\ g.role[old] # "none" /\ a # old
      BY DEF MayRenameMember, Members, Sound, Apart
    <2>2. /\ t.stale = g.stale /\ t.deleted = g.deleted /\ t.public = g.public
          /\ t.kind = g.kind /\ t.perms = g.perms /\ t.banned = g.banned
          /\ t.owner = IF g.owner = old THEN a ELSE g.owner
          /\ t.muted = IF old \in g.muted THEN (g.muted \ {old}) \cup {a}
                       ELSE g.muted
      BY DEF RenameMember, GroupStates
    <2>3. /\ t.role[a] = g.role[old]
          /\ \A v \in Users : v # a /\ v # old => t.role[v] = g.role[v]
      BY <2>1 DEF RenameMember, GroupStates
    <2>4. \A v \in H : CanWrite(g, v)
      BY <2>2 DEF Sound, Keyed
    <2> HIDE DEF t
    <2>5. CASE u = a
      <3>1. old \in H
        BY <2>1, <2>4, <2>5 DEF CanWrite
      <3>2. CanWrite(g, old)
        BY <2>4, <3>1
      <3> QED
        BY <2>1, <2>2, <2>3, <2>5, <3>2 DEF CanWrite, IsAdmin, IsOwner
    <2>6. CASE u # a
      <3>1. u \in H /\ CanWrite(g, u)
        BY <2>4, <2>6
      <3>2. u # old
        BY <2>6
      <3> QED
        BY <2>1, <2>2, <2>3, <2>6, <3>1, <3>2 DEF CanWrite, IsAdmin, IsOwner
    <2> QED
      BY <2>5, <2>6
  <1> QED
    BY <1>1, <1>2, <1>3, <1>4 DEF Sound

\* JoinByInvite through the public link.
LEMMA JoinPublicSound ==
  ASSUME NEW g \in GroupStates, NEW R \in SUBSET Rights, NEW H \in SUBSET Users,
         Sound(g, R, H),
         NEW a \in Users,
         MayJoinPublic(g, a)
  PROVE  Sound(JoinPublic(g, a), R, H)
  <1> DEFINE t == JoinPublic(g, a)
  <1>1. Owned(t)
    BY DEF Sound, Owned, JoinPublic, Comes, MayJoinPublic, Members,
           GroupStates, Roles
  <1>2. Apart(t)
    BY DEF Sound, Apart, JoinPublic, Comes, MayJoinPublic, Members,
           GroupStates, Roles
  <1>3. Ranked(t, R)
    BY DEF Sound, Ranked, JoinPublic, Comes, MayJoinPublic, Members,
           GroupStates, Roles
  <1>4. Keyed(t, H)
    BY DEF Sound, Keyed, JoinPublic, Comes, CanWrite, IsAdmin, IsOwner,
           MayJoinPublic, Members, GroupStates, Roles
  <1> QED
    BY <1>1, <1>2, <1>3, <1>4 DEF Sound

\* SetPublic.
LEMMA SetPublicSound ==
  ASSUME NEW g \in GroupStates, NEW R \in SUBSET Rights, NEW H \in SUBSET Users,
         Sound(g, R, H),
         NEW secret \in Secrets
  PROVE  Sound(SetPublic(g, secret), R, H)
  <1> DEFINE t == SetPublic(g, secret)
  <1>1. Owned(t)
    BY DEF Sound, Owned, SetPublic, GroupStates, Roles
  <1>2. Apart(t)
    BY DEF Sound, Apart, SetPublic, GroupStates, Roles
  <1>3. Ranked(t, R)
    BY DEF Sound, Ranked, SetPublic, GroupStates, Roles
  <1>4. Keyed(t, H)
    BY DEF Sound, Keyed, SetPublic, CanWrite, IsAdmin, IsOwner, GroupStates,
           Roles
  <1> QED
    BY <1>1, <1>2, <1>3, <1>4 DEF Sound

\* SetPublic, back to private.
LEMMA SetPrivateSound ==
  ASSUME NEW g \in GroupStates, NEW R \in SUBSET Rights, NEW H \in SUBSET Users,
         Sound(g, R, H)
  PROVE  Sound(SetPrivate(g), R, H)
  <1> DEFINE t == SetPrivate(g)
  <1>1. Owned(t)
    BY DEF Sound, Owned, SetPrivate, Stale, GroupStates, Roles
  <1>2. Apart(t)
    BY DEF Sound, Apart, SetPrivate, Stale, GroupStates, Roles
  <1>3. Ranked(t, R)
    BY DEF Sound, Ranked, SetPrivate, Stale, GroupStates, Roles
  <1>4. Keyed(t, H)
    BY DEF Sound, Keyed, SetPrivate, Stale, CanWrite, IsAdmin, IsOwner,
           GroupStates, Roles
  <1> QED
    BY <1>1, <1>2, <1>3, <1>4 DEF Sound

\* SetPermissions.
LEMMA SetPermissionsSound ==
  ASSUME NEW g \in GroupStates, NEW R \in SUBSET Rights, NEW H \in SUBSET Users,
         Sound(g, R, H),
         NEW perms \in SUBSET Permissions
  PROVE  Sound(SetPermissions(g, perms), R, H)
  <1> DEFINE t == SetPermissions(g, perms)
  <1>1. Owned(t)
    BY DEF Sound, Owned, SetPermissions, Stale, GroupStates, Roles
  <1>2. Apart(t)
    BY DEF Sound, Apart, SetPermissions, Stale, GroupStates, Roles
  <1>3. Ranked(t, R)
    BY DEF Sound, Ranked, SetPermissions, Stale, GroupStates, Roles
  <1>4. Keyed(t, H)
    BY DEF Sound, Keyed, SetPermissions, Stale, CanWrite, IsAdmin, IsOwner,
           GroupStates, Roles
  <1> QED
    BY <1>1, <1>2, <1>3, <1>4 DEF Sound

\* DeleteGroup.
LEMMA DeleteSound ==
  ASSUME NEW g \in GroupStates, NEW R \in SUBSET Rights, NEW H \in SUBSET Users,
         Sound(g, R, H)
  PROVE  Sound(DeleteGroup(g), R, H)
  <1> DEFINE t == DeleteGroup(g)
  <1>1. Owned(t)
    BY DEF Sound, Owned, DeleteGroup, GroupStates, Roles
  <1>2. Apart(t)
    BY DEF Sound, Apart, DeleteGroup, GroupStates, Roles
  <1>3. Ranked(t, R)
    BY DEF Sound, Ranked, DeleteGroup, GroupStates, Roles
  <1>4. Keyed(t, H)
    BY DEF Sound, Keyed, DeleteGroup, CanWrite, IsAdmin, IsOwner, GroupStates,
           Roles
  <1> QED
    BY <1>1, <1>2, <1>3, <1>4 DEF Sound

\* What does not change who may do what keeps a group sound.
LEMMA SameSound ==
  ASSUME NEW g \in GroupStates, NEW R \in SUBSET Rights, NEW H \in SUBSET Users,
         Sound(g, R, H), NEW t \in GroupStates,
         t.kind = g.kind, t.perms = g.perms, t.owner = g.owner,
         t.role = g.role, t.rights = g.rights, t.muted = g.muted,
         t.banned = g.banned, t.stale = g.stale, t.public = g.public,
         t.deleted = g.deleted
  PROVE  Sound(t, R, H)
  <1>1. Owned(t) /\ Apart(t) /\ Ranked(t, R)
    BY DEF Sound, Owned, Apart, Ranked
  <1>2. Keyed(t, H)
    BY DEF Sound, Keyed, CanWrite, IsAdmin, IsOwner
  <1> QED
    BY <1>1, <1>2 DEF Sound

\* The changes of links and the marks of device logs are of that kind.
LEMMA LinksSound ==
  ASSUME NEW g \in GroupStates, NEW R \in SUBSET Rights, NEW H \in SUBSET Users,
         Sound(g, R, H), NEW l \in Links, NEW a \in Users,
         NEW approval \in BOOLEAN, NEW limit \in 0..MaxLimit
  PROVE  /\ Sound(InviteKey(g, a, l, approval, limit), R, H)
         /\ l \in Active(g) => /\ Sound(RevokeLink(g, l), R, H)
                               /\ Sound(EditLink(g, l, limit), R, H)
  <1>1. Sound(InviteKey(g, a, l, approval, limit), R, H)
    <2> DEFINE t == InviteKey(g, a, l, approval, limit)
    <2>1. t \in GroupStates
      BY LinkChangesType
    <2>2. /\ t.kind = g.kind /\ t.perms = g.perms /\ t.owner = g.owner
          /\ t.role = g.role /\ t.rights = g.rights /\ t.muted = g.muted
          /\ t.banned = g.banned /\ t.stale = g.stale /\ t.public = g.public
          /\ t.deleted = g.deleted
      BY DEF InviteKey, GroupStates
    <2> HIDE DEF t
    <2>3. Sound(t, R, H)
      BY <2>1, <2>2, SameSound
    <2> QED
      BY <2>3 DEF t
  <1>2. ASSUME l \in Active(g)
        PROVE  Sound(RevokeLink(g, l), R, H)
    <2> DEFINE t == RevokeLink(g, l)
    <2>1. t \in GroupStates
      BY <1>2, LinkChangesType
    <2>2. /\ t.kind = g.kind /\ t.perms = g.perms /\ t.owner = g.owner
          /\ t.role = g.role /\ t.rights = g.rights /\ t.muted = g.muted
          /\ t.banned = g.banned /\ t.stale = g.stale /\ t.public = g.public
          /\ t.deleted = g.deleted
      BY DEF RevokeLink, GroupStates
    <2> HIDE DEF t
    <2>3. Sound(t, R, H)
      BY <2>1, <2>2, SameSound
    <2> QED
      BY <2>3 DEF t
  <1>3. ASSUME l \in Active(g)
        PROVE  Sound(EditLink(g, l, limit), R, H)
    <2> DEFINE t == EditLink(g, l, limit)
    <2>1. t \in GroupStates
      BY <1>3, LinkChangesType
    <2>2. /\ t.kind = g.kind /\ t.perms = g.perms /\ t.owner = g.owner
          /\ t.role = g.role /\ t.rights = g.rights /\ t.muted = g.muted
          /\ t.banned = g.banned /\ t.stale = g.stale /\ t.public = g.public
          /\ t.deleted = g.deleted
      BY DEF EditLink, GroupStates
    <2> HIDE DEF t
    <2>3. Sound(t, R, H)
      BY <2>1, <2>2, SameSound
    <2> QED
      BY <2>3 DEF t
  <1> QED
    BY <1>1, <1>2, <1>3

\* The marks of the device logs after an entry: typed, and no other change.
LEMMA SignedSound ==
  ASSUME NEW g \in GroupStates, NEW t \in GroupStates, NEW a \in Users,
         NEW log \in LogVersions, NEW floors \in [Users -> LogVersions]
  PROVE  /\ Signed(g, t, a, log, floors) \in GroupStates
         /\ \A R \in SUBSET Rights, H \in SUBSET Users :
              Sound(t, R, H) => Sound(Signed(g, t, a, log, floors), R, H)
         /\ \A u \in Users : Signed(g, t, a, log, floors).logs[u] >= g.logs[u]
  <1> DEFINE f == Marks(g, t, a, log, floors)
             z == Signed(g, t, a, log, floors)
  <1>1. ASSUME NEW u \in Users
        PROVE  f[u] \in LogVersions /\ f[u] >= g.logs[u]
    <2>1. g.logs[u] \in LogVersions /\ floors[u] \in LogVersions /\ 0 \in LogVersions
      BY RulesAssumption DEF GroupStates, LogVersions
    <2> DEFINE floor == IF /\ u = a \/ AdminCan(g, a, "ban_users")
                           /\ u \in Members(t)
                        THEN floors[u] ELSE 0
               own == IF u = a THEN log ELSE 0
    <2>2. f[u] = MaxLog(g.logs[u], MaxLog(floor, own))
      BY DEF Marks
    <2>3. floor \in LogVersions /\ own \in LogVersions
      BY <2>1
    <2> HIDE DEF f, floor, own
    <2>4. MaxLog(floor, own) \in LogVersions
      BY <2>3 DEF MaxLog
    <2> QED
      BY <2>1, <2>2, <2>4 DEF MaxLog, LogVersions
  <1>2. f \in [Users -> LogVersions]
    BY <1>1 DEF Marks
  <1>3. z = [t EXCEPT !.logs = f]
    BY DEF Signed
  <1> HIDE DEF f, z
  <1>4. z \in GroupStates
    BY <1>2, <1>3 DEF GroupStates
  <1>5. /\ z.kind = t.kind /\ z.perms = t.perms /\ z.owner = t.owner
        /\ z.role = t.role /\ z.rights = t.rights /\ z.muted = t.muted
        /\ z.banned = t.banned /\ z.stale = t.stale /\ z.public = t.public
        /\ z.deleted = t.deleted /\ z.logs = f
    BY <1>3 DEF GroupStates
  <1>6. ASSUME NEW R \in SUBSET Rights, NEW H \in SUBSET Users, Sound(t, R, H)
        PROVE  Sound(z, R, H)
    BY <1>4, <1>5, <1>6, SameSound
  <1> QED
    BY <1>1, <1>4, <1>5, <1>6 DEF z

\* A newcomer, and with him the need of a new epoch.
LEMMA ComesSound ==
  ASSUME NEW g \in GroupStates, NEW R \in SUBSET Rights, NEW H \in SUBSET Users,
         Sound(g, R, H), NEW m \in Users, m \notin Members(g), m \notin g.banned
  PROVE  Sound(Stale(Comes(g, m)), R, H)
  <1> DEFINE t == Stale(Comes(g, m))
  <1>1. Owned(t)
    BY DEF Sound, Owned, Comes, Stale, Members, GroupStates, Roles
  <1>2. Apart(t)
    BY DEF Sound, Apart, Comes, Stale, Members, GroupStates, Roles
  <1>3. Ranked(t, R)
    BY DEF Sound, Ranked, Comes, Stale, GroupStates, Roles
  <1>4. Keyed(t, H)
    BY DEF Keyed, Comes, Stale, GroupStates
  <1> QED
    BY <1>1, <1>2, <1>3, <1>4 DEF Sound

\* note_join keeps the type and the soundness, and touches nobody's membership.
LEMMA CountJoinSound ==
  ASSUME NEW g \in GroupStates, NEW R \in SUBSET Rights, NEW H \in SUBSET Users,
         Sound(g, R, H), NEW l \in Links, l \in Active(g)
  PROVE  /\ CountJoin(g, l) \in GroupStates
         /\ Sound(CountJoin(g, l), R, H)
         /\ Members(CountJoin(g, l)) = Members(g)
         /\ CountJoin(g, l).banned = g.banned
  <1> DEFINE t == CountJoin(g, l)
  <1>1. t \in GroupStates
    BY CountJoinType DEF Active
  <1>2. /\ t.kind = g.kind /\ t.perms = g.perms /\ t.owner = g.owner
        /\ t.role = g.role /\ t.rights = g.rights /\ t.muted = g.muted
        /\ t.banned = g.banned /\ t.stale = g.stale /\ t.public = g.public
        /\ t.deleted = g.deleted
    BY DEF CountJoin, GroupStates
  <1> HIDE DEF t
  <1>3. Sound(t, R, H) /\ Members(t) = Members(g)
    BY <1>1, <1>2, SameSound DEF Members
  <1> QED
    BY <1>1, <1>2, <1>3 DEF t

\* AddMember and JoinByInvite through a link.
LEMMA JoinSound ==
  ASSUME NEW g \in GroupStates, NEW R \in SUBSET Rights, NEW H \in SUBSET Users,
         Sound(g, R, H), NEW a \in Users, NEW m \in Users
  PROVE  /\ \A l \in Links : MayJoin(g, a, l) => Sound(Join(g, a, l), R, H)
         /\ \A via \in {{}} \cup {{l} : l \in Links} :
              MayAddMember(g, a, m) => Sound(AddMember(g, a, m, via), R, H)
  <1>1. ASSUME NEW l \in Links, MayJoin(g, a, l)
        PROVE  Sound(Join(g, a, l), R, H)
    <2>1. l \in Active(g) /\ a \notin Members(g) /\ a \notin g.banned
      BY <1>1 DEF MayJoin
    <2> QED
      BY <2>1, CountJoinSound, ComesSound DEF Join
  <1>2. ASSUME NEW via \in {{}} \cup {{l} : l \in Links}, MayAddMember(g, a, m)
        PROVE  Sound(AddMember(g, a, m, via), R, H)
    <2>0. m \notin Members(g) /\ m \notin g.banned
      BY <1>2 DEF MayAddMember
    <2>1. CASE CountsVia(g, a, via)
      <3>1. PICK l \in Links : via = {l}
        BY <1>2, <2>1 DEF CountsVia
      <3>2. (CHOOSE k \in via : TRUE) = l /\ l \in Active(g)
        BY <2>1, <3>1 DEF CountsVia, Active
      <3>3. AddMember(g, a, m, via) = Stale(Comes(CountJoin(g, l), m))
        BY <2>1, <3>2 DEF AddMember
      <3> QED
        BY <2>0, <3>2, <3>3, CountJoinSound, ComesSound
    <2>2. CASE ~CountsVia(g, a, via)
      BY <2>0, <2>2, ComesSound DEF AddMember
    <2> QED
      BY <2>1, <2>2
  <1> QED
    BY <1>1, <1>2

\* NewEpoch: the key goes to the writers of the moment, and in a public group
\* to everyone.
LEMMA NewEpochSound ==
  ASSUME NEW g \in GroupStates, NEW R \in SUBSET Rights, NEW H \in SUBSET Users,
         Sound(g, R, H)
  PROVE  /\ Sound(NewEpoch(g), R, Writers(NewEpoch(g)))
         /\ g.public # "private" => Sound(NewEpoch(g), R, Users)
  <1> DEFINE t == NewEpoch(g)
  <1>1. Owned(t) /\ Apart(t) /\ Ranked(t, R) /\ t.public = g.public
    BY DEF Sound, Owned, Apart, Ranked, NewEpoch, GroupStates
  <1>2. Keyed(t, Writers(t))
    BY DEF Keyed, Writers
  <1>3. g.public # "private" => Keyed(t, Users)
    BY <1>1 DEF Keyed
  <1> QED
    BY <1>1, <1>2, <1>3 DEF Sound

\* The mute of a member runs out.
LEMMA MuteEndsSound ==
  ASSUME NEW g \in GroupStates, NEW R \in SUBSET Rights, NEW H \in SUBSET Users,
         Sound(g, R, H), NEW m \in Users
  PROVE  /\ [g EXCEPT !.muted = @ \ {m}] \in GroupStates
         /\ Sound([g EXCEPT !.muted = @ \ {m}], R, H)
  <1> DEFINE t == [g EXCEPT !.muted = @ \ {m}]
  <1>1. t \in GroupStates
    BY DEF GroupStates
  <1>2. Owned(t) /\ Apart(t) /\ Ranked(t, R)
    BY DEF Sound, Owned, Apart, Ranked, GroupStates
  <1>3. Keyed(t, H)
    BY DEF Sound, Keyed, CanWrite, IsAdmin, IsOwner, GroupStates
  <1> QED
    BY <1>1, <1>2, <1>3 DEF Sound

\* A new group is sound: its owner has the rights, nobody has a key.
LEMMA GenesisSound ==
  ASSUME NEW a \in Users, NEW invited \in SUBSET Users,
         NEW kind \in {"group", "channel"}, NEW perms \in SUBSET Permissions,
         NEW log \in LogVersions
  PROVE  Sound(Genesis(a, invited, kind, perms, log), {}, {})
  <1> DEFINE t == Genesis(a, invited, kind, perms, log)
  <1>1. Owned(t) /\ Apart(t) /\ Ranked(t, {})
    BY DEF Owned, Apart, Ranked, Genesis
  <1>2. Keyed(t, {})
    BY DEF Keyed
  <1> QED
    BY <1>1, <1>2 DEF Sound
-----------------------------------------------------------------------------
(* Members and links                                                       *)

\* No change beside those of invite links makes or forgets one.
SameLinks(g, t) == Active(t) = Active(g) /\ Revoked(t) = Revoked(g)

\* The same table of links.
LEMMA SameTable ==
  ASSUME NEW g, NEW t, t.link = g.link
  PROVE  SameLinks(g, t)
  BY DEF SameLinks, Active, Revoked

\* The changes that let nobody in and touch no link.
LEMMA NobodyComes ==
  ASSUME NEW g \in GroupStates, NEW a \in Users, NEW m \in Users
  PROVE  /\ Members(RemoveMember(g, m)) \subseteq Members(g)
         /\ SameLinks(g, RemoveMember(g, m))
         /\ Members(Leave(g, a)) \subseteq Members(g)
         /\ SameLinks(g, Leave(g, a))
         /\ Members(Ban(g, m)) \subseteq Members(g)
         /\ SameLinks(g, Ban(g, m))
         /\ Members(Unban(g, m)) \subseteq Members(g)
         /\ SameLinks(g, Unban(g, m))
         /\ \A on \in BOOLEAN : /\ Members(Mute(g, m, on)) \subseteq Members(g)
                                /\ SameLinks(g, Mute(g, m, on))
  <1>1. Members(RemoveMember(g, m)) \subseteq Members(g) /\ RemoveMember(g, m).link = g.link
    BY DEF RemoveMember, Goes, Stale, Members, GroupStates
  <1>2. Members(Leave(g, a)) \subseteq Members(g) /\ Leave(g, a).link = g.link
    BY DEF Leave, Goes, Stale, Members, GroupStates
  <1>3. Members(Ban(g, m)) \subseteq Members(g) /\ Ban(g, m).link = g.link
    BY DEF Ban, Goes, Stale, Members, GroupStates
  <1>4. Members(Unban(g, m)) \subseteq Members(g) /\ Unban(g, m).link = g.link
    BY DEF Unban, Members, GroupStates
  <1>5. ASSUME NEW on \in BOOLEAN
        PROVE  Members(Mute(g, m, on)) \subseteq Members(g) /\ Mute(g, m, on).link = g.link
    BY DEF Mute, Stale, Members, GroupStates
  <1> QED
    BY <1>1, <1>2, <1>3, <1>4, <1>5, SameTable

\* Roles, permissions, epochs and the group itself: who is a member stays one.
LEMMA MembersStay ==
  ASSUME NEW g \in GroupStates, NEW a \in Users, NEW m \in Users
  PROVE  /\ MayTransferOwnership(g, a, m) =>
              /\ Members(TransferOwnership(g, a, m)) \subseteq Members(g)
              /\ SameLinks(g, TransferOwnership(g, a, m))
         /\ \A role \in {"admin", "member"}, rights \in SUBSET Rights :
              MaySetRole(g, a, m, role, rights) =>
                /\ Members(SetRole(g, m, role, rights)) \subseteq Members(g)
                /\ SameLinks(g, SetRole(g, m, role, rights))
         /\ \A secret \in Secrets : /\ Members(SetPublic(g, secret)) = Members(g)
                                    /\ SameLinks(g, SetPublic(g, secret))
         /\ Members(SetPrivate(g)) = Members(g) /\ SameLinks(g, SetPrivate(g))
         /\ \A perms \in SUBSET Permissions : /\ Members(SetPermissions(g, perms)) = Members(g)
                                              /\ SameLinks(g, SetPermissions(g, perms))
         /\ Members(DeleteGroup(g)) = Members(g) /\ SameLinks(g, DeleteGroup(g))
         /\ Members(NewEpoch(g)) = Members(g) /\ SameLinks(g, NewEpoch(g))
  <1>1. ASSUME MayTransferOwnership(g, a, m)
        PROVE  /\ Members(TransferOwnership(g, a, m)) \subseteq Members(g)
               /\ TransferOwnership(g, a, m).link = g.link
    BY <1>1 DEF MayTransferOwnership, TransferOwnership, IsOwner, Members, GroupStates
  <1>2. ASSUME NEW role \in {"admin", "member"}, NEW rights \in SUBSET Rights,
               MaySetRole(g, a, m, role, rights)
        PROVE  /\ Members(SetRole(g, m, role, rights)) \subseteq Members(g)
               /\ SetRole(g, m, role, rights).link = g.link
    BY <1>2 DEF MaySetRole, SetRole, Members, GroupStates
  <1>3. ASSUME NEW secret \in Secrets
        PROVE  Members(SetPublic(g, secret)) = Members(g) /\ SetPublic(g, secret).link = g.link
    BY DEF SetPublic, Members, GroupStates
  <1>4. Members(SetPrivate(g)) = Members(g) /\ SetPrivate(g).link = g.link
    BY DEF SetPrivate, Stale, Members, GroupStates
  <1>5. ASSUME NEW perms \in SUBSET Permissions
        PROVE  /\ Members(SetPermissions(g, perms)) = Members(g)
               /\ SetPermissions(g, perms).link = g.link
    BY DEF SetPermissions, Stale, Members, GroupStates
  <1>6. Members(DeleteGroup(g)) = Members(g) /\ DeleteGroup(g).link = g.link
    BY DEF DeleteGroup, Members, GroupStates
  <1>7. Members(NewEpoch(g)) = Members(g) /\ NewEpoch(g).link = g.link
    BY DEF NewEpoch, Members, GroupStates
  <1> QED
    BY <1>1, <1>2, <1>3, <1>4, <1>5, <1>6, <1>7, SameTable

\* note_join keeps the members and which links work.
LEMMA CountJoinShape ==
  ASSUME NEW g \in GroupStates, NEW l \in Links, l \in Active(g)
  PROVE  /\ CountJoin(g, l) \in GroupStates
         /\ Members(CountJoin(g, l)) = Members(g)
         /\ SameLinks(g, CountJoin(g, l))
  <1> DEFINE t == CountJoin(g, l)
             x == [g.link[l] EXCEPT !.uses = @ + 1]
  <1>1. t \in GroupStates
    BY CountJoinType DEF Active
  <1>2. t.role = g.role /\ t.link = [g.link EXCEPT ![l] = x]
    BY DEF CountJoin, GroupStates
  <1>3. x.status = g.link[l].status
    BY ActiveLink DEF LinkInfo, Active
  <1>4. g.link \in [Links -> LinkInfo \cup {NoLink}]
    BY DEF GroupStates
  <1> HIDE DEF t, x
  <1>5. \A k \in Links : t.link[k].status = g.link[k].status
    BY <1>2, <1>3, <1>4
  <1> QED
    BY <1>1, <1>2, <1>5 DEF t, SameLinks, Members, Active, Revoked

\* The ways in let one member in.
LEMMA OneComes ==
  ASSUME NEW g \in GroupStates, NEW a \in Users, NEW m \in Users
  PROVE  /\ Members(JoinPublic(g, a)) \subseteq Members(g) \cup {a}
         /\ SameLinks(g, JoinPublic(g, a))
         /\ \A l \in Links : l \in Active(g) =>
              /\ Members(Join(g, a, l)) \subseteq Members(g) \cup {a}
              /\ SameLinks(g, Join(g, a, l))
         /\ \A via \in {{}} \cup {{l} : l \in Links} :
              /\ Members(AddMember(g, a, m, via)) \subseteq Members(g) \cup {m}
              /\ SameLinks(g, AddMember(g, a, m, via))
  <1>1. ASSUME NEW h \in GroupStates, NEW u \in Users
        PROVE  /\ Members(Comes(h, u)) \subseteq Members(h) \cup {u}
               /\ Comes(h, u).link = h.link
               /\ Members(Stale(Comes(h, u))) \subseteq Members(h) \cup {u}
               /\ Stale(Comes(h, u)).link = h.link
    BY DEF Comes, Stale, Members, GroupStates
  <1>2. \A h \in GroupStates, u \in Users :
          SameLinks(h, Comes(h, u)) /\ SameLinks(h, Stale(Comes(h, u)))
    BY <1>1, SameTable
  <1>3. ASSUME NEW l \in Links, l \in Active(g), NEW u \in Users
        PROVE  /\ Members(Stale(Comes(CountJoin(g, l), u))) \subseteq Members(g) \cup {u}
               /\ SameLinks(g, Stale(Comes(CountJoin(g, l), u)))
    <2>1. /\ CountJoin(g, l) \in GroupStates /\ Members(CountJoin(g, l)) = Members(g)
          /\ SameLinks(g, CountJoin(g, l))
      BY <1>3, CountJoinShape
    <2>2. SameLinks(CountJoin(g, l), Stale(Comes(CountJoin(g, l), u)))
      BY <1>2, <2>1
    <2> QED
      BY <1>1, <2>1, <2>2 DEF SameLinks
  <1>4. ASSUME NEW via \in {{}} \cup {{l} : l \in Links}
        PROVE  /\ Members(AddMember(g, a, m, via)) \subseteq Members(g) \cup {m}
               /\ SameLinks(g, AddMember(g, a, m, via))
    <2>1. CASE CountsVia(g, a, via)
      <3>1. PICK l \in Links : via = {l}
        BY <1>4, <2>1 DEF CountsVia
      <3>2. (CHOOSE k \in via : TRUE) = l /\ l \in Active(g)
        BY <2>1, <3>1 DEF CountsVia, Active
      <3>3. AddMember(g, a, m, via) = Stale(Comes(CountJoin(g, l), m))
        BY <2>1, <3>2 DEF AddMember
      <3> QED
        BY <1>3, <3>2, <3>3
    <2>2. CASE ~CountsVia(g, a, via)
      BY <1>1, <1>2, <2>2 DEF AddMember
    <2> QED
      BY <2>1, <2>2
  <1> QED
    BY <1>1, <1>2, <1>3, <1>4 DEF JoinPublic, Join

\* A change of address: one comes, one goes.
LEMMA OneReplaced ==
  ASSUME NEW g \in GroupStates, NEW a \in Users, NEW old \in Users,
         MayRenameMember(g, a, old)
  PROVE  /\ Members(RenameMember(g, a, old)) \subseteq (Members(g) \ {old}) \cup {a}
         /\ SameLinks(g, RenameMember(g, a, old))
  <1> DEFINE t == RenameMember(g, a, old)
  <1>1. a # old
    BY DEF MayRenameMember
  <1>2. Members(t) \subseteq (Members(g) \ {old}) \cup {a}
    BY <1>1 DEF RenameMember, Members, GroupStates
  <1>3. t.link = MoveLinks(g, a, old)
    BY DEF RenameMember, GroupStates
  <1>4. \A l \in Links : MoveLinks(g, a, old)[l].status = g.link[l].status
    <2> SUFFICES ASSUME NEW l \in Links
                 PROVE  MoveLinks(g, a, old)[l].status = g.link[l].status
      OBVIOUS
    <2>1. CASE g.link[l].status = "active" /\ g.link[l].creator = old
      <3>1. g.link[l] \in LinkInfo
        BY <2>1, ActiveLink
      <3>2. MoveLinks(g, a, old)[l] = [g.link[l] EXCEPT !.creator = a]
        BY <2>1 DEF MoveLinks
      <3> QED
        BY <3>1, <3>2 DEF LinkInfo
    <2>2. CASE ~(g.link[l].status = "active" /\ g.link[l].creator = old)
      BY <2>2 DEF MoveLinks
    <2> QED
      BY <2>1, <2>2
  <1> HIDE DEF t
  <1>5. SameLinks(g, t)
    BY <1>3, <1>4 DEF SameLinks, Active, Revoked
  <1> QED
    BY <1>2, <1>5 DEF t

\* A link is announced; nobody comes or goes.
LEMMA InviteShape ==
  ASSUME NEW g \in GroupStates, NEW l \in Links, NEW a \in Users,
         NEW approval \in BOOLEAN, NEW limit \in 0..MaxLimit
  PROVE  /\ Members(InviteKey(g, a, l, approval, limit)) = Members(g)
         /\ Active(InviteKey(g, a, l, approval, limit)) = Active(g) \cup {l}
         /\ Revoked(InviteKey(g, a, l, approval, limit)) = Revoked(g) \ {l}
  <1>0. g.link \in [Links -> LinkInfo \cup {NoLink}]
    BY DEF GroupStates
  <1> DEFINE t == InviteKey(g, a, l, approval, limit)
             x == [status |-> "active", creator |-> a, approval |-> approval,
                   limit |-> limit, uses |-> 0]
  <1>1. t.role = g.role /\ t.link = [g.link EXCEPT ![l] = x]
    BY DEF InviteKey, GroupStates
  <1>2. x.status = "active"
    OBVIOUS
  <1> HIDE DEF t, x
  <1>3. \A k \in Links : t.link[k].status = IF k = l THEN "active" ELSE g.link[k].status
    BY <1>0, <1>1, <1>2
  <1>4. Active(t) = Active(g) \cup {l} /\ Revoked(t) = Revoked(g) \ {l} /\ Members(t) = Members(g)
    BY <1>1, <1>3 DEF Active, Revoked, Members
  <1> QED
    BY <1>4 DEF t

\* The limit of a link is edited: it works as before.
LEMMA EditShape ==
  ASSUME NEW g \in GroupStates, NEW l \in Links, l \in Active(g), NEW limit \in 0..MaxLimit
  PROVE  Members(EditLink(g, l, limit)) = Members(g) /\ SameLinks(g, EditLink(g, l, limit))
  <1>0. g.link \in [Links -> LinkInfo \cup {NoLink}]
    BY DEF GroupStates
  <1> DEFINE t == EditLink(g, l, limit)
             x == [g.link[l] EXCEPT !.limit = limit]
  <1>1. t.role = g.role /\ t.link = [g.link EXCEPT ![l] = x]
    BY DEF EditLink, GroupStates
  <1>2. x.status = g.link[l].status
    BY ActiveLink DEF LinkInfo, Active
  <1> HIDE DEF t, x
  <1>3. \A k \in Links : t.link[k].status = g.link[k].status
    BY <1>0, <1>1, <1>2
  <1>4. SameLinks(g, t) /\ Members(t) = Members(g)
    BY <1>1, <1>3 DEF SameLinks, Active, Revoked, Members
  <1> QED
    BY <1>4 DEF t

\* A link is revoked, and remembered while there is room.
LEMMA RevokeShape ==
  ASSUME NEW g \in GroupStates, NEW l \in Links, l \in Active(g)
  PROVE  /\ Members(RevokeLink(g, l)) = Members(g)
         /\ Active(RevokeLink(g, l)) = Active(g) \ {l}
         /\ Revoked(RevokeLink(g, l)) =
              IF Cardinality(Revoked(g)) < MAX_REVOKED_LINKS
              THEN Revoked(g) \cup {l} ELSE Revoked(g)
  <1>0. g.link \in [Links -> LinkInfo \cup {NoLink}]
    BY DEF GroupStates
  <1> DEFINE t == RevokeLink(g, l)
  <1>1. l \notin Revoked(g)
    BY DEF Active, Revoked
  <1>2. CASE Cardinality(Revoked(g)) < MAX_REVOKED_LINKS
    <2> DEFINE x == [g.link[l] EXCEPT !.status = "revoked"]
    <2>1. t.role = g.role /\ t.link = [g.link EXCEPT ![l] = x]
      BY <1>2 DEF RevokeLink, GroupStates
    <2>2. x.status = "revoked"
      BY ActiveLink DEF LinkInfo, Active
    <2> HIDE DEF t, x
    <2>3. \A k \in Links : t.link[k].status = IF k = l THEN "revoked" ELSE g.link[k].status
      BY <1>0, <2>1, <2>2
    <2>4. Active(t) = Active(g) \ {l} /\ Revoked(t) = Revoked(g) \cup {l} /\ Members(t) = Members(g)
      BY <2>1, <2>3 DEF Active, Revoked, Members
    <2> QED
      BY <1>2, <2>4 DEF t
  <1>3. CASE ~(Cardinality(Revoked(g)) < MAX_REVOKED_LINKS)
    <2>1. t.role = g.role /\ t.link = [g.link EXCEPT ![l] = NoLink]
      BY <1>3 DEF RevokeLink, GroupStates
    <2>2. NoLink.status = "gone"
      BY DEF NoLink
    <2> HIDE DEF t
    <2>3. \A k \in Links : t.link[k].status = IF k = l THEN "gone" ELSE g.link[k].status
      BY <1>0, <2>1, <2>2
    <2>4. Active(t) = Active(g) \ {l} /\ Revoked(t) = Revoked(g) /\ Members(t) = Members(g)
      BY <1>1, <2>1, <2>3 DEF Active, Revoked, Members
    <2> QED
      BY <1>3, <2>4 DEF t
  <1> QED
    BY <1>2, <1>3

\* The marks of the device logs concern neither members nor links.
LEMMA SignedShape ==
  ASSUME NEW g \in GroupStates, NEW t \in GroupStates, NEW a \in Users,
         NEW log \in LogVersions, NEW floors \in [Users -> LogVersions]
  PROVE  /\ Members(Signed(g, t, a, log, floors)) = Members(t)
         /\ SameLinks(t, Signed(g, t, a, log, floors))
  <1> DEFINE z == Signed(g, t, a, log, floors)
             f == Marks(g, t, a, log, floors)
  <1> HIDE DEF f
  <1>1. z = [t EXCEPT !.logs = f]
    BY DEF Signed, f
  <1> HIDE DEF z
  <1>2. z.role = t.role /\ z.link = t.link
    BY <1>1 DEF GroupStates
  <1>3. Members(z) = Members(t) /\ SameLinks(t, z)
    BY <1>2, SameTable DEF Members
  <1> QED
    BY <1>3 DEF z
=============================================================================
