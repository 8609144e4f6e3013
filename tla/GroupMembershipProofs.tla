----------------------- MODULE GroupMembershipProofs ------------------------
(***************************************************************************)
(* The life of a group keeps it sound, for every number of users, links,   *)
(* rights and secrets and however long its journal grows.                  *)
(*                                                                         *)
(* None of the safety invariants of GroupMembership is inductive alone:    *)
(* that the owner is one needs the type, that a change of address keeps    *)
(* the send key with a writer needs that the banned are no members and     *)
(* that only members are muted, and so on.  Sound joins the parts.         *)
(***************************************************************************)
EXTENDS GroupMembership, GroupRulesProofs, FiniteSetTheorems

Inv == TypeOK /\ Sound(s, granted, holders)

\* No mark of a device log goes down in the step.
Rises == \A u \in Users : s'.logs[u] >= s.logs[u]

\* An entry that leads to a sound state t leaves the group in a sound state:
\* beside t only the marks of the device logs change.
LEMMA EntrySound ==
  ASSUME Inv, NEW a \in Users, NEW t \in GroupStates, Entry(a, t),
         NEW R \in SUBSET Rights, NEW H \in SUBSET Users, Sound(t, R, H)
  PROVE  s' \in GroupStates /\ Sound(s', R, H) /\ version' \in Nat /\ Rises
  <1>1. PICK log \in LogVersions, floors \in [Users -> LogVersions] :
          s' = Signed(s, t, a, log, floors)
    BY DEF Entry
  <1>2. s \in GroupStates /\ version \in Nat
    BY DEF Inv, TypeOK
  <1>3. s' \in GroupStates /\ Sound(s', R, H) /\ Rises
    BY <1>1, <1>2, SignedSound DEF Rises
  <1>4. version' \in Nat
    BY <1>2 DEF Entry
  <1> QED
    BY <1>3, <1>4

\* An entry that changes nothing of the history.
LEMMA QuietEntry ==
  ASSUME Inv, NEW a \in Users, NEW t \in GroupStates, Entry(a, t),
         Sound(t, granted, holders), UNCHANGED history
  PROVE  Inv' /\ Rises
  <1>1. /\ granted \in SUBSET Rights /\ holders \in SUBSET Users
        /\ withdrawn \subseteq Links
    BY DEF Inv, TypeOK
  <1>2. s' \in GroupStates /\ Sound(s', granted, holders) /\ version' \in Nat
        /\ Rises
    BY <1>1, EntrySound
  <1>3. granted' = granted /\ holders' = holders /\ withdrawn' = withdrawn
    BY DEF history
  <1>4. Sound(s', granted', holders')
    BY <1>2, <1>3
  <1>5. TypeOK'
    BY <1>1, <1>2, <1>3 DEF TypeOK
  <1> QED
    BY <1>2, <1>4, <1>5 DEF Inv

\* A new group is sound.
LEMMA InitSound == Init => Inv
  <1> SUFFICES ASSUME Init PROVE Inv
    OBVIOUS
  <1>1. PICK a \in Users, invited \in SUBSET Users, kind \in Kinds,
             perms \in SUBSET Permissions, log \in LogVersions :
               s = Genesis(a, invited, kind, perms, log)
    BY DEF Init
  <1>2. kind \in {"group", "channel"}
    BY MembershipAssumption
  <1>3. s \in GroupStates /\ Sound(s, {}, {})
    BY <1>1, <1>2, GenesisType, GenesisSound
  <1>4. /\ version = 1 /\ holders = {} /\ granted = {}
        /\ withdrawn = {}
    BY DEF Init
  <1> QED
    BY <1>3, <1>4 DEF Inv, TypeOK

\* No step of the group takes it out of the invariant.
LEMMA NextSound == Inv /\ [Next]_vars => Inv' /\ Rises
  <1> SUFFICES ASSUME Inv, [Next]_vars PROVE Inv' /\ Rises
    OBVIOUS
  <1> USE DEF Inv
  <1>0. /\ s \in GroupStates /\ Sound(s, granted, holders)
        /\ granted \in SUBSET Rights /\ holders \in SUBSET Users
        /\ version \in Nat /\ withdrawn \subseteq Links
    BY DEF TypeOK
  <1>1. ASSUME NEW a \in Users, DoLeave(a)
        PROVE  Inv' /\ Rises
    <2>1. Leave(s, a) \in GroupStates
      BY <1>0, <1>1, MemberChangesType DEF DoLeave
    <2>2. Sound(Leave(s, a), granted, holders)
      BY <1>0, <1>1, LeaveSound DEF DoLeave
    <2> QED
      BY <1>1, <2>1, <2>2, QuietEntry DEF DoLeave
  <1>2. ASSUME NEW a \in Users, DoSetInfo(a)
        PROVE  Inv' /\ Rises
    BY <1>0, <1>2, QuietEntry DEF DoSetInfo
  <1>3. ASSUME NEW a \in Users, DoSetPrivate(a)
        PROVE  Inv' /\ Rises
    <2>1. SetPrivate(s) \in GroupStates
      BY <1>0, <1>3, GroupChangesType DEF DoSetPrivate
    <2>2. Sound(SetPrivate(s), granted, holders)
      BY <1>0, <1>3, SetPrivateSound DEF DoSetPrivate
    <2> QED
      BY <1>3, <2>1, <2>2, QuietEntry DEF DoSetPrivate
  <1>4. ASSUME NEW a \in Users, DoDeleteGroup(a)
        PROVE  Inv' /\ Rises
    <2>1. DeleteGroup(s) \in GroupStates
      BY <1>0, <1>4, GroupChangesType DEF DoDeleteGroup
    <2>2. Sound(DeleteGroup(s), granted, holders)
      BY <1>0, <1>4, DeleteSound DEF DoDeleteGroup
    <2> QED
      BY <1>4, <2>1, <2>2, QuietEntry DEF DoDeleteGroup
  <1>5. ASSUME NEW a \in Users, DoNewEpoch(a)
        PROVE  Inv' /\ Rises
    <2>1. NewEpoch(s) \in GroupStates
      BY <1>0, GroupChangesType
    <2>2. CASE s.public = "private"
      <3> DEFINE H == Writers(NewEpoch(s))
      <3>1. H \in SUBSET Users
        BY DEF Writers
      <3>2. Sound(NewEpoch(s), granted, H)
        BY <1>0, NewEpochSound
      <3> HIDE DEF H
      <3>3. s' \in GroupStates /\ Sound(s', granted, H) /\ version' \in Nat /\ Rises
        BY <1>0, <1>5, <2>1, <3>1, <3>2, EntrySound DEF DoNewEpoch
      <3>4. Sound(s', granted, Writers(s')) /\ Writers(s') \subseteq Users
        BY <3>3 DEF Sound, Keyed, Writers
      <3>5. /\ holders' = Writers(s') /\ granted' = granted
            /\ withdrawn' = withdrawn
        BY <1>5, <2>2 DEF DoNewEpoch
      <3>6. Sound(s', granted', holders')
        BY <3>4, <3>5
      <3> QED
        BY <1>0, <3>3, <3>4, <3>5, <3>6 DEF TypeOK
    <2>3. CASE s.public # "private"
      <3>1. Sound(NewEpoch(s), granted, Users)
        BY <1>0, <2>3, NewEpochSound
      <3>2. s' \in GroupStates /\ Sound(s', granted, Users) /\ version' \in Nat /\ Rises
        BY <1>0, <1>5, <2>1, <3>1, EntrySound DEF DoNewEpoch
      <3>3. /\ holders' = Users /\ granted' = granted
            /\ withdrawn' = withdrawn
        BY <1>5, <2>3 DEF DoNewEpoch
      <3>4. Sound(s', granted', holders')
        BY <3>2, <3>3
      <3> QED
        BY <1>0, <3>2, <3>3, <3>4 DEF TypeOK
    <2> QED
      BY <2>2, <2>3
  <1>6. ASSUME NEW a \in Users, DoJoinPublic(a)
        PROVE  Inv' /\ Rises
    <2>1. JoinPublic(s, a) \in GroupStates
      BY <1>0, <1>6, MemberChangesType DEF DoJoinPublic
    <2>2. Sound(JoinPublic(s, a), granted, holders)
      BY <1>0, <1>6, JoinPublicSound DEF DoJoinPublic
    <2> QED
      BY <1>6, <2>1, <2>2, QuietEntry DEF DoJoinPublic
  <1>7. ASSUME NEW a \in Users, NEW perms \in SUBSET Permissions, DoSetPermissions(a, perms)
        PROVE  Inv' /\ Rises
    <2>1. SetPermissions(s, perms) \in GroupStates
      BY <1>0, <1>7, GroupChangesType DEF DoSetPermissions
    <2>2. Sound(SetPermissions(s, perms), granted, holders)
      BY <1>0, <1>7, SetPermissionsSound DEF DoSetPermissions
    <2> QED
      BY <1>7, <2>1, <2>2, QuietEntry DEF DoSetPermissions
  <1>8. ASSUME NEW a \in Users, NEW secret \in Secrets, DoSetPublic(a, secret)
        PROVE  Inv' /\ Rises
    <2>1. SetPublic(s, secret) \in GroupStates
      BY <1>0, <1>8, GroupChangesType DEF DoSetPublic
    <2>2. Sound(SetPublic(s, secret), granted, holders)
      BY <1>0, <1>8, SetPublicSound DEF DoSetPublic
    <2> QED
      BY <1>8, <2>1, <2>2, QuietEntry DEF DoSetPublic
  <1>9. ASSUME NEW a \in Users, NEW m \in Users, DoRemoveMember(a, m)
        PROVE  Inv' /\ Rises
    <2>1. RemoveMember(s, m) \in GroupStates
      BY <1>0, <1>9, MemberChangesType DEF DoRemoveMember
    <2>2. Sound(RemoveMember(s, m), granted, holders)
      BY <1>0, <1>9, RemoveSound DEF DoRemoveMember
    <2> QED
      BY <1>9, <2>1, <2>2, QuietEntry DEF DoRemoveMember
  <1>10. ASSUME NEW a \in Users, NEW m \in Users, DoTransferOwnership(a, m)
        PROVE  Inv' /\ Rises
    <2>1. TransferOwnership(s, a, m) \in GroupStates
      BY <1>0, MemberChangesType
    <2>2. Sound(TransferOwnership(s, a, m), Rights, holders)
      BY <1>0, <1>10, TransferSound DEF DoTransferOwnership
    <2>3. s' \in GroupStates /\ Sound(s', Rights, holders) /\ version' \in Nat /\ Rises
      BY <1>0, <1>10, <2>1, <2>2, EntrySound DEF DoTransferOwnership
    <2>4. /\ granted' = Rights /\ holders' = holders
          /\ withdrawn' = withdrawn
      BY <1>10 DEF DoTransferOwnership
    <2>5. Sound(s', granted', holders')
      BY <2>3, <2>4
    <2> QED
      BY <1>0, <2>3, <2>4, <2>5 DEF TypeOK
  <1>11. ASSUME NEW a \in Users, NEW m \in Users, DoBan(a, m)
        PROVE  Inv' /\ Rises
    <2>1. Ban(s, m) \in GroupStates
      BY <1>0, <1>11, MemberChangesType DEF DoBan
    <2>2. Sound(Ban(s, m), granted, holders)
      BY <1>0, <1>11, BanSound DEF DoBan
    <2> QED
      BY <1>11, <2>1, <2>2, QuietEntry DEF DoBan
  <1>12. ASSUME NEW a \in Users, NEW m \in Users, DoUnban(a, m)
        PROVE  Inv' /\ Rises
    <2>1. Unban(s, m) \in GroupStates
      BY <1>0, <1>12, MemberChangesType DEF DoUnban
    <2>2. Sound(Unban(s, m), granted, holders)
      BY <1>0, <1>12, UnbanSound DEF DoUnban
    <2> QED
      BY <1>12, <2>1, <2>2, QuietEntry DEF DoUnban
  <1>13. ASSUME NEW a \in Users, NEW m \in Users, DoRenameMember(a, m)
        PROVE  Inv' /\ Rises
    <2> DEFINE H == IF m \in holders THEN (holders \ {m}) \cup {a} ELSE holders
    <2>1. RenameMember(s, a, m) \in GroupStates
      BY <1>0, RenameType
    <2>2. Sound(RenameMember(s, a, m), granted, H)
      BY <1>0, <1>13, RenameSound DEF DoRenameMember
    <2>3. H \in SUBSET Users
      BY <1>0
    <2>4. /\ holders' = H /\ granted' = granted
          /\ withdrawn' = withdrawn
      BY <1>13 DEF DoRenameMember
    <2> HIDE DEF H
    <2>5. s' \in GroupStates /\ Sound(s', granted, H) /\ version' \in Nat /\ Rises
      BY <1>0, <1>13, <2>1, <2>2, <2>3, EntrySound DEF DoRenameMember
    <2>6. Sound(s', granted', holders')
      BY <2>4, <2>5
    <2> QED
      BY <1>0, <2>3, <2>4, <2>5, <2>6 DEF TypeOK
  <1>14. ASSUME NEW a \in Users, NEW m \in Users, NEW on \in BOOLEAN, DoMute(a, m, on)
        PROVE  Inv' /\ Rises
    <2>1. Mute(s, m, on) \in GroupStates
      BY <1>0, <1>14, MemberChangesType DEF DoMute
    <2>2. Sound(Mute(s, m, on), granted, holders)
      BY <1>0, <1>14, MuteSound DEF DoMute
    <2> QED
      BY <1>14, <2>1, <2>2, QuietEntry DEF DoMute
  <1>15. ASSUME NEW a \in Users, NEW m \in Users,
               NEW via \in {{}} \cup {{l} : l \in Links}, DoAddMember(a, m, via)
        PROVE  Inv' /\ Rises
    <2>1. AddMember(s, a, m, via) \in GroupStates
      BY <1>0, <1>15, JoinType DEF DoAddMember
    <2>2. Sound(AddMember(s, a, m, via), granted, holders)
      BY <1>0, <1>15, JoinSound DEF DoAddMember
    <2> QED
      BY <1>15, <2>1, <2>2, QuietEntry DEF DoAddMember
  <1>16. ASSUME NEW a \in Users, NEW m \in Users, NEW role \in {"admin", "member"},
               NEW rights \in SUBSET Rights, DoSetRole(a, m, role, rights)
        PROVE  Inv' /\ Rises
    <2> DEFINE R == IF IsOwner(s, a) /\ role = "admin" THEN granted \cup rights
                    ELSE granted
    <2>1. SetRole(s, m, role, rights) \in GroupStates
      BY <1>0, MemberChangesType
    <2>2. /\ R \in SUBSET Rights /\ granted \subseteq R
          /\ IsOwner(s, a) /\ role = "admin" => rights \subseteq R
      BY <1>0
    <2>3. /\ granted' = R /\ holders' = holders
          /\ withdrawn' = withdrawn
      BY <1>16 DEF DoSetRole
    <2> HIDE DEF R
    <2>4. Sound(SetRole(s, m, role, rights), R, holders)
      BY <1>0, <1>16, <2>2, SetRoleSound DEF DoSetRole
    <2>5. s' \in GroupStates /\ Sound(s', R, holders) /\ version' \in Nat /\ Rises
      BY <1>0, <1>16, <2>1, <2>2, <2>4, EntrySound DEF DoSetRole
    <2>6. Sound(s', granted', holders')
      BY <2>3, <2>5
    <2> QED
      BY <1>0, <2>2, <2>3, <2>5, <2>6 DEF TypeOK
  <1>17. ASSUME NEW a \in Users, NEW l \in Links, DoRevokeLink(a, l)
        PROVE  Inv' /\ Rises
    <2>1. l \in Active(s)
      BY <1>17 DEF DoRevokeLink, MayEditLink
    <2>2. 0 \in 0..MaxLimit
      BY RulesAssumption
    <2>3. RevokeLink(s, l) \in GroupStates
      BY <1>0, <2>1, <2>2, LinkChangesType
    <2>4. Sound(RevokeLink(s, l), granted, holders)
      BY <1>0, <2>1, <2>2, LinksSound
    <2>5. s' \in GroupStates /\ Sound(s', granted, holders) /\ version' \in Nat /\ Rises
      BY <1>0, <1>17, <2>3, <2>4, EntrySound DEF DoRevokeLink
    <2>6. /\ granted' = granted /\ holders' = holders
          /\ withdrawn' = withdrawn \cup {l}
      BY <1>17 DEF DoRevokeLink
    <2>7. Sound(s', granted', holders')
      BY <2>5, <2>6
    <2> QED
      BY <1>0, <2>5, <2>6, <2>7 DEF TypeOK
  <1>18. ASSUME NEW a \in Users, NEW l \in Links, DoJoin(a, l)
        PROVE  Inv' /\ Rises
    <2>1. Join(s, a, l) \in GroupStates
      BY <1>0, <1>18, JoinType DEF DoJoin, MayJoin
    <2>2. Sound(Join(s, a, l), granted, holders)
      BY <1>0, <1>18, JoinSound DEF DoJoin
    <2> QED
      BY <1>18, <2>1, <2>2, QuietEntry DEF DoJoin
  <1>19. ASSUME NEW a \in Users, NEW l \in Links, NEW limit \in 0..MaxLimit,
               DoEditLink(a, l, limit)
        PROVE  Inv' /\ Rises
    <2>1. l \in Active(s)
      BY <1>19 DEF DoEditLink, MayEditLink
    <2>2. EditLink(s, l, limit) \in GroupStates
      BY <1>0, <2>1, LinkChangesType
    <2>3. Sound(EditLink(s, l, limit), granted, holders)
      BY <1>0, <2>1, LinksSound
    <2> QED
      BY <1>19, <2>2, <2>3, QuietEntry DEF DoEditLink
  <1>20. ASSUME NEW a \in Users, NEW l \in Links,
               NEW approval \in BOOLEAN, NEW limit \in 0..MaxLimit, DoInviteKey(a, l, approval, limit)
        PROVE  Inv' /\ Rises
    <2>1. InviteKey(s, a, l, approval, limit) \in GroupStates
      BY <1>0, <1>20, LinkChangesType DEF DoInviteKey
    <2>2. Sound(InviteKey(s, a, l, approval, limit), granted, holders)
      BY <1>0, <1>20, LinksSound DEF DoInviteKey
    <2> QED
      BY <1>20, <2>1, <2>2, QuietEntry DEF DoInviteKey
  <1>21. ASSUME NEW m \in Users, MuteEnds(m)
        PROVE  Inv' /\ Rises
    <2>1. s' \in GroupStates /\ Sound(s', granted, holders)
      BY <1>0, <1>21, MuteEndsSound DEF MuteEnds
    <2>2. /\ version' = version /\ granted' = granted /\ holders' = holders
          /\ withdrawn' = withdrawn
      BY <1>21 DEF MuteEnds, history
    <2>3. Sound(s', granted', holders')
      BY <2>1, <2>2
    <2>4. Rises
      BY <1>0, <1>21 DEF MuteEnds, Rises, GroupStates, LogVersions
    <2> QED
      BY <1>0, <2>1, <2>2, <2>3, <2>4 DEF TypeOK
  <1>22. CASE UNCHANGED vars
    <2>1. /\ s' = s /\ version' = version /\ granted' = granted
          /\ holders' = holders /\ withdrawn' = withdrawn
      BY <1>22 DEF vars, history
    <2>2. Sound(s', granted', holders')
      BY <1>0, <2>1
    <2>3. Rises
      BY <1>0, <2>1 DEF Rises, GroupStates, LogVersions
    <2> QED
      BY <1>0, <2>1, <2>2, <2>3 DEF TypeOK
  <1> QED
    BY <1>1, <1>2, <1>3, <1>4, <1>5, <1>6, <1>7, <1>8, <1>9, <1>10, <1>11,
       <1>12, <1>13, <1>14, <1>15, <1>16, <1>17, <1>18, <1>19, <1>20, <1>21,
       <1>22 DEF Next

\* Every state a journal of accepted entries leads to has its type.
THEOREM GroupTypeCorrect == Spec => []TypeOK
  <1>1. Inv => TypeOK
    BY DEF Inv
  <1> QED
    BY <1>1, InitSound, NextSound, PTL DEF Spec

\* Whatever is signed, the group has one owner, and he is a member.
THEOREM AlwaysOneOwner == Spec => []OneOwner
  <1>1. Inv => OneOwner
    BY DEF Inv, TypeOK, Sound, Owned, OneOwner, GroupStates
  <1> QED
    BY <1>1, InitSound, NextSound, PTL DEF Spec

\* No entry lets a banned user in.
THEOREM BannedNeverMembers == Spec => []BannedStayOut
  <1>1. Inv => BannedStayOut
    <2> SUFFICES ASSUME Inv, NEW u \in s.banned \cap Members(s)
                 PROVE  FALSE
      BY DEF BannedStayOut
    <2>1. u \in Users /\ s.role[u] # "none" /\ u \in s.banned
      BY DEF Members
    <2>2. Apart(s)
      BY DEF Inv, Sound
    <2> QED
      BY <2>1, <2>2 DEF Apart
  <1> QED
    BY <1>1, InitSound, NextSound, PTL DEF Spec

\* No chain of promotions leads beyond what owners handed out.
THEOREM NoRightsFromNowhere == Spec => []RightsComeFromOwner
  <1>1. Inv => RightsComeFromOwner
    BY DEF Inv, Sound, Ranked, RightsComeFromOwner
  <1> QED
    BY <1>1, InitSound, NextSound, PTL DEF Spec

\* SC-003a: a send key the server still accepts is with writers only.
THEOREM SendKeyOnlyWithWriters == Spec => []OldKeyRefused
  <1>1. Inv => OldKeyRefused
    BY DEF Inv, TypeOK, Sound, Keyed, OldKeyRefused, Writers
  <1> QED
    BY <1>1, InitSound, NextSound, PTL DEF Spec

\* ENG-08: no entry lowers the mark of a device log.
THEOREM MarksOnlyRise == Spec => MarksNeverFall
  <1>1. Inv /\ [Next]_vars => [\A u \in Users : s'.logs[u] >= s.logs[u]]_vars
    BY NextSound DEF Rises
  <1> QED
    BY <1>1, InitSound, NextSound, PTL DEF Spec, MarksNeverFall

-----------------------------------------------------------------------------
(* How many members, and which links                                       *)

\* What a step may do to the members: nobody comes, one comes while there is
\* room, or one takes the place of another.
NobodyNew == Members(s') \subseteq Members(s)
OneNew == /\ Cardinality(Members(s)) < MAX_MEMBERS
          /\ \E u \in Users : Members(s') \subseteq Members(s) \cup {u}
OneForAnother == \E u \in Users, old \in Members(s) :
                   Members(s') \subseteq (Members(s) \ {old}) \cup {u}

\* What a step may do to the links: nothing, announce a new one, revoke one.
LinksStay == SameLinks(s, s') /\ UNCHANGED withdrawn
LinkAnnounced == /\ UNCHANGED withdrawn
                 /\ Revoked(s') = Revoked(s)
                 /\ \E l \in Links \ (Active(s) \cup Revoked(s)) : Active(s') = Active(s) \cup {l}
LinkWithdrawn == \E l \in Active(s) :
                   /\ withdrawn' = withdrawn \cup {l}
                   /\ Active(s') = Active(s) \ {l}
                   /\ Revoked(s') = IF Cardinality(Revoked(s)) < MAX_REVOKED_LINKS
                                    THEN Revoked(s) \cup {l} ELSE Revoked(s)

Shape == (NobodyNew \/ OneNew \/ OneForAnother) /\ (LinksStay \/ LinkAnnounced \/ LinkWithdrawn)

\* The entry is written with the members and the links of the state it leads to.
LEMMA EntryShape ==
  ASSUME Inv, NEW a \in Users, NEW t \in GroupStates, Entry(a, t)
  PROVE  Members(s') = Members(t) /\ Active(s') = Active(t) /\ Revoked(s') = Revoked(t)
  <1>1. PICK log \in LogVersions, floors \in [Users -> LogVersions] :
          s' = Signed(s, t, a, log, floors)
    BY DEF Entry
  <1>2. s \in GroupStates
    BY DEF Inv, TypeOK
  <1> QED
    BY <1>1, <1>2, SignedShape DEF SameLinks

\* apply_with: every change is of one of these shapes.
LEMMA NextShape == Inv /\ [Next]_vars => Shape
  <1> SUFFICES ASSUME Inv, [Next]_vars PROVE Shape
    OBVIOUS
  <1>0. s \in GroupStates
    BY DEF Inv, TypeOK
  <1>e. ASSUME NEW a \in Users, NEW t \in GroupStates, Entry(a, t), SameLinks(s, t),
               UNCHANGED withdrawn
        PROVE  LinksStay /\ Members(s') = Members(t)
    BY <1>e, EntryShape DEF LinksStay, SameLinks
  <1>q. ASSUME NEW a \in Users, NEW t \in GroupStates, Entry(a, t), SameLinks(s, t),
               Members(t) \subseteq Members(s), UNCHANGED withdrawn
        PROVE  Shape
    BY <1>e, <1>q DEF Shape, NobodyNew
  <1>1. ASSUME NEW a \in Users, DoLeave(a) PROVE Shape
    <2>1. Leave(s, a) \in GroupStates
      BY <1>0, MemberChangesType
    <2> QED
      BY <1>0, <1>1, <1>q, <2>1, NobodyComes DEF DoLeave, history
  <1>2. ASSUME NEW a \in Users, DoSetInfo(a) PROVE Shape
    BY <1>0, <1>2, <1>q DEF DoSetInfo, history, SameLinks
  <1>3. ASSUME NEW a \in Users, DoSetPrivate(a) PROVE Shape
    <2>1. SetPrivate(s) \in GroupStates
      BY <1>0, GroupChangesType
    <2>2. Members(SetPrivate(s)) = Members(s) /\ SameLinks(s, SetPrivate(s))
      BY <1>0, MembersStay
    <2> QED
      BY <1>3, <1>q, <2>1, <2>2 DEF DoSetPrivate, history
  <1>4. ASSUME NEW a \in Users, DoDeleteGroup(a) PROVE Shape
    <2>1. DeleteGroup(s) \in GroupStates
      BY <1>0, GroupChangesType
    <2>2. Members(DeleteGroup(s)) = Members(s) /\ SameLinks(s, DeleteGroup(s))
      BY <1>0, MembersStay
    <2> QED
      BY <1>4, <1>q, <2>1, <2>2 DEF DoDeleteGroup, history
  <1>5. ASSUME NEW a \in Users, DoNewEpoch(a) PROVE Shape
    <2>1. NewEpoch(s) \in GroupStates
      BY <1>0, GroupChangesType
    <2>2. Members(NewEpoch(s)) = Members(s) /\ SameLinks(s, NewEpoch(s))
      BY <1>0, MembersStay
    <2> QED
      BY <1>5, <1>q, <2>1, <2>2 DEF DoNewEpoch
  <1>6. ASSUME NEW a \in Users, DoJoinPublic(a) PROVE Shape
    <2>1. JoinPublic(s, a) \in GroupStates
      BY <1>0, MemberChangesType
    <2>2. Members(JoinPublic(s, a)) \subseteq Members(s) \cup {a} /\ SameLinks(s, JoinPublic(s, a))
      BY <1>0, OneComes
    <2>3. LinksStay /\ Members(s') = Members(JoinPublic(s, a))
      BY <1>6, <1>e, <2>1, <2>2 DEF DoJoinPublic, history
    <2> QED
      BY <1>6, <2>2, <2>3 DEF DoJoinPublic, MayJoinPublic, Shape, OneNew
  <1>7. ASSUME NEW a \in Users, NEW perms \in SUBSET Permissions, DoSetPermissions(a, perms)
        PROVE  Shape
    <2>1. SetPermissions(s, perms) \in GroupStates
      BY <1>0, GroupChangesType
    <2>2. Members(SetPermissions(s, perms)) = Members(s) /\ SameLinks(s, SetPermissions(s, perms))
      BY <1>0, MembersStay
    <2> QED
      BY <1>7, <1>q, <2>1, <2>2 DEF DoSetPermissions, history
  <1>8. ASSUME NEW a \in Users, NEW secret \in Secrets, DoSetPublic(a, secret) PROVE Shape
    <2>1. SetPublic(s, secret) \in GroupStates
      BY <1>0, GroupChangesType
    <2>2. Members(SetPublic(s, secret)) = Members(s) /\ SameLinks(s, SetPublic(s, secret))
      BY <1>0, MembersStay
    <2> QED
      BY <1>8, <1>q, <2>1, <2>2 DEF DoSetPublic, history
  <1>9. ASSUME NEW a \in Users, NEW m \in Users, DoRemoveMember(a, m) PROVE Shape
    <2>1. RemoveMember(s, m) \in GroupStates
      BY <1>0, MemberChangesType
    <2> QED
      BY <1>0, <1>9, <1>q, <2>1, NobodyComes DEF DoRemoveMember, history
  <1>10. ASSUME NEW a \in Users, NEW m \in Users, DoTransferOwnership(a, m) PROVE Shape
    <2>1. TransferOwnership(s, a, m) \in GroupStates
      BY <1>0, MemberChangesType
    <2>2. /\ Members(TransferOwnership(s, a, m)) \subseteq Members(s)
          /\ SameLinks(s, TransferOwnership(s, a, m))
      BY <1>0, <1>10, MembersStay DEF DoTransferOwnership
    <2> QED
      BY <1>10, <1>q, <2>1, <2>2 DEF DoTransferOwnership
  <1>11. ASSUME NEW a \in Users, NEW m \in Users, DoBan(a, m) PROVE Shape
    <2>1. Ban(s, m) \in GroupStates
      BY <1>0, MemberChangesType
    <2> QED
      BY <1>0, <1>11, <1>q, <2>1, NobodyComes DEF DoBan, history
  <1>12. ASSUME NEW a \in Users, NEW m \in Users, DoUnban(a, m) PROVE Shape
    <2>1. Unban(s, m) \in GroupStates
      BY <1>0, MemberChangesType
    <2> QED
      BY <1>0, <1>12, <1>q, <2>1, NobodyComes DEF DoUnban, history
  <1>13. ASSUME NEW a \in Users, NEW m \in Users, DoRenameMember(a, m) PROVE Shape
    <2>1. RenameMember(s, a, m) \in GroupStates
      BY <1>0, RenameType
    <2>2. /\ m \in Members(s)
          /\ Members(RenameMember(s, a, m)) \subseteq (Members(s) \ {m}) \cup {a}
          /\ SameLinks(s, RenameMember(s, a, m))
      BY <1>0, <1>13, OneReplaced DEF DoRenameMember, MayRenameMember
    <2>3. LinksStay /\ Members(s') = Members(RenameMember(s, a, m))
      BY <1>13, <1>e, <2>1, <2>2 DEF DoRenameMember
    <2> QED
      BY <2>2, <2>3 DEF Shape, OneForAnother
  <1>14. ASSUME NEW a \in Users, NEW m \in Users, NEW on \in BOOLEAN, DoMute(a, m, on) PROVE Shape
    <2>1. Mute(s, m, on) \in GroupStates
      BY <1>0, MemberChangesType
    <2> QED
      BY <1>0, <1>14, <1>q, <2>1, NobodyComes DEF DoMute, history
  <1>15. ASSUME NEW a \in Users, NEW m \in Users,
                NEW via \in {{}} \cup {{l} : l \in Links}, DoAddMember(a, m, via)
         PROVE  Shape
    <2>1. AddMember(s, a, m, via) \in GroupStates
      BY <1>0, JoinType
    <2>2. /\ Members(AddMember(s, a, m, via)) \subseteq Members(s) \cup {m}
          /\ SameLinks(s, AddMember(s, a, m, via))
      BY <1>0, OneComes
    <2>3. LinksStay /\ Members(s') = Members(AddMember(s, a, m, via))
      BY <1>15, <1>e, <2>1, <2>2 DEF DoAddMember, history
    <2> QED
      BY <1>15, <2>2, <2>3 DEF DoAddMember, MayAddMember, Shape, OneNew
  <1>16. ASSUME NEW a \in Users, NEW m \in Users, NEW role \in {"admin", "member"},
                NEW rights \in SUBSET Rights, DoSetRole(a, m, role, rights)
         PROVE  Shape
    <2>1. SetRole(s, m, role, rights) \in GroupStates
      BY <1>0, MemberChangesType
    <2>2. /\ Members(SetRole(s, m, role, rights)) \subseteq Members(s)
          /\ SameLinks(s, SetRole(s, m, role, rights))
      BY <1>0, <1>16, MembersStay DEF DoSetRole
    <2> QED
      BY <1>16, <1>q, <2>1, <2>2 DEF DoSetRole
  <1>17. ASSUME NEW a \in Users, NEW l \in Links, DoRevokeLink(a, l) PROVE Shape
    <2>1. l \in Active(s) /\ 0 \in 0..MaxLimit /\ TRUE \in BOOLEAN
      BY <1>17, RulesAssumption DEF DoRevokeLink, MayEditLink
    <2>2. RevokeLink(s, l) \in GroupStates
      BY <1>0, <2>1, LinkChangesType
    <2>3. /\ Members(RevokeLink(s, l)) = Members(s)
          /\ Active(RevokeLink(s, l)) = Active(s) \ {l}
          /\ Revoked(RevokeLink(s, l)) = IF Cardinality(Revoked(s)) < MAX_REVOKED_LINKS
                                         THEN Revoked(s) \cup {l} ELSE Revoked(s)
      BY <1>0, <2>1, RevokeShape
    <2>4. /\ Members(s') = Members(RevokeLink(s, l)) /\ Active(s') = Active(RevokeLink(s, l))
          /\ Revoked(s') = Revoked(RevokeLink(s, l)) /\ withdrawn' = withdrawn \cup {l}
      BY <1>17, <2>2, EntryShape DEF DoRevokeLink
    <2>5. LinkWithdrawn
      BY <2>1, <2>3, <2>4 DEF LinkWithdrawn
    <2> QED
      BY <2>3, <2>4, <2>5 DEF Shape, NobodyNew
  <1>18. ASSUME NEW a \in Users, NEW l \in Links, DoJoin(a, l) PROVE Shape
    <2>1. l \in Active(s) /\ Cardinality(Members(s)) < MAX_MEMBERS
      BY <1>18 DEF DoJoin, MayJoin
    <2>2. Join(s, a, l) \in GroupStates
      BY <1>0, <2>1, JoinType
    <2>3. Members(Join(s, a, l)) \subseteq Members(s) \cup {a} /\ SameLinks(s, Join(s, a, l))
      BY <1>0, <2>1, OneComes
    <2>4. LinksStay /\ Members(s') = Members(Join(s, a, l))
      BY <1>18, <1>e, <2>2, <2>3 DEF DoJoin, history
    <2> QED
      BY <2>1, <2>3, <2>4 DEF Shape, OneNew
  <1>19. ASSUME NEW a \in Users, NEW l \in Links, NEW limit \in 0..MaxLimit, DoEditLink(a, l, limit)
         PROVE  Shape
    <2>1. l \in Active(s) /\ TRUE \in BOOLEAN
      BY <1>19 DEF DoEditLink, MayEditLink
    <2>2. EditLink(s, l, limit) \in GroupStates
      BY <1>0, <2>1, LinkChangesType
    <2>3. Members(EditLink(s, l, limit)) = Members(s) /\ SameLinks(s, EditLink(s, l, limit))
      BY <1>0, <2>1, EditShape
    <2> QED
      BY <1>19, <1>q, <2>2, <2>3 DEF DoEditLink, history
  <1>20. ASSUME NEW a \in Users, NEW l \in Links, NEW approval \in BOOLEAN,
                NEW limit \in 0..MaxLimit, DoInviteKey(a, l, approval, limit)
         PROVE  Shape
    <2> DEFINE t == InviteKey(s, a, l, approval, limit)
    <2>1. t \in GroupStates
      BY <1>0, LinkChangesType
    <2>2. Members(t) = Members(s) /\ Active(t) = Active(s) \cup {l} /\ Revoked(t) = Revoked(s) \ {l}
      BY <1>0, InviteShape
    <2>3. l \notin Active(s) \cup Revoked(s) /\ Entry(a, t) /\ withdrawn' = withdrawn
      BY <1>20 DEF DoInviteKey, MayInviteKey, history
    <2> HIDE DEF t
    <2>4. Members(s') = Members(t) /\ Active(s') = Active(t) /\ Revoked(s') = Revoked(t)
      BY <2>1, <2>3, EntryShape
    <2>5. LinkAnnounced
      BY <2>2, <2>3, <2>4 DEF LinkAnnounced
    <2> QED
      BY <2>2, <2>4, <2>5 DEF Shape, NobodyNew
  <1>21. ASSUME NEW m \in Users, MuteEnds(m) PROVE Shape
    <2>1. s'.role = s.role /\ s'.link = s.link /\ withdrawn' = withdrawn
      BY <1>0, <1>21 DEF MuteEnds, history, GroupStates
    <2> QED
      BY <2>1, SameTable DEF Shape, NobodyNew, LinksStay, Members
  <1>22. CASE UNCHANGED vars
    BY <1>22 DEF vars, history, Shape, NobodyNew, LinksStay, SameLinks
  <1> QED
    BY <1>1, <1>2, <1>3, <1>4, <1>5, <1>6, <1>7, <1>8, <1>9, <1>10, <1>11,
       <1>12, <1>13, <1>14, <1>15, <1>16, <1>17, <1>18, <1>19, <1>20, <1>21,
       <1>22 DEF Next

\* C1-07: whichever way members come, the group stays within its limit.
THEOREM GroupWithinLimit == Spec => []MembersWithinLimit
  <1>1. Init => MembersWithinLimit
    BY DEF Init, MembersWithinLimit
  <1>2. Inv /\ MembersWithinLimit /\ [Next]_vars => MembersWithinLimit'
    <2> SUFFICES ASSUME Inv, MembersWithinLimit, [Next]_vars PROVE MembersWithinLimit'
      OBVIOUS
    <2>1. /\ Members(s) \subseteq Users /\ IsFiniteSet(Members(s)) /\ Cardinality(Members(s)) \in Nat
          /\ MAX_MEMBERS \in Nat
      BY RulesAssumption, FS_Subset, FS_CardinalityType DEF Members
    <2>2. CASE NobodyNew
      BY <2>1, <2>2, FS_Subset, FS_CardinalityType DEF NobodyNew, MembersWithinLimit
    <2>3. CASE OneNew
      <3>1. PICK u \in Users : Members(s') \subseteq Members(s) \cup {u}
        BY <2>3 DEF OneNew
      <3> DEFINE M == Members(s) \cup {u}
      <3>2. IsFiniteSet(M) /\ Cardinality(M) <= Cardinality(Members(s)) + 1 /\ Cardinality(M) \in Nat
        <4>1. /\ IsFiniteSet(M)
              /\ Cardinality(M) = IF u \in Members(s) THEN Cardinality(Members(s))
                                  ELSE Cardinality(Members(s)) + 1
          BY <2>1, FS_AddElement
        <4> QED
          BY <2>1, <4>1
      <3>3. Cardinality(Members(s')) <= Cardinality(M) /\ Cardinality(Members(s')) \in Nat
        BY <3>1, <3>2, FS_Subset, FS_CardinalityType
      <3> HIDE DEF M
      <3> QED
        BY <2>1, <2>3, <3>2, <3>3 DEF OneNew, MembersWithinLimit
    <2>4. CASE OneForAnother
      <3>1. PICK u \in Users, old \in Members(s) : Members(s') \subseteq (Members(s) \ {old}) \cup {u}
        BY <2>4 DEF OneForAnother
      <3> DEFINE L == Members(s) \ {old}
                 M == L \cup {u}
      <3>2. IsFiniteSet(L) /\ Cardinality(L) = Cardinality(Members(s)) - 1 /\ Cardinality(L) \in Nat
        BY <2>1, FS_RemoveElement, FS_CardinalityType
      <3> HIDE DEF L
      <3>3. IsFiniteSet(M) /\ Cardinality(M) <= Cardinality(L) + 1 /\ Cardinality(M) \in Nat
        <4>1. /\ IsFiniteSet(M)
              /\ Cardinality(M) = IF u \in L THEN Cardinality(L) ELSE Cardinality(L) + 1
          BY <3>2, FS_AddElement
        <4> QED
          BY <3>2, <4>1
      <3>4. Cardinality(Members(s')) <= Cardinality(M) /\ Cardinality(Members(s')) \in Nat
        BY <3>1, <3>3, FS_Subset, FS_CardinalityType DEF L
      <3> HIDE DEF M
      <3> QED
        BY <2>1, <3>2, <3>3, <3>4 DEF MembersWithinLimit
    <2> QED
      BY <2>2, <2>3, <2>4, NextShape DEF Shape
  <1> QED
    BY <1>1, <1>2, InitSound, NextSound, PTL DEF Spec

\* The links that were revoked are finitely many; the group remembers no other
\* as revoked, and remembers them all as long as there is room for all.
LinksRemembered ==
  /\ IsFiniteSet(withdrawn)
  /\ Revoked(s) \subseteq withdrawn
  /\ Cardinality(withdrawn) <= MAX_REVOKED_LINKS => withdrawn \subseteq Revoked(s)

\* InviteKeyRevoke, InviteKey: as long as revoked links are remembered, none
\* of them works again, however many are announced and revoked.
THEOREM RevokedLinksStayRevoked == Spec => []RevokedStaysRevoked
  <1>1. Init => LinksRemembered
    <2> SUFFICES ASSUME Init PROVE LinksRemembered
      OBVIOUS
    <2>1. Revoked(s) = {} /\ withdrawn = {}
      BY DEF Init, Genesis, Revoked, NoLink
    <2> QED
      BY <2>1, FS_EmptySet DEF LinksRemembered
  <1>2. Inv /\ LinksRemembered /\ [Next]_vars => LinksRemembered'
    <2> SUFFICES ASSUME Inv, LinksRemembered, [Next]_vars PROVE LinksRemembered'
      OBVIOUS
    <2>1. CASE LinksStay \/ LinkAnnounced
      BY <2>1 DEF LinksStay, LinkAnnounced, LinksRemembered, SameLinks
    <2>2. CASE LinkWithdrawn
      <3>1. PICK l \in Active(s) :
              /\ withdrawn' = withdrawn \cup {l}
              /\ Revoked(s') = IF Cardinality(Revoked(s)) < MAX_REVOKED_LINKS
                               THEN Revoked(s) \cup {l} ELSE Revoked(s)
        BY <2>2 DEF LinkWithdrawn
      <3>2. /\ IsFiniteSet(withdrawn) /\ Cardinality(withdrawn) \in Nat
            /\ IsFiniteSet(Revoked(s)) /\ Cardinality(Revoked(s)) \in Nat
            /\ Cardinality(Revoked(s)) <= Cardinality(withdrawn)
        BY FS_Subset, FS_CardinalityType DEF LinksRemembered
      <3>3. /\ IsFiniteSet(withdrawn') /\ Cardinality(withdrawn') \in Nat
            /\ l \notin withdrawn => Cardinality(withdrawn') = Cardinality(withdrawn) + 1
            /\ l \in withdrawn => withdrawn' = withdrawn
        BY <3>1, <3>2, FS_AddElement, FS_CardinalityType
      <3>4. Revoked(s') \subseteq withdrawn'
        BY <3>1 DEF LinksRemembered
      <3>5. ASSUME Cardinality(withdrawn') <= MAX_REVOKED_LINKS
            PROVE  withdrawn' \subseteq Revoked(s')
        <4>1. Cardinality(withdrawn) <= MAX_REVOKED_LINKS /\ MAX_REVOKED_LINKS \in Nat
          BY <3>2, <3>3, <3>5, RulesAssumption
        <4>2. withdrawn \subseteq Revoked(s)
          BY <4>1 DEF LinksRemembered
        <4>3. l \notin withdrawn
          BY <4>2 DEF Active, Revoked
        <4>4. Cardinality(Revoked(s)) < MAX_REVOKED_LINKS
          BY <3>2, <3>3, <3>5, <4>1, <4>3
        <4> QED
          BY <3>1, <4>2, <4>4
      <3> QED
        BY <3>3, <3>4, <3>5 DEF LinksRemembered
    <2> QED
      BY <2>1, <2>2, NextShape DEF Shape
  <1>3. LinksRemembered => RevokedStaysRevoked
    BY DEF LinksRemembered, RevokedStaysRevoked, Active, Revoked
  <1> QED
    BY <1>1, <1>2, <1>3, InitSound, NextSound, PTL DEF Spec
=============================================================================
