-------------------------- MODULE GroupMembership ---------------------------
(***************************************************************************)
(* The life of one group: after its genesis any user signs any change, and *)
(* the rules of module GroupRules accept it or not.  Each change of        *)
(* apply_with is an action.  Beside the state of the group the module      *)
(* keeps who was given the send key of the current epoch                   *)
(* (group_rotate_epoch of client.rs hands it to the writers of the moment; *)
(* in a public group it lies open in the catalogue), and what was granted  *)
(* and revoked before.                                                     *)
(***************************************************************************)
EXTENDS GroupRules

CONSTANTS Kinds,        \* the kinds of groups a model starts with
          MaxVersion    \* bound: entries of the journal

ASSUME MembershipAssumption == /\ Kinds \subseteq {"group", "channel"}
                               /\ MaxVersion \in Nat

VARIABLES s,         \* the state of the group
          version,   \* the number of its last entry
          holders,   \* history: who was given the send key of the epoch
          granted,   \* history: rights owners have handed out
          withdrawn  \* history: links that were revoked

history == <<holders, granted, withdrawn>>
vars == <<s, version, history>>

Init == \E a \in Users, invited \in SUBSET Users, kind \in Kinds,
           perms \in SUBSET Permissions, log \in LogVersions :
          /\ s = Genesis(a, invited, kind, perms, log)
          /\ Cardinality(Members(s)) <= MAX_MEMBERS
          /\ version = 1
          /\ holders = {}
          /\ granted = {}
          /\ withdrawn = {}

\* a signs an entry that takes the group to t.
Entry(a, t) ==
  /\ version < MaxVersion
  /\ \E log \in LogVersions, floors \in [Users -> LogVersions] :
       /\ MaySign(s, a, log)
       /\ s' = Signed(s, t, a, log, floors)
  /\ version' = version + 1

DoAddMember(a, m, via) == /\ MayAddMember(s, a, m)
                          /\ Entry(a, AddMember(s, a, m, via))
                          /\ UNCHANGED history

DoRemoveMember(a, m) == /\ MayRemoveMember(s, a, m)
                        /\ Entry(a, RemoveMember(s, m))
                        /\ UNCHANGED history

DoTransferOwnership(a, m) == /\ MayTransferOwnership(s, a, m)
                             /\ Entry(a, TransferOwnership(s, a, m))
                             /\ granted' = Rights
                             /\ UNCHANGED <<holders, withdrawn>>

DoSetRole(a, m, role, rights) ==
  /\ MaySetRole(s, a, m, role, rights)
  /\ Entry(a, SetRole(s, m, role, rights))
  /\ granted' = IF IsOwner(s, a) /\ role = "admin" THEN granted \cup rights
                ELSE granted
  /\ UNCHANGED <<holders, withdrawn>>

DoBan(a, m) == MayBan(s, a, m) /\ Entry(a, Ban(s, m)) /\ UNCHANGED history

DoUnban(a, m) == MayUnban(s, a) /\ Entry(a, Unban(s, m)) /\ UNCHANGED history

DoMute(a, m, on) == /\ MayMute(s, a, m)
                    /\ Entry(a, Mute(s, m, on))
                    /\ UNCHANGED history

DoLeave(a) == MayLeave(s, a) /\ Entry(a, Leave(s, a)) /\ UNCHANGED history

\* Whoever held the key still holds it under the new address.
DoRenameMember(a, old) ==
  /\ MayRenameMember(s, a, old)
  /\ Entry(a, RenameMember(s, a, old))
  /\ holders' = IF old \in holders THEN (holders \ {old}) \cup {a} ELSE holders
  /\ UNCHANGED <<granted, withdrawn>>

DoSetInfo(a) == MaySetInfo(s, a) /\ Entry(a, s) /\ UNCHANGED history

DoSetPublic(a, secret) == /\ MaySetPublic(s, a)
                          /\ Entry(a, SetPublic(s, secret))
                          /\ UNCHANGED history

DoSetPrivate(a) == /\ MaySetPrivate(s, a)
                   /\ Entry(a, SetPrivate(s))
                   /\ UNCHANGED history

DoSetPermissions(a, perms) == /\ MaySetPermissions(s, a)
                              /\ Entry(a, SetPermissions(s, perms))
                              /\ UNCHANGED history

DoDeleteGroup(a) == /\ MayDeleteGroup(s, a)
                    /\ Entry(a, DeleteGroup(s))
                    /\ UNCHANGED history

\* group_rotate_epoch: the entry, and the key for the writers after it.
DoNewEpoch(a) ==
  /\ MayNewEpoch(s, a)
  /\ Entry(a, NewEpoch(s))
  /\ holders' = IF s.public = "private" THEN Writers(s') ELSE Users
  /\ UNCHANGED <<granted, withdrawn>>

DoInviteKey(a, l, approval, limit) ==
  /\ MayInviteKey(s, a, l)
  /\ Entry(a, InviteKey(s, a, l, approval, limit))
  /\ UNCHANGED history

DoRevokeLink(a, l) == /\ MayEditLink(s, a, l)
                      /\ Entry(a, RevokeLink(s, l))
                      /\ withdrawn' = withdrawn \cup {l}
                      /\ UNCHANGED <<holders, granted>>

DoEditLink(a, l, limit) == /\ MayEditLink(s, a, l)
                           /\ Entry(a, EditLink(s, l, limit))
                           /\ UNCHANGED history

DoJoin(a, l) == MayJoin(s, a, l) /\ Entry(a, Join(s, a, l)) /\ UNCHANGED history

DoJoinPublic(a) == /\ MayJoinPublic(s, a)
                   /\ Entry(a, JoinPublic(s, a))
                   /\ UNCHANGED history

\* Time passes: the mute of a member runs out (muted_until_ms).
MuteEnds(m) == /\ m \in s.muted
               /\ s' = [s EXCEPT !.muted = @ \ {m}]
               /\ UNCHANGED <<version, history>>

Next ==
  \/ \E a \in Users :
       \/ DoLeave(a) \/ DoSetInfo(a) \/ DoSetPrivate(a) \/ DoDeleteGroup(a)
       \/ DoNewEpoch(a) \/ DoJoinPublic(a)
       \/ \E perms \in SUBSET Permissions : DoSetPermissions(a, perms)
       \/ \E secret \in Secrets : DoSetPublic(a, secret)
       \/ \E m \in Users :
            \/ DoRemoveMember(a, m) \/ DoTransferOwnership(a, m)
            \/ DoBan(a, m) \/ DoUnban(a, m) \/ DoRenameMember(a, m)
            \/ \E on \in BOOLEAN : DoMute(a, m, on)
            \/ \E via \in {{}} \cup {{l} : l \in Links} : DoAddMember(a, m, via)
            \/ \E role \in {"admin", "member"}, rights \in SUBSET Rights :
                 DoSetRole(a, m, role, rights)
       \/ \E l \in Links :
            \/ DoRevokeLink(a, l) \/ DoJoin(a, l)
            \/ \E limit \in 0..MaxLimit :
                 \/ DoEditLink(a, l, limit)
                 \/ \E approval \in BOOLEAN : DoInviteKey(a, l, approval, limit)
  \/ \E m \in Users : MuteEnds(m)

Spec == Init /\ [][Next]_vars

-----------------------------------------------------------------------------
(* Properties                                                              *)

\* The state of the group has its type.
TypeOK == /\ s \in GroupStates
          /\ version \in Nat
          /\ holders \subseteq Users
          /\ granted \subseteq Rights
          /\ withdrawn \subseteq Links

\* Whatever entries are accepted, the group has exactly one owner, who is a
\* member of it: no sequence of transfers, promotions, changes of address,
\* bans and leaves leaves it without one or with two.
OneOwner == {u \in Users : s.role[u] = "owner"} = {s.owner}

\* Who is banned is not a member, whichever way he tries to come back:
\* invited, by link, by the public link, under another member's address.
BannedStayOut == s.banned \cap Members(s) = {}

\* No chain of promotions makes rights: what an admin may do some owner has
\* handed out, and only admins and the owner may do anything.
RightsComeFromOwner ==
  \A u \in Users : /\ s.role[u] = "admin" => s.rights[u] \subseteq granted
                   /\ s.role[u] \in {"none", "member"} => s.rights[u] = {}

\* SC-003a (v2_groups.rs, deliver_group): while the send key of the epoch is
\* accepted, everyone who was given it may still write.  Whoever was banned,
\* muted, removed or demoted since, or held the key of a public group, makes
\* the epoch stale.
OldKeyRefused ==
  ~s.stale /\ ~s.deleted /\ s.public = "private" => holders \subseteq Writers(s)

\* As long as revoked links are remembered, a revoked link never works again.
RevokedStaysRevoked ==
  Cardinality(withdrawn) <= MAX_REVOKED_LINKS => withdrawn \cap Active(s) = {}

\* ENG-08, A0007-2: the mark below which a user's device log may not be cited
\* never goes down, whoever signs and whatever marks he sends along: a device
\* that was taken out of the log does not sign again.
MarksNeverFall == [][\A u \in Users : s'.logs[u] >= s.logs[u]]_vars

\* C1-07: a group never outgrows its limit.
MembersWithinLimit == Cardinality(Members(s)) <= MAX_MEMBERS
=============================================================================
