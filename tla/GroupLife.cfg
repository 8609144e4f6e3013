SPECIFICATION Spec
CONSTANTS
  Users = {u1, u2, u3, u4}
  Links = {l1}
  Secrets = {k1, k2}
  Rights = {"ban_users", "add_admins"}
  Permissions = {"send_messages"}
  Kinds = {"group", "channel"}
  MaxLimit = 1
  MaxLogVersion = 1
  MAX_MEMBERS = 3
  MAX_REVOKED_LINKS = 1
  MaxVersion = 4
SYMMETRY UserSymmetry
INVARIANTS
  TypeOK
  OneOwner
  RightsComeFromOwner
  OldKeyRefused
  BannedStayOut
  RevokedStaysRevoked
  MembersWithinLimit
PROPERTY
  MarksNeverFall
CHECK_DEADLOCK FALSE
