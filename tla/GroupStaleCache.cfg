SPECIFICATION Spec
CONSTANTS
  owner = owner
  friend = friend
  guest = guest
  link1 = link1
  Users = {owner, friend, guest}
  Founder = owner
  Invited = {friend}
  Links = {}
  Secrets = {}
  Rights = {}
  Permissions = {"send_messages"}
  MaxLimit = 0
  MaxLogVersion = 0
  MAX_MEMBERS = 3
  MAX_REVOKED_LINKS = 1
  Handlers = {h1, h2}
  Messages <- FirstEpoch
  Scenes <- RacesOnly
SYMMETRY TaskSymmetry
INVARIANT
  CacheNotBehind
CHECK_DEADLOCK FALSE
