SPECIFICATION FairSpec
CONSTANTS
  near = near
  dead = dead
  a = a
  x = x
  y = y
  z = z
  Domain = {near, dead}
  Letter = {a, x, y, z}
  DestOf <- Dest
  Down = {dead}
  OUTBOX_MAX_PER_DEST = 2
  OUTBOX_TICK_ROWS = 2
  OUTBOX_PER_DEST_TICK = 1
  MayAge = {x}
  MaxFaults = 1
INVARIANTS
  TypeOK
  AcceptedNotLost
  AtMostOneRepeat
  QueueWithinCap
PROPERTY
  EveryLetterLeaves
