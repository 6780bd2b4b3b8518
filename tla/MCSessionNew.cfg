SPECIFICATION CollabSpec
CONSTANTS
  s1 = s1  s2 = s2  s3 = s3
  c1 = c1  c2 = c2
  a1 = a1  a2 = a2  a3 = a3  a4 = a4  b1 = b1
  t1 = t1  t2 = t2  u1 = u1
  i1 = i1  i2 = i2
  Sockets = {s1, s2}
  Sessions = {c1, c2}
  Commands = {b1}
  Texts = {t1}
  Initials = {i1, i2}
  SessionOf <- MCSessionOf
  OwnerOf <- MCOwnerOf
  InitialOf <- MCInitialOf
  Conflicts <- Deletion
  MaxRoomSockets = 3
  MaxRefusals = 2
  Capacity = 9
  MaxAttempts = 1
  Faults = {"idle", "archive", "restore", "hibernate"}
INVARIANTS InitializedOnce QuietMeansConverged
CHECK_DEADLOCK FALSE
