SPECIFICATION MCSpec
CONSTANTS
  s1 = s1  s2 = s2
  c1 = c1  c2 = c2
  a1 = a1  a2 = a2  b1 = b1  t1 = t1  i1 = i1
  Sockets = {s1, s2}
  Sessions = {c1, c2}
  Commands = {a1, a2, b1}
  Texts = {t1}
  Initials = {i1}
  SessionOf <- MCSessionOf
  Conflicts <- MCConflicts
  MaxRoomSockets = 2
  MaxRefusals = 1
  Capacity = 2
  MaxFrames = 2
  MaxSequence = 2
  Faults = {"crash", "hibernate", "storage", "archive", "restore", "idle"}
INVARIANTS
  MemoryIsDurable ToldIsDurable CommitNamesDocument
  CommitsInOrder SyncedSocketsMissNothing
PROPERTY ImplementsLedger
CHECK_DEADLOCK FALSE
