SPECIFICATION FairJoinedSpec
CONSTANTS
  c1 = c1  c2 = c2
  s1 = s1  s2 = s2  s3 = s3  s4 = s4
  Clients = {c1, c2}
  Sockets = {s1, s2, s3, s4}
  MaxUpdates = 1
  Replacing = {c1}
  MaxFrames = 2
INVARIANT QuietShowsEveryone
PROPERTIES NeverOlder GoneIsForgotten
CHECK_DEADLOCK FALSE
