SPECIFICATION Spec
CONSTANTS
  n1 = n1
  n2 = n2
  n3 = n3
  g1 = g1
  g2 = g2
  j1 = j1
  j2 = j2
  Nodes = {n1, n2, n3}
  Groups = {g1, g2}
  Junctions = {j1, j2}
  RelationIds = {1, 2, 3, 4, 5, 6, 7}
  Root = root
  Nobody = nobody
  Clients = {c1, c2}
  c1 = c1
  c2 = c2
  Openings <- SomeOpenings
  MaxSelected = 2
  MaxBatches = 2
INVARIANT DocumentTypeOK
PROPERTIES
  JunctionsFollowTargets
  DeletionKeepsFlow
  DeletionIsExact
  DeletionIsAccepted
CHECK_DEADLOCK FALSE
SYMMETRY Same
