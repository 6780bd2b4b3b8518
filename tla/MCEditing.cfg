SPECIFICATION Spec
CONSTANTS
  e1 = e1  b1 = b1  b2 = b2
  Boxes = {e1, b1, b2}
  Existing = {e1}
  Nothing = Nothing
  MaxChanges = 1
  MaxRequests = 3
INVARIANT ProposedIsDrawn
PROPERTY DraftIsKept
CHECK_DEADLOCK FALSE
