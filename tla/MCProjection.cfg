SPECIFICATION Spec
CONSTANTS
  x = x  y = y
  Boxes = {x, y}
  Typed = {y}
  FalseCycles <- BothBoxes
  Unsolvable <- SecondAlone
  MaxChanges = 3
  MaxDrafts = 1
  MaxResizes = 1
  MaxLayouts = 2
PROPERTIES NothingStaleIsShown CanvasCatchesUp
CHECK_DEADLOCK FALSE
