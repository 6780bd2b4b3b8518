SPECIFICATION Spec
CONSTANTS
  e1 = e1  e2 = e2
  red = red  blue = blue
  blank = blank  words = words
  None = None
  Elements = {e1, e2}
  Colors = {red, blue}
  Contents = {blank, words}
  Blank = blank
  Opening <- MCOpening
  MaxActs = 4
  MaxOthers = 1
  MaxLosses = 1
INVARIANTS
  Chronological BackToOpening RestorationIsDecided OpenTextIsLatest
PROPERTY OthersDeletionsStand
CHECK_DEADLOCK FALSE
