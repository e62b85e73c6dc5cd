SPECIFICATION Spec
CONSTANTS
  w1 = w1
  w2 = w2
  e1 = e1
  e2 = e2
  Writers = {w1, w2}
  Events = {e1, e2}
  MaxLen = 3
SYMMETRY Symmetry
PROPERTY RejectsOtherTail
