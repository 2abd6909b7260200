\* Three packets that share two data.
CONSTANTS
  d1 = d1
  d2 = d2
  p1 = p1
  p2 = p2
  p3 = p3
  Data = {d1, d2}
  Packs = {p1, p2, p3}
  MaxAdded = 3
  MaxRequest = 2
SPECIFICATION Spec
INVARIANT AllDataCovered
