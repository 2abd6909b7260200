\* Two packets added in up to three calls, requests of up to three data.
CONSTANTS
  d1 = d1
  d2 = d2
  p1 = p1
  p2 = p2
  p3 = p3
  Data = {d1, d2}
  Packs = {p1, p2}
  MaxAdded = 3
  MaxRequest = 3
SPECIFICATION FairSpec
INVARIANTS TypeOK SearchInBounds LeftBehind ProvidedAreFound
PROPERTY SearchEnds
