\* Two handlers in flight, two writes: how writes, fills and recomputations interleave.
SPECIFICATION Spec
CONSTANTS
  Products = {p1}
  Categories = {c1, c2}
  Collections = {s1}
  Users = {u1}
  Slots = {r1, r2}
  MaxWrites = 2
  Failures = FALSE
  Nothing = Nothing
SYMMETRY CatalogueSymmetry
INVARIANTS TypeOK StaleOnlyByRace DerivedMatch
