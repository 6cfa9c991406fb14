\* A failing Redis and handlers that die, with the fairness of a running process.
SPECIFICATION FairSpec
CONSTANTS
  Products = {p1}
  Categories = {c1}
  Collections = {s1}
  Users = {u1}
  Slots = {r1, r2}
  MaxWrites = 1
  Failures = TRUE
  Nothing = Nothing
PROPERTY EventuallyFresh
