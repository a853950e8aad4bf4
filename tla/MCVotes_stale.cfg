\* A vote lands while the nightly recompute runs on totals that were right.
SPECIFICATION FairSpec
CONSTANTS
  u1 = u1
  i1 = i1
  i2 = i2
  Users = {u1}
  Visitors = {c1}
  Items = {i1, i2}
  Author <- OneAuthor
  MaxDrift = 0
PROPERTIES
  RecomputedIsCanonical
