SPECIFICATION PubSpec
CONSTANTS
  Runs = {r1, r2}
  r1 = r1
  r2 = r2
  MaxMishaps = 1
  MaxCalls = 3
  PostCap = 1
  HourlyLimit = 1
  HourTicks = 1
  MaxTime = 1
  None = None
SYMMETRY RunSymmetry
INVARIANT ImagePostsHaveImages
CHECK_DEADLOCK FALSE
