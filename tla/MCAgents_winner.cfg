SPECIFICATION UnattendedFairSpec
CONSTANTS
  a1 = a1
  a2 = a2
  p1 = p1
  p2 = p2
  s1 = s1
  m1 = m1
  None = None
  Agents = {a1, a2}
  Personas = {p1}
  WakeSlots = {s1}
  ManualThreads = {m1}
  Lurkers = {}
  FixedPersona <- TwoRandom
  Attempts = 2
  StrikeLimit = 2
  LruWindow = 1
  MaxRuns = 2
PROPERTIES
  WinnerKeepsStatus
