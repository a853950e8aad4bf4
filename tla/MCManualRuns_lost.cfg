\* A second request lands between the two halves of a release.
SPECIFICATION CalmSpec
CONSTANTS
  a1 = a1
  None = None
  Agents = {a1}
  Personas = {p1}
  WakeSlots = {}
  ManualThreads = {m1}
  Lurkers = {}
  FixedPersona <- OneRandom
  Attempts = 2
  StrikeLimit = 2
  LruWindow = 1
  MaxRuns = 1
  Requests = {q1}
  TheWorker = w
  NoWorker = NoWorker
  MaxJobs = 2
  MaxCrashes = 0
INVARIANTS
  QueuedAgentHasJob
CHECK_DEADLOCK FALSE
