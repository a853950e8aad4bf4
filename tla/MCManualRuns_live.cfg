\* Forced and scheduled visits of one agent; nobody switches it off.
SPECIFICATION CalmFairSpec
CONSTANTS
  a1 = a1
  None = None
  Agents = {a1}
  Personas = {p1}
  WakeSlots = {s1}
  ManualThreads = {m1}
  Lurkers = {}
  FixedPersona <- OneRandom
  Attempts = 1
  StrikeLimit = 2
  LruWindow = 1
  MaxRuns = 1
  Requests = {q1}
  TheWorker = w
  NoWorker = NoWorker
  MaxJobs = 2
  MaxCrashes = 0
PROPERTIES
  QueuedAgentReleased
  ParkedAgentFreed
CHECK_DEADLOCK FALSE
