\* Forced visits of one agent while the administrator switches it on and off
\* and clears the job history, and while the worker crashes.
SPECIFICATION ManualSpec
CONSTANTS
  a1 = a1
  None = None
  Agents = {a1}
  Personas = {p1}
  WakeSlots = {}
  ManualThreads = {m1}
  Lurkers = {}
  FixedPersona <- OneRandom
  Attempts = 1
  StrikeLimit = 1
  LruWindow = 1
  MaxRuns = 1
  Requests = {q1}
  TheWorker = w
  NoWorker = NoWorker
  MaxJobs = 2
  MaxCrashes = 1
INVARIANTS
  ManualTypeOK
  

  
