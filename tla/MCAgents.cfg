\* Attended: one agent, the administrator, a wake slot, a manual thread and crashes,
\* the second agent switched off.  Unattended: two agents, one of them a lurker.
SPECIFICATION BothSpec
CONSTANTS
  a1 = a1
  a2 = a2
  p1 = p1
  p2 = p2
  s1 = s1
  m1 = m1
  None = None
  Agents = {a1, a2}
  Personas = {p1}
  WakeSlots = {s1}
  ManualThreads = {m1}
  Lurkers = {a2}
  FixedPersona <- TwoRandom
  Attempts = 2
  StrikeLimit = 2
  LruWindow = 1
  MaxRuns = 2
INVARIANTS
  TypeOK
  ExclusiveRuns
  ParkedAgentHasRun
  
PROPERTIES
  OutcomeIsFinal
  LateWorkerHarmless
  
