\* Two provider requests and an agent; one caller with three attempts and one probe;
\* three threads in two processes that share a setting; two sockets; a page of two
\* rows over two kinds of event; two administrator's requests on three agent rows;
\* one image in eight ticks; two pin targets through the seven revisions and back,
\* with two requests; one visit under six configurations, with one change around it;
\* two usernames, a visitor and a job of two batches; requests of three to six
\* personas in three bands and three sectors; two calls for web pages of one name,
\* with three reads, deletes, sweeps or deaths; one visit's turns of two tool calls
\* and three actions; one persona of up to three old items remembered by three visits
\* and the administrator's teller; one stream of three pieces and two attempts; two
\* jobs at once with three log records; two changes of the routes and two calls.
SPECIFICATION ServicesSpec
CONSTANTS
  ProviderThreads = {r1, r2}
  ProviderAgents = {a}
  MaxProviders = 3
  MaxProviderCalls = 4
  Callers = {t1}
  Probers = {p1}
  MaxAttempts = 3
  LlmBudget = 2
  MaxChats = 1
  MaxVerdicts = 2
  s1 = s1
  s2 = s2
  s3 = s3
  q1 = q1
  q2 = q2
  Threads = {s1, s2, s3}
  Processes = {q1, q2}
  ProcessOf <- ThreadProcess
  Ttl = 1
  FillTime = 1
  MaxWrites = 2
  MaxNow = 3
  Clients = {b1, b2}
  MaxEvents = 2
  MaxJoins = 3
  Kinds = {1, 2}
  Filters <- BothKinds
  PageSize = 1
  NewerLimit = 2
  PerSource = 2
  MaxItems = 2
  ReaderStays = TRUE
  MaxRows = 3
  MaxTime = 2
  Clerks = {k1, k2}
  Personas = {"u", "v"}
  AgentIds = {1, 2, 3}
  Enrolled <- OneAgent
  Updates <- SomeUpdates
  Knobs <- SomeKnobs
  Unprobed = {"m2"}
  MaxAsks = 2
  MaxStrikes = 1
  Services = {"fal", "runware"}
  MaxTransport = 3
  MaxRedirects = 1
  ImageTime = 8
  MaxImageCalls = 1
  Targets = {"agent", "global"}
  Legacy = {1, 2}
  Authored <- AuthoredBody
  Editors = {e1, e2}
  MaxEdits = 2
  MaxMigrations = 10
  AgentConfigs <- SomeConfigs
  Communities = {"c"}
  Mixes <- SomeMixes
  MaxChanges = 1
  MaxVisits = 1
  Names = {n1, n2}
  Newcomers = {w1}
  Batches <- TwoBatches
  BatchTries = 2
  Enrols = TRUE
  Nobody = Nobody
  MaxTurns = 3
  Bands <- ThreeBands
  Sectors <- ThreeSectors
  BandWeights <- SomeBandWeights
  SectorWeights <- SomeSectorWeights
  Cards = {1, 2, 3, 4, 5, 6}
  Card <- SixCards
  Levels <- SomeLevels
  Contexts <- SomeContexts
  Student = "student"
  SmallRequest = 6
  BatchOf = 1
  Forums = {f1, f2}
  Counts = {3, 4, 6}
  Writers = {x1, x2}
  Documents <- SomeDocuments
  Hints <- SomeHints
  Slug = "s"
  Tokens = {"t1", "t2"}
  OldAddresses <- SomeAddresses
  MaxDoings = 3
  Requests <- SomeRequests
  Brief = {"lol"}
  MaxPerTurn = 2
  MaxActions = 3
  Repeats = 2
  OwnLimit = 1
  Ceilings = {1, 3}
  WroteBefore <- OnePost
  Tellers = {0}
  Stays = {1, 2, 3}
  Lazy = {1, 2}
  Backlog = {0, 3}
  ChunkSize = 2
  MaxChunks = 2
  PromptChunks = 1
  PromptEpisodes = 1
  MaxMishaps = 1
  StreamAttempts = 2
  MaxPieces = 3
  MaxStreams = 1
  LogJobs = {1, 2}
  BatchLines = 2
  MaxLines = 1
  MaxRecords = 3
  Hosts = {"web", "worker"}
  RouteTiers = {"default", "creative"}
  RouteModels = {"m1", "m2"}
  Priorities = {0, 1}
  MaxSets = 2
INVARIANTS
  ServicesTypeOK
  
  
  
  MembersAreKnown
  ToldFaithfully
  
  VisitsSound
  PersonasSound
  
CHECK_DEADLOCK FALSE
