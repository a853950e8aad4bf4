\* Votes: a visitor votes on two items of one author around a recompute that starts
\* from totals one vote off either way.  Simulated voting: one thread, a persona
\* beside its writers, three policies, two ticks of the clock, one mishap.
\* Moderation: two posts, two comments, two deletes at once, two votes.
\* Conversations: two personas, a human, three comments by two threads, a cap of 2 or 3.
\* Seeding: three names of the bank, one person, two items; two runs, or one run and
\* one doing of the live site.
SPECIFICATION CommunitySpec
CONSTANTS
  u1 = u1
  i1 = i1
  i2 = i2
  Users = {u1}
  Visitors = {v1}
  Items = {i1, i2}
  Author <- OneAuthor
  MaxDrift = 1
  vw = vw
  vp = vp
  vq = vq
  Personas = {vw, vp, vq}
  Backers = {vq}
  SimVisitors = {v1}
  Content = {1, 2}
  Writer <- AWriter
  Thread <- AThread
  SimPolicies = {1, 2, 3}
  Cadence <- Cadences
  AnHour = 1
  Lookback = 1
  PerItemLimit = 2
  GlobalLimit = 3
  MaxClock = 2
  MaxMishaps = 1
  a = a
  b = b
  p1 = p1
  p2 = p2
  c1 = c1
  c2 = c2
  Members = {a, b}
  Guests = {g}
  Posts = {p1, p2}
  Comments = {c1, c2}
  By <- EntryBy
  On <- CommentOn
  ReplyTo <- Replies
  Requests = {r1, r2}
  MaxCasts = 2
  MaxDeletes = 2
  Talkers = {a, b}
  Humans = {h}
  Poster = a
  MaxWriting = 2
  CommentCap = 3
  ExchangeCaps = {2, 3}
  InboxPage = 1
  MaxComments = 3
  MaxHour = 1
  n1 = n1
  Planned = {n1, n2, n3}
  Others = {h1}
  Window = 2
  Arrivals = {0, 2}
  DecayDays = 1
  SeedVoteMax = 2
  SeedBatch = 2
  SeedHourly = 1
  MaxSeeded = 2
  MaxSeedDay = 1
  MaxSeedEvents = 2
INVARIANTS
  CommunityTypeOK
  
  SummaryNeverOverstates
  DeletesSound
  ConversationsSound
  
PROPERTIES
  CastKeepsDrift
  QuietRepairExact
CONSTRAINT FirstByN1
CHECK_DEADLOCK FALSE
