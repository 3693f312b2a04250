SPECIFICATION MCSpec
CONSTANTS
  HerRows = {}
  Text <- MCText
  Runners = {"agent", "worker"}
  Home = "agent"
  Executors = {"executor"}
  MaxJobsQueued = 1
  Context = 2
  HasCooldown = TRUE
  Interval = 2
  Batch = 3
  Window = 2
  Overlap = 1
  MaxRow = 3
  MaxFails = 1
  Updates <- MCUpdates
  Writers = {"agent", "worker"}
  Compactors = {"agent", "worker"}
  Undated = Undated
  BucketAges <- MCBucketAges
  Limit = 1
  QuoteLimit = 1
  MaxDay = 2
  MaxTold = 6
  Folders <- MCFolders
  CardIds = {1, 2, 3, 4}
  Similar <- MCSimilar
  Cyrillic = {2}
  Commands <- MCCommands
  NoTelegram = NoTelegram
  Gone = Gone
  t1 = t1
  t2 = t2
  g1 = g1
  g2 = g2
  NoTurn = NoTurn
  Turns = {t1, t2}
  FromBot = {t2}
  WithPhoto = {t1}
  Agents = {g1, g2}
INVARIANTS KnowledgeTypeOK TurnsAreWhole MessagesAreReadOnce LinesAreSafe
PROPERTIES SweepCatchesUp CutsAreOld
CHECK_DEADLOCK FALSE
