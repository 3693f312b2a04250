SPECIFICATION MCSpec
CONSTANTS
  a1 = a1
  a2 = a2
  Asks = {a1, a2}
  Similar <- MCSimilar
  Parallel = 1
  MaxJobs = 2
  MaxPolls = 1
  MaxParts = 2
  MaxPipeline = 3
  Scanned = 2
  NoMark = NoMark
  NoAnswer = NoAnswer
  Attempts = 2
  MaxMishaps = 2
  Relays = {"relay1", "relay2"}
  RelayBatch = 2
  MaxAttempts = 2
  MaxStaged = 3
  MaxCrashes = 1
  owner = owner
  guest = guest
  friend = friend
  Accounts = {owner, guest, friend}
  Spellings = {"on", "gn", "fn"}
  NameOf <- MCNameOf
  Facts <- MCFacts
  Alike <- MCAlike
  PathOrder <- MCPathOrder
  Owners = {owner}
  Floor = 50
  Scores = {80}
  Duties <- MCDuties
  MaxRounds <- MCMaxRounds
  MaxCounted = 1
  MaxFacts = 1
  NoId = NoId
  NoCard = NoCard
  Unknown = Unknown
  Inputs <- MCInputs
  Shots <- MCShots
  Sides <- MCSides
  Qualities <- MCQualities
  MaxBytes = 150
  Gestures = {"wave"}
  NoGesture = NoGesture
  MaxTurns = 3
INVARIANTS BackgroundTypeOK FollowUpsHold  RowsMatchTheStream CardsStayInCircles PresenceHolds
PROPERTIES WorkEnds WritesOnlyAdd
CHECK_DEADLOCK FALSE
