SPECIFICATION MCSpec
CONSTANTS
  b1 = b1
  b2 = b2
  Bots = {b1, b2}
  MaxInRow = 2
  Cooldown = 1
  MaxPerHour = 3
  Hour = 2
  NoBot = NoBot
  NoTime = NoTime
  MaxClock = 3
  MaxSaid = 4
  MaxOwed = 1
  MaxReplies = 2
  Window = 1
  MemeGap = 3
  NoReply = NoReply
  MaxPaceTime = 3
  MaxSent = 4
  Callers = {"turn", "photo", "task"}
  Threshold = 2
  ResetTimeout = 2
  NotOpen = NotOpen
  MaxTick = 5
  MaxStreak = 5
  Target = 2
  MaxChars = 3
  Turns <- MCTurns
  Outputs <- MCOutputs
  MaxRetries = 1
  RefuseEnabled = TRUE
  p1 = p1
  p2 = p2
  p3 = p3
  p4 = p4
  q1 = q1
  a1 = a1
  a2 = a2
  None = None
  Photos <- MCPhotos
  Albums <- MCAlbums
  Album <- MCAlbum
  Captioned = {p1}
  MaxPhotos = 3
  h1 = h1
  Handlers = {h1}
  Updates <- MCUpdates
  Answers <- MCAnswers
  Wordings = {"one", "two", "three"}
  Chats = {"group", "other", "private"}
  Private = "private"
  AllowedChat = NoChat
  NoChat = NoChat
  Vision = TRUE
  SpeechMode = "on_request"
  SpeechOn = TRUE
  MaxBlocks = 2
  MinBetween = 2
INVARIANTS RepliesTypeOK AlbumsAreOwned LimitsHold ComposeHolds BotReplyHolds
PROPERTIES PausesAreWhole AddedGetsATurn
CHECK_DEADLOCK FALSE
