SPECIFICATION Spec
CONSTANTS
    owner = owner
    guest = guest
    bot = bot
    her = her
    none = none
    ask = ask
    room = room
    hush = hush
    photo = photo
    more = more
    mute = mute
    spare = spare
    query = query
    Vanessa = her
    None = none
    Texts <- MCTexts
    Traits <- MCTraits
    ReplyTo <- MCReplyTo
    Topic <- MCTopic
    RepeatWindow = 3
    LoopWindow = 4
    ContinueBack = 3
    Owners <- MCOwners
    Bots <- MCBots
    Says <- MCCommands
    Window = 4
    ListenCount = 2
    IdleGap = 0
    ProxyChat = TRUE
INVARIANT SparedAreHeard
CHECK_DEADLOCK FALSE
