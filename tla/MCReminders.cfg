SPECIFICATION MCSpec
CONSTANTS
    w1 = w1
    w2 = w2
    Nobody = Nobody
    Rows <- MCRows
    Period <- MCPeriod
    Workers <- MCWorkers
    BatchSize = 1
    MaxLate = 0
    DedupTtl = 1
    MaxTime = 2
    Many = 1
    agent1 = agent1
    agent2 = agent2
    l1 = l1
    l2 = l2
    x1 = x1
    x2 = x2
    Agents = {agent1, agent2}
    Requests <- MCRequests
    Begins <- MCBegins
    DaySlots = 3
    WeekLen = 2
    MonthLen = 5
    SearchDays = 11
    Horizon = 9
    Samples = 6
    MinGap = 2
    MaxAhead = 6
    MaxPosts = 2
    LastNow = 2
    LastId = 3
    Asked <- MCAsked
    Payloads <- MCPayloads
    Rank <- MCRank
    Cap <- MCCap
    MaxChars = 18
    Long = 6
INVARIANTS
    RemindersTypeOK
    SettledStaysSilent
    ScheduleHolds
    PromptHolds
PROPERTIES
    RunsAreNotForgotten
    NothingStaysDue
CHECK_DEADLOCK FALSE
